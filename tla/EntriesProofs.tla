---------------------------- MODULE EntriesProofs ----------------------------
(***************************************************************************)
(* Whatever the section: neither recursion goes deeper than the limit, no  *)
(* way out of a call leaves a pool, a list without pointers is no longer   *)
(* than the bytes it comes from, a dump goes through a list from end to    *)
(* end, although it has only the sizes to go by, a list holds what the     *)
(* format has at its root, and a path lookup finds what the path selects.  *)
(***************************************************************************)
EXTENDS Entries, DecodingProofs, SequenceTheorems

MemInv == section \in Sections /\ beyond \in Beyond

\* The memory is what the lemmas on decoding take it to be.
LEMMA MemoryIsSection == MemInv => SectionOK
BY SectionAssumption DEF MemInv, SectionOK, data_section_size

\* What decode_one makes of entry data is entry data; that of an accepted value
\* has the value's type and end.
LEMMA DecodedEntry ==
  ASSUME MemInv, NEW o \in Nat, NEW e \in EntryType
  PROVE  /\ Decoded(e, o) \in EntryType
         /\ ~Invalid(o) => /\ Decoded(e, o).type = TypeAt(o)
                           /\ Decoded(e, o).offset_to_next = NextAt(o)
<1>1. EntryType = EntryOf(Nat) /\ TypesAt \subseteq Nat
  BY DEF EntryType, EntryOf, TypesAt
<1>2. SectionOK
  BY MemoryIsSection
<1> QED BY <1>1, <1>2, DecodedFields, FilledFields

\* So is what decode_one_follow makes of it.
LEMMA FollowedEntry ==
  ASSUME MemInv, NEW o \in Nat, NEW e \in EntryType
  PROVE  Followed(e, o) \in EntryType
<1>1. EntryType = EntryOf(Nat) /\ TypesAt \subseteq Nat
  BY DEF EntryType, EntryOf, TypesAt
<1>2. SectionOK
  BY MemoryIsSection
<1> QED BY <1>1, <1>2, FollowedFields

\* The fields of entry data.
LEMMA EntryFields ==
  ASSUME NEW e \in EntryType
  PROVE  /\ e.offset_to_next \in Nat /\ e.data_size \in Nat /\ e.type \in Nat
         /\ e.pointer \in Nat
         /\ \A n \in Nat : [e EXCEPT !.offset_to_next = n] \in EntryType
BY DEF EntryType

\* A zeroed struct is entry data.
LEMMA EmptyIsEntry == EmptyEntry \in EntryType
BY DEF EmptyEntry, EntryType, EXTENDED

\* A stack is what is below its top, and its top.
LEMMA TopAndBelow ==
  ASSUME NEW S, NEW s \in Seq(S), s # << >>
  PROVE  /\ Front(s) \in Seq(S) /\ Len(Front(s)) = Len(s) - 1
         /\ \A k \in 1 .. (Len(s) - 1) : Front(s)[k] = s[k]
         /\ Len(s) \in 1 .. Len(s) /\ s[Len(s)] \in S
         /\ s = Append(Front(s), s[Len(s)])
         /\ \A f : [s EXCEPT ![Len(s)] = f] = Append(Front(s), f)
<1>0. \A n \in Nat : \A k \in 1 .. n : k # n => k \in 1 .. (n - 1)
  OBVIOUS
<1>1. Len(s) \in Nat /\ Len(s) > 0 /\ DOMAIN s = 1 .. Len(s)
  OBVIOUS
<1>2. Len(s) \in 1 .. Len(s) /\ s[Len(s)] \in S
  BY <1>1
<1>3. /\ Front(s) \in Seq(S) /\ Len(Front(s)) = Len(s) - 1
      /\ \A k \in 1 .. (Len(s) - 1) : Front(s)[k] = s[k]
  BY <1>1, SubSeqProperties DEF Front
<1> HIDE DEF Front
<1>4. ASSUME NEW f PROVE [s EXCEPT ![Len(s)] = f] = Append(Front(s), f)
  <2> DEFINE t == [s EXCEPT ![Len(s)] = f]
             u == Append(Front(s), f)
             V == S \cup {f}
  <2>1. s \in Seq(V) /\ Front(s) \in Seq(V) /\ f \in V
    BY <1>3
  <2> HIDE DEF V
  <2>2. t \in Seq(V) /\ Len(t) = Len(s)
        /\ \A k \in 1 .. Len(s) : t[k] = IF k = Len(s) THEN f ELSE s[k]
    BY <1>2, <2>1, ExceptSeq
  <2>3. u \in Seq(V) /\ Len(u) = Len(s)
        /\ \A k \in 1 .. Len(s) : u[k] = IF k = Len(s) THEN f ELSE Front(s)[k]
    <3>1. /\ u \in Seq(V) /\ Len(u) = Len(Front(s)) + 1
          /\ \A k \in 1 .. Len(Front(s)) : u[k] = Front(s)[k]
          /\ u[Len(Front(s)) + 1] = f
      BY <2>1, AppendProperties
    <3> HIDE DEF u
    <3>2. Len(u) = Len(s) /\ u[Len(s)] = f
      BY <1>1, <1>3, <3>1
    <3>3. \A k \in 1 .. Len(s) : k # Len(s) => k \in 1 .. Len(Front(s))
      BY <1>0, <1>1, <1>3
    <3> QED BY <3>1, <3>2, <3>3
  <2> HIDE DEF t, u
  <2>4. \A k \in 1 .. Len(s) : k # Len(s) => Front(s)[k] = s[k]
    BY <1>0, <1>1, <1>3
  <2>5. Len(t) = Len(u) /\ \A k \in 1 .. Len(t) : t[k] = u[k]
    BY <2>2, <2>3, <2>4
  <2>6. t = u
    BY <2>2, <2>3, <2>5, SeqEqual
  <2> QED BY <2>6 DEF t, u
<1>5. [s EXCEPT ![Len(s)] = s[Len(s)]] = s
  BY <1>1
<1>6. s = Append(Front(s), s[Len(s)])
  BY <1>4, <1>5
<1> QED BY <1>2, <1>3, <1>4, <1>6
-------------------------------------------------------------------------------
(***************************************************************************)
(* Path lookups.                                                           *)
(***************************************************************************)
SkipFrame == [left : Nat, map : BOOLEAN]

PathInv ==
  /\ lookup \in {"idle", "path", "array", "map"}
  /\ left \in Nat /\ value \in EntryType /\ entry_data \in EntryType
  /\ skips \in Seq(SkipFrame) /\ Len(skips) <= MaxDepth
  /\ result \in Status

\* What an error leaves.
LEMMA FailHolds ==
  ASSUME NEW status \in Status, Fail(status)
  PROVE  PathInv'
<1>1. /\ lookup' = "idle" /\ result' = status /\ left' = 0 /\ value' = EmptyEntry
      /\ skips' = << >> /\ entry_data' = EmptyEntry
  BY DEF Fail, Return
<1>2. skips' \in Seq(SkipFrame) /\ Len(skips') <= MaxDepth
  BY <1>1, SectionAssumption DEF MaxDepth
<1> QED BY <1>1, <1>2, EmptyIsEntry DEF PathInv

\* An index is a status or a number.
LEMMA IndexType ==
  ASSUME NEW p, NEW n \in Nat
  PROVE  /\ ArrayIndex(p, n).status \in Status
         /\ ArrayIndex(p, n).status = "MMDB_SUCCESS" => ArrayIndex(p, n).index \in Nat
<1> DEFINE parsed == strtol(p)
           index == IF parsed.value < 0 THEN parsed.value + n ELSE parsed.value
<1>1. ArrayIndex(p, n) =
        IF parsed.erange THEN [status |-> "MMDB_INVALID_LOOKUP_PATH_ERROR", index |-> 0]
        ELSE IF parsed.junk \/ index \notin 0 .. (n - 1)
        THEN [status |-> "MMDB_LOOKUP_PATH_DOES_NOT_MATCH_DATA_ERROR", index |-> 0]
        ELSE [status |-> "MMDB_SUCCESS", index |-> index]
  BY DEF ArrayIndex
<1> HIDE DEF parsed, index
<1>2. CASE parsed.erange
  BY <1>1, <1>2 DEF Status
<1>3. CASE ~parsed.erange /\ (parsed.junk \/ index \notin 0 .. (n - 1))
  BY <1>1, <1>3 DEF Status
<1>4. CASE ~parsed.erange /\ ~parsed.junk /\ index \in 0 .. (n - 1)
  BY <1>1, <1>4 DEF Status
<1> QED BY <1>2, <1>3, <1>4

\* A call of skip_map_or_array adds at most one frame.
LEMMA EnteredType ==
  ASSUME NEW s \in Seq(SkipFrame), Len(s) < MaxDepth, NEW v \in EntryType
  PROVE  Entered(s, v) \in Seq(SkipFrame) /\ Len(Entered(s, v)) <= MaxDepth
<1>1. v.data_size \in Nat /\ MaxDepth \in Nat
  BY EntryFields, SectionAssumption DEF MaxDepth
<1> DEFINE f == [left |-> v.data_size, map |-> v.type = MAP]
<1>2. f \in SkipFrame
  BY <1>1 DEF SkipFrame
<1> HIDE DEF f
<1>3. Append(s, f) \in Seq(SkipFrame) /\ Len(Append(s, f)) = Len(s) + 1
  BY <1>2
<1>4. Entered(s, v) \in {s, Append(s, f)}
  BY DEF Entered, f
<1> QED BY <1>1, <1>3, <1>4

\* A value that is passed over.
LEMMA SkipValueHolds ==
  ASSUME MemInv, PathInv, skips = << >>, left > 0, NEW v \in EntryType, NEW o \in Nat,
         SkipValue(v, o)
  PROVE  PathInv'
<1>1. value' = Decoded(v, o) /\ skips' = Entered(skips, value') /\ left' = left - 1
      /\ UNCHANGED <<lookup, entry_data, result>>
  BY DEF SkipValue
<1>2. value' \in EntryType
  BY <1>1, DecodedEntry
<1>3. Len(skips) < MaxDepth
  BY SectionAssumption DEF MaxDepth
<1>4. skips' \in Seq(SkipFrame) /\ Len(skips') <= MaxDepth
  BY <1>1, <1>2, <1>3, EnteredType DEF PathInv
<1> QED BY <1>1, <1>2, <1>4 DEF PathInv

\* A value that is looked into next.
LEMMA FoundHolds ==
  ASSUME MemInv, PathInv, NEW o \in Nat, Found(o)
  PROVE  PathInv'
<1>1. CASE FollowFails(Uninitialised, o)
  <2>1. Fail("MMDB_INVALID_DATA_ERROR")
    BY <1>1 DEF Found
  <2>2. "MMDB_INVALID_DATA_ERROR" \in Status
    BY DEF Status
  <2> QED BY <2>1, <2>2, FailHolds
<1>2. CASE ~FollowFails(Uninitialised, o)
  <2>1. /\ entry_data' = Followed(Uninitialised, o) /\ lookup' = "path"
        /\ left' = 0 /\ value' = EmptyEntry /\ UNCHANGED <<skips, result>>
    BY <1>2 DEF Found
  <2>2. entry_data' \in EntryType
    BY <2>1, FollowedEntry, PathAssumption
  <2> QED BY <2>1, <2>2, EmptyIsEntry DEF PathInv
<1> QED BY <1>1, <1>2

\* Inside skip_map_or_array.
LEMMA SkipMemberHolds ==
  ASSUME MemInv, PathInv, SkipMember
  PROVE  PathInv'
<1> DEFINE n == Len(skips)
           key == value.offset_to_next
<1>1. PICK keyed \in {IF skips[n].map THEN Decoded(value, key) ELSE value} :
        IF \/ skips[n].map /\ Invalid(key)
           \/ Invalid(keyed.offset_to_next)
           \/ n >= MAXIMUM_DATA_STRUCTURE_DEPTH
        THEN Fail("MMDB_INVALID_DATA_ERROR")
        ELSE /\ value' = Decoded(keyed, keyed.offset_to_next)
             /\ skips' = Entered([skips EXCEPT ![n].left = @ - 1], value')
             /\ UNCHANGED <<lookup, asked, path, left, entry_data, result>>
  BY DEF SkipMember
<1>2. skips # << >> /\ skips[n].left > 0
  BY DEF SkipMember
<1>3. key \in Nat /\ value \in EntryType /\ skips \in Seq(SkipFrame)
  BY EntryFields DEF PathInv
<1>4. keyed \in EntryType
  BY <1>1, <1>3, DecodedEntry
<1>5. keyed.offset_to_next \in Nat
  BY <1>4, EntryFields
<1> HIDE DEF key
<1>6. CASE \/ skips[n].map /\ Invalid(key)
           \/ Invalid(keyed.offset_to_next)
           \/ n >= MAXIMUM_DATA_STRUCTURE_DEPTH
  <2>1. Fail("MMDB_INVALID_DATA_ERROR")
    BY <1>1, <1>6
  <2>2. "MMDB_INVALID_DATA_ERROR" \in Status
    BY DEF Status
  <2> QED BY <2>1, <2>2, FailHolds
<1>7. CASE ~ \/ skips[n].map /\ Invalid(key)
             \/ Invalid(keyed.offset_to_next)
             \/ n >= MAXIMUM_DATA_STRUCTURE_DEPTH
  <2>1. /\ value' = Decoded(keyed, keyed.offset_to_next)
        /\ skips' = Entered([skips EXCEPT ![n].left = @ - 1], value')
        /\ UNCHANGED <<lookup, left, entry_data, result>>
    BY <1>1, <1>7
  <2>2. value' \in EntryType
    BY <2>1, <1>4, <1>5, DecodedEntry
  <2>3. n \in 1 .. Len(skips) /\ skips[n] \in SkipFrame
    BY <1>2, <1>3
  <2>4. [skips[n] EXCEPT !.left = @ - 1] \in SkipFrame
    BY <1>2, <2>3 DEF SkipFrame
  <2> DEFINE counted == [skips EXCEPT ![n].left = @ - 1]
  <2>5. counted \in Seq(SkipFrame) /\ Len(counted) = Len(skips)
    BY <1>3, <2>3, <2>4
  <2> HIDE DEF counted
  <2>6. Len(counted) < MaxDepth
    BY <1>3, <1>7, <2>5, SectionAssumption DEF MaxDepth
  <2>7. skips' \in Seq(SkipFrame) /\ Len(skips') <= MaxDepth
    BY <2>1, <2>2, <2>5, <2>6, EnteredType DEF counted
  <2> QED BY <2>1, <2>2, <2>7 DEF PathInv
<1> QED BY <1>6, <1>7

\* Every step of a path lookup.
LEMMA PathStepHolds ==
  ASSUME MemInv, PathInv, PathStep
  PROVE  PathInv'
<1>1. /\ value \in EntryType /\ entry_data \in EntryType
      /\ value.offset_to_next \in Nat /\ entry_data.data_size \in Nat
  BY EntryFields DEF PathInv
<1>2. /\ "MMDB_INVALID_DATA_ERROR" \in Status
      /\ "MMDB_LOOKUP_PATH_DOES_NOT_MATCH_DATA_ERROR" \in Status
      /\ "MMDB_SUCCESS" \in Status
  BY DEF Status
<1>3. Uninitialised \in EntryType
  BY PathAssumption
<1>4. CASE PathEnds
  <2>1. /\ lookup' = "idle" /\ result' = "MMDB_SUCCESS" /\ left' = 0 /\ value' = EmptyEntry
        /\ skips' = << >> /\ entry_data' = entry_data
    BY <1>4 DEF PathEnds, Return
  <2>2. skips' \in Seq(SkipFrame) /\ Len(skips') <= MaxDepth
    BY <2>1, SectionAssumption DEF MaxDepth
  <2> QED BY <1>1, <1>2, <2>1, <2>2, EmptyIsEntry DEF PathInv
<1>5. CASE NoMembers
  BY <1>2, <1>5, FailHolds DEF NoMembers
<1>6. CASE IntoArray
  <2> DEFINE index == ArrayIndex(Head(path), entry_data.data_size)
  <2>1. /\ index.status \in Status
        /\ index.status = "MMDB_SUCCESS" => index.index \in Nat
    BY <1>1, IndexType
  <2>2. IF index.status # "MMDB_SUCCESS" THEN Fail(index.status)
        ELSE /\ lookup' = "array" /\ left' = index.index /\ value' = entry_data
             /\ UNCHANGED <<asked, path, skips, entry_data, result>>
    BY <1>6 DEF IntoArray
  <2> HIDE DEF index
  <2>3. CASE index.status # "MMDB_SUCCESS"
    BY <2>1, <2>2, <2>3, FailHolds
  <2>4. CASE index.status = "MMDB_SUCCESS"
    BY <1>1, <2>1, <2>2, <2>4 DEF PathInv
  <2> QED BY <2>3, <2>4
<1>7. CASE IntoMap
  BY <1>1, <1>7 DEF IntoMap, PathInv
<1>8. CASE PassElement
  <2>1. skips = << >> /\ left > 0
    BY <1>8 DEF PassElement
  <2>2. \/ Fail("MMDB_INVALID_DATA_ERROR") \/ SkipValue(value, value.offset_to_next)
    BY <1>8 DEF PassElement
  <2> QED BY <1>1, <1>2, <2>1, <2>2, FailHolds, SkipValueHolds
<1>9. CASE TakeElement
  BY <1>1, <1>9, FoundHolds DEF TakeElement
<1>10. CASE KeyIsInvalid
  BY <1>2, <1>10, FailHolds DEF KeyIsInvalid
<1>11. CASE CompareKey
  <2>1. skips = << >> /\ left > 0
    BY <1>11 DEF CompareKey
  <2>2. PICK key \in {Followed(Uninitialised, value.offset_to_next)} :
          IF Matches(key, Head(path)) THEN Found(key.offset_to_next)
          ELSE IF Invalid(key.offset_to_next) THEN Fail("MMDB_INVALID_DATA_ERROR")
          ELSE SkipValue(Uninitialised, key.offset_to_next)
    BY <1>11 DEF CompareKey
  <2>3. key \in EntryType
    BY <1>1, <1>3, FollowedEntry
  <2>4. key.offset_to_next \in Nat
    BY <2>3, EntryFields
  <2>5. \/ Found(key.offset_to_next) \/ Fail("MMDB_INVALID_DATA_ERROR")
        \/ SkipValue(Uninitialised, key.offset_to_next)
    BY <2>2
  <2> QED BY <1>2, <1>3, <2>1, <2>4, <2>5, FoundHolds, FailHolds, SkipValueHolds
<1>12. CASE NoKeyLeft
  BY <1>2, <1>12, FailHolds DEF NoKeyLeft
<1>13. CASE SkipMember
  BY <1>13, SkipMemberHolds
<1>14. CASE SkipReturns
  <2>1. skips # << >> /\ skips' = Front(skips)
        /\ UNCHANGED <<lookup, left, value, entry_data, result>>
    BY <1>14 DEF SkipReturns
  <2>2. skips' \in Seq(SkipFrame) /\ Len(skips') = Len(skips) - 1
    BY <2>1, TopAndBelow DEF PathInv
  <2> QED BY <2>1, <2>2, SectionAssumption DEF PathInv, MaxDepth
<1> QED BY <1>4, <1>5, <1>6, <1>7, <1>8, <1>9, <1>10, <1>11, <1>12, <1>13, <1>14
        DEF PathStep

\* And the call itself.
LEMMA PathCallHolds ==
  ASSUME MemInv, PathInv, CallPath
  PROVE  PathInv'
<1>1. PICK o \in Starts, p \in Paths : MMDB_get_value(o, p)
  BY DEF CallPath
<1>2. o \in Nat
  BY PathAssumption
<1>3. Followed(EmptyEntry, o) \in EntryType
  BY <1>2, EmptyIsEntry, FollowedEntry
<1>4. CASE PathOutOfMemory
  BY <1>4 DEF PathOutOfMemory, PathInv, Status
<1>5. CASE MMDB_aget_value(o, p)
  <2>1. /\ entry_data' = Followed(EmptyEntry, o)
        /\ \/ lookup' = "idle" /\ result' = "MMDB_INVALID_DATA_ERROR"
           \/ lookup' = "path" /\ result' = "none"
        /\ UNCHANGED <<left, value, skips>>
    BY <1>5 DEF MMDB_aget_value
  <2>2. result' \in Status
    BY <2>1 DEF Status
  <2> QED BY <1>3, <2>1, <2>2 DEF PathInv
<1> QED BY <1>1, <1>4, <1>5 DEF MMDB_get_value
-------------------------------------------------------------------------------
(***************************************************************************)
(* Sums over a stack, and the debt of a list: how many elements are still  *)
(* to come after the first k, if every value comes before its members.     *)
(***************************************************************************)
\* n is the sum of the weights w of the frames of s.
HasSum(w, s, n) ==
  \E g \in [0 .. Len(s) -> Nat] :
    /\ g[0] = 0 /\ g[Len(s)] = n
    /\ \A k \in 1 .. Len(s) : g[k] = g[k - 1] + w[s[k]] /\ \A j \in 0 .. k : g[j] <= g[k]

\* The sum over no frames is 0.
LEMMA SumOfNone ==
  ASSUME NEW w
  PROVE  HasSum(w, << >>, 0)
<1> DEFINE g == [k \in 0 .. Len(<< >>) |-> 0]
<1>1. Len(<< >>) = 0
  OBVIOUS
<1>2. g \in [0 .. Len(<< >>) -> Nat] /\ g[0] = 0 /\ g[Len(<< >>)] = 0
  BY <1>1
<1> HIDE DEF g
<1> QED BY <1>1, <1>2 DEF HasSum

\* And nothing else is.
LEMMA NoneSumsToZero ==
  ASSUME NEW w, NEW n, HasSum(w, << >>, n)
  PROVE  n = 0
<1>1. Len(<< >>) = 0
  OBVIOUS
<1> QED BY <1>1 DEF HasSum

\* A frame that is pushed adds its weight.
LEMMA SumPush ==
  ASSUME NEW S, NEW w \in [S -> Nat], NEW s \in Seq(S), NEW f \in S, NEW n, HasSum(w, s, n)
  PROVE  n \in Nat /\ HasSum(w, Append(s, f), n + w[f])
<1>1. PICK g \in [0 .. Len(s) -> Nat] :
        /\ g[0] = 0 /\ g[Len(s)] = n
        /\ \A k \in 1 .. Len(s) : g[k] = g[k - 1] + w[s[k]] /\ \A j \in 0 .. k : g[j] <= g[k]
  BY DEF HasSum
<1> DEFINE m == Len(s)
           t == Append(s, f)
           h == [k \in 0 .. (m + 1) |-> IF k <= m THEN g[k] ELSE n + w[f]]
<1>2. m \in Nat /\ Len(t) = m + 1 /\ t[m + 1] = f /\ \A k \in 1 .. m : t[k] = s[k]
  OBVIOUS
<1>3. n \in Nat /\ w[f] \in Nat /\ \A k \in 0 .. m : g[k] \in Nat
  <2>1. m \in 0 .. m
    BY <1>2
  <2> QED BY <1>1, <2>1
<1>4. g[0] = 0 /\ g[m] = n
      /\ \A k \in 1 .. m : g[k] = g[k - 1] + w[s[k]] /\ \A j \in 0 .. k : g[j] <= g[k]
  BY <1>1
<1> HIDE DEF m, t
<1>5. h \in [0 .. (m + 1) -> Nat] /\ h[m + 1] = n + w[f] /\ \A k \in 0 .. m : h[k] = g[k]
  BY <1>2, <1>3
<1> HIDE DEF h
<1>6. \A j \in 0 .. m : g[j] <= n
  <2>1. CASE m = 0
    BY <1>4, <2>1
  <2>2. CASE m > 0
    BY <1>2, <1>4, <2>2
  <2> QED BY <1>2, <2>1, <2>2
<1>7. ASSUME NEW k \in 1 .. (m + 1)
      PROVE  h[k] = h[k - 1] + w[t[k]] /\ \A j \in 0 .. k : h[j] <= h[k]
  <2>1. CASE k \in 1 .. m
    <3>1. k - 1 \in 0 .. m /\ k \in 0 .. m /\ \A j \in 0 .. k : j \in 0 .. m
      BY <1>2, <2>1
    <3> QED BY <1>2, <1>4, <1>5, <2>1, <3>1
  <2>2. CASE k = m + 1
    <3>1. h[k] = h[k - 1] + w[t[k]]
      BY <1>2, <1>4, <1>5, <2>2
    <3>2. ASSUME NEW j \in 0 .. k PROVE h[j] <= h[k]
      <4>1. CASE j = m + 1
        BY <1>3, <1>5, <2>2, <4>1
      <4>2. CASE j \in 0 .. m
        BY <1>3, <1>5, <1>6, <2>2, <4>2
      <4> QED BY <1>2, <2>2, <4>1, <4>2
    <3> QED BY <3>1, <3>2
  <2> QED BY <1>2, <2>1, <2>2
<1>8. h \in [0 .. Len(t) -> Nat] /\ h[0] = 0 /\ h[Len(t)] = n + w[f]
  BY <1>2, <1>4, <1>5
<1>9. HasSum(w, t, n + w[f])
  BY <1>2, <1>7, <1>8 DEF HasSum
<1> QED BY <1>3, <1>9 DEF t

\* One that is popped takes it away.
LEMMA SumPop ==
  ASSUME NEW S, NEW w \in [S -> Nat], NEW s \in Seq(S), NEW f \in S, NEW n,
         HasSum(w, Append(s, f), n)
  PROVE  n \in Nat /\ w[f] <= n /\ HasSum(w, s, n - w[f])
<1> DEFINE m == Len(s)
           t == Append(s, f)
<1>1. m \in Nat /\ Len(t) = m + 1 /\ t[m + 1] = f /\ \A k \in 1 .. m : t[k] = s[k]
  OBVIOUS
<1> HIDE DEF t
<1>2. HasSum(w, t, n)
  BY DEF t
<1>3. PICK g \in [0 .. (m + 1) -> Nat] :
        /\ g[0] = 0 /\ g[m + 1] = n
        /\ \A k \in 1 .. (m + 1) : g[k] = g[k - 1] + w[t[k]] /\ \A j \in 0 .. k : g[j] <= g[k]
  BY <1>1, <1>2 DEF HasSum
<1> HIDE DEF m
<1>4. n \in Nat /\ g[m] \in Nat /\ w[f] \in Nat /\ g[m + 1] = g[(m + 1) - 1] + w[t[m + 1]]
  BY <1>1, <1>3
<1>5. g[m] = n - w[f] /\ w[f] <= n
  BY <1>1, <1>3, <1>4
<1> DEFINE h == [k \in 0 .. m |-> g[k]]
<1>6. h \in [0 .. m -> Nat] /\ \A k \in 0 .. m : h[k] = g[k]
  BY <1>1, <1>3
<1> HIDE DEF h
<1>7. h[0] = 0 /\ h[m] = n - w[f]
  BY <1>1, <1>3, <1>5, <1>6
<1>8. ASSUME NEW k \in 1 .. m
      PROVE  h[k] = h[k - 1] + w[s[k]] /\ \A j \in 0 .. k : h[j] <= h[k]
  <2>1. k - 1 \in 0 .. m /\ k \in 0 .. m /\ k \in 1 .. (m + 1)
        /\ \A j \in 0 .. k : j \in 0 .. m
    BY <1>1
  <2> QED BY <1>1, <1>3, <1>6, <2>1
<1>9. HasSum(w, s, n - w[f])
  BY <1>6, <1>7, <1>8 DEF HasSum, m
<1> QED BY <1>4, <1>5, <1>9

\* No frame weighs more than all of them.
LEMMA SumPart ==
  ASSUME NEW S, NEW w \in [S -> Nat], NEW s \in Seq(S), NEW n, HasSum(w, s, n),
         NEW k \in 1 .. Len(s)
  PROVE  n \in Nat /\ w[s[k]] <= n
<1>1. PICK g \in [0 .. Len(s) -> Nat] :
        /\ g[0] = 0 /\ g[Len(s)] = n
        /\ \A i \in 1 .. Len(s) : g[i] = g[i - 1] + w[s[i]] /\ \A j \in 0 .. i : g[j] <= g[i]
  BY DEF HasSum
<1>2. Len(s) \in 1 .. Len(s) /\ k \in 0 .. Len(s) /\ k - 1 \in 0 .. Len(s)
      /\ Len(s) \in 0 .. Len(s)
  OBVIOUS
<1>3. n \in Nat /\ g[k] \in Nat /\ g[k - 1] \in Nat
  BY <1>1, <1>2
<1>4. w[s[k]] \in Nat
  OBVIOUS
<1>5. g[k] <= n /\ g[k] = g[k - 1] + w[s[k]]
  BY <1>1, <1>2
<1> QED BY <1>3, <1>4, <1>5

\* After its first k values the list owes f[k] more, the value itself being owed
\* at first; the k-th has c[k] members.
Owing(f, c) ==
  /\ f \in [0 .. Len(c) -> Nat] /\ f[0] = 1
  /\ \A k \in 1 .. Len(c) : f[k - 1] > 0 /\ f[k] = f[k - 1] - 1 + c[k]

HasOwed(c, n) == \E f : Owing(f, c) /\ f[Len(c)] = n

\* Before there is any value, one is owed.
LEMMA OwedAtFirst == HasOwed(<< >>, 1)
<1> DEFINE f == [k \in 0 .. Len(<< >>) |-> 1]
<1>1. Len(<< >>) = 0
  OBVIOUS
<1>2. f \in [0 .. Len(<< >>) -> Nat] /\ f[0] = 1 /\ f[Len(<< >>)] = 1
  BY <1>1
<1> HIDE DEF f
<1> QED BY <1>1, <1>2 DEF HasOwed, Owing

\* A value pays for itself and owes its members.
LEMMA OwedPush ==
  ASSUME NEW c \in Seq(Nat), NEW n \in Nat \ {0}, HasOwed(c, n), NEW x \in Nat
  PROVE  HasOwed(Append(c, x), n - 1 + x)
<1>1. PICK f : Owing(f, c) /\ f[Len(c)] = n
  BY DEF HasOwed
<1> DEFINE m == Len(c)
           d == Append(c, x)
           h == [k \in 0 .. (m + 1) |-> IF k <= m THEN f[k] ELSE n - 1 + x]
<1>2. m \in Nat /\ Len(d) = m + 1 /\ d[m + 1] = x /\ \A k \in 1 .. m : d[k] = c[k]
  OBVIOUS
<1>3. /\ f \in [0 .. m -> Nat] /\ f[0] = 1 /\ f[m] = n
      /\ \A k \in 1 .. m : f[k - 1] > 0 /\ f[k] = f[k - 1] - 1 + c[k]
  BY <1>1 DEF Owing
<1> HIDE DEF m, d
<1>4. h \in [0 .. (m + 1) -> Nat] /\ h[m + 1] = n - 1 + x /\ \A k \in 0 .. m : h[k] = f[k]
  BY <1>2, <1>3
<1> HIDE DEF h
<1>5. h[0] = 1 /\ h[m] = n
  BY <1>2, <1>3, <1>4
<1>6. ASSUME NEW k \in 1 .. (m + 1)
      PROVE  h[k - 1] > 0 /\ h[k] = h[k - 1] - 1 + d[k]
  <2>1. CASE k \in 1 .. m
    <3>1. k - 1 \in 0 .. m /\ k \in 0 .. m
      BY <1>2, <2>1
    <3> QED BY <1>2, <1>3, <1>4, <2>1, <3>1
  <2>2. CASE k = m + 1
    BY <1>2, <1>4, <1>5, <2>2
  <2> QED BY <1>2, <2>1, <2>2
<1>7. Owing(h, d) /\ h[Len(d)] = n - 1 + x
  BY <1>2, <1>4, <1>5, <1>6 DEF Owing
<1> QED BY <1>7 DEF HasOwed, d
-------------------------------------------------------------------------------
(***************************************************************************)
(* The stack of get_entry_data_list.                                       *)
(***************************************************************************)
FrameType == [at : {"new", "members", "pointer"}, offset : Nat, element : Element,
              left : Nat, member : Element]

LeftOf == [f \in FrameType |-> f.left]

\* A call that waits, at level k, for members or a target; its elements are in I.
Waits(f, k, I) ==
  /\ f \in FrameType /\ f.at # "new" /\ k <= MaxDepth
  /\ f.element \in I /\ f.member \in I
  /\ f.at = "pointer" => f.left = 0

Settled(s, I) == s \in Seq(FrameType) /\ \A k \in 1 .. Len(s) : Waits(s[k], k, I)

\* A call that has just been made, for the element e handed out last.
IsNew(f, I, e) ==
  /\ f \in FrameType /\ f.at = "new" /\ f.left = 0
  /\ f.element \in I /\ f.element = e /\ f.member = e

\* All calls but the innermost wait.
StackOK(s, I, e) ==
  \/ s = << >>
  \/ \E u \in Seq(FrameType), t \in FrameType :
       /\ s = Append(u, t)
       /\ Settled(u, I)
       /\ Len(u) <= MaxDepth
       /\ Waits(t, Len(u) + 1, I) \/ IsNew(t, I, e)

\* A call more that waits.
LEMMA SettledPush ==
  ASSUME NEW I, NEW s, Settled(s, I), NEW f, Waits(f, Len(s) + 1, I)
  PROVE  Settled(Append(s, f), I) /\ Len(Append(s, f)) <= MaxDepth
<1>1. s \in Seq(FrameType) /\ f \in FrameType /\ Len(s) + 1 <= MaxDepth
  BY DEF Settled, Waits
<1> DEFINE t == Append(s, f)
<1>2. t \in Seq(FrameType) /\ Len(t) = Len(s) + 1 /\ t[Len(s) + 1] = f
      /\ \A k \in 1 .. Len(s) : t[k] = s[k]
  BY <1>1
<1> HIDE DEF t
<1>3. Len(s) \in Nat
  BY <1>1
<1>4. \A k \in 1 .. Len(t) : k \in 1 .. Len(s) \/ k = Len(s) + 1
  BY <1>2, <1>3
<1>5. \A k \in 1 .. Len(t) : Waits(t[k], k, I)
  BY <1>2, <1>4 DEF Settled
<1> QED BY <1>1, <1>2, <1>5 DEF Settled, t

\* Calls that all wait are a stack, whichever element was the last.
LEMMA SettledIsStack ==
  ASSUME NEW I, NEW s, Settled(s, I), NEW e
  PROVE  StackOK(s, I, e)
<1>1. s \in Seq(FrameType)
  BY DEF Settled
<1>2. CASE s # << >>
  <2> DEFINE u == Front(s)
             t == s[Len(s)]
  <2>1. u \in Seq(FrameType) /\ Len(u) = Len(s) - 1 /\ s = Append(u, t)
        /\ Len(s) \in 1 .. Len(s) /\ t \in FrameType
        /\ \A k \in 1 .. (Len(s) - 1) : u[k] = s[k]
    BY <1>1, <1>2, TopAndBelow
  <2>2. Waits(t, Len(s), I)
    BY <2>1 DEF Settled
  <2> HIDE DEF u, t
  <2>3. Len(s) \in Nat /\ MaxDepth \in Nat
    BY <1>1, SectionAssumption DEF MaxDepth
  <2>4. Len(u) + 1 = Len(s) /\ \A k \in 1 .. Len(u) : k \in 1 .. Len(s) /\ u[k] = s[k]
    BY <2>1, <2>3
  <2>5. Settled(u, I)
    BY <2>1, <2>4 DEF Settled
  <2>6. Len(u) <= MaxDepth
    BY <2>2, <2>3, <2>4 DEF Waits
  <2> QED BY <2>1, <2>2, <2>4, <2>5, <2>6 DEF StackOK
<1> QED BY <1>2 DEF StackOK

\* A new call on top of calls that wait.
LEMMA NewOnTop ==
  ASSUME NEW I, NEW s, Settled(s, I), Len(s) <= MaxDepth, NEW e, NEW f, IsNew(f, I, e)
  PROVE  StackOK(Append(s, f), I, e)
BY DEF StackOK, Settled, IsNew

\* More elements do not matter.
LEMMA SettledGrows ==
  ASSUME NEW I, NEW J, I \subseteq J, NEW s, Settled(s, I)
  PROVE  Settled(s, J)
BY DEF Settled, Waits
-------------------------------------------------------------------------------
(***************************************************************************)
(* Types, and who holds the pool.                                          *)
(***************************************************************************)
ListInv ==
  /\ stage \in {"idle", "alloc", "decode", "destroy"}
  /\ list_status \in Status /\ list \in Element \cup {NULL} /\ root \in Nat
  /\ items \in Seq(Element)
  /\ \A j, k \in 1 .. Len(items) : items[j] = items[k] => j = k
  /\ data \in [Range(items) -> EntryType]
  /\ StackOK(stack, Range(items), items[Len(items)])

OwnInv ==
  /\ open \in BOOLEAN
  /\ stage # "idle" => open /\ list = NULL /\ dump = "idle"
  /\ stage = "idle" => (open <=> list # NULL)
  /\ open /\ stage = "idle" => /\ list_status = "MMDB_SUCCESS"
                               /\ items # << >> /\ list = items[1] /\ links = ListOf(items)
  /\ ~open => items = << >> /\ dump = "idle"
  /\ stage # "decode" => stack = << >>
  /\ stage = "alloc" => items = << >>
  /\ stage = "decode" => items # << >>

\* The innermost call and those below it.
LEMMA Unstacked ==
  ASSUME ListInv, stack # << >>
  PROVE  \E s \in Seq(FrameType), t \in FrameType :
           /\ stack = Append(s, t) /\ Top = t /\ Front(stack) = s
           /\ Len(stack) = Len(s) + 1 /\ Len(s) \in Nat
           /\ \A f : Replaced(f) = Append(s, f)
           /\ Settled(s, Range(items)) /\ Len(s) <= MaxDepth
           /\ \/ Waits(t, Len(s) + 1, Range(items))
              \/ IsNew(t, Range(items), items[Len(items)])
           /\ t.element \in Range(items) /\ t.member \in Range(items)
<1>1. PICK s \in Seq(FrameType), t \in FrameType :
        /\ stack = Append(s, t)
        /\ Settled(s, Range(items)) /\ Len(s) <= MaxDepth
        /\ \/ Waits(t, Len(s) + 1, Range(items))
           \/ IsNew(t, Range(items), items[Len(items)])
  BY DEF ListInv, StackOK
<1>2. stack \in Seq(FrameType) /\ Len(stack) = Len(s) + 1 /\ Len(s) \in Nat
      /\ stack[Len(s) + 1] = t
  BY <1>1
<1>3. Top = t
  BY <1>2 DEF Top
<1>4. /\ Front(stack) \in Seq(FrameType) /\ stack = Append(Front(stack), Top)
      /\ \A f : Replaced(f) = Append(Front(stack), f)
  BY <1>2, TopAndBelow DEF Top, Replaced
<1>5. Front(stack) = s
  <2>1. \A a \in Seq(FrameType) : Append(a, t) = Append(s, t) => a = s
    BY <1>1, AppendInjective
  <2> QED BY <1>1, <1>3, <1>4, <2>1
<1>6. t.element \in Range(items) /\ t.member \in Range(items)
  BY <1>1 DEF Waits, IsNew
<1> QED BY <1>1, <1>2, <1>3, <1>4, <1>5, <1>6

\* What the innermost call decodes.
LEMMA FirstAndSecond ==
  ASSUME MemInv, ListInv, stack # << >>
  PROVE  /\ data[Top.element] \in EntryType /\ data[Top.member] \in EntryType
         /\ Top.offset \in Nat /\ Cursor \in Nat
         /\ First \in EntryType /\ Second \in EntryType
         /\ First.pointer \in Nat /\ First.offset_to_next \in Nat
         /\ Members(First) \in Nat
<1>1. PICK s \in Seq(FrameType), t \in FrameType :
        Top = t /\ t.element \in Range(items) /\ t.member \in Range(items)
  BY Unstacked
<1>2. data[Top.element] \in EntryType /\ data[Top.member] \in EntryType
  BY <1>1 DEF ListInv
<1>3. Top.offset \in Nat
  BY <1>1 DEF FrameType
<1>4. First \in EntryType
  BY <1>2, <1>3, DecodedEntry DEF First
<1>5. First.pointer \in Nat /\ First.offset_to_next \in Nat /\ First.data_size \in Nat
  BY <1>4, EntryFields
<1>6. Second \in EntryType
  BY <1>4, <1>5, DecodedEntry DEF Second
<1>7. Members(First) \in Nat
  BY <1>5 DEF Members
<1>8. Cursor \in Nat
  BY <1>2, EntryFields DEF Cursor
<1> QED BY <1>2, <1>3, <1>4, <1>5, <1>6, <1>7, <1>8

\* A step of the recursion that allocates nothing.
LEMMA StepHolds ==
  ASSUME ListInv, OwnInv, stage = "decode", stack # << >>, NEW e \in EntryType, NEW s,
         StackOK(s, Range(items), items[Len(items)]), Step(e, s), UNCHANGED dump
  PROVE  /\ ListInv' /\ OwnInv'
         /\ items' = items /\ stack' = s /\ stage' = "decode" /\ root' = root
         /\ Top.element \in DOMAIN data /\ data' = [data EXCEPT ![Top.element] = e]
<1>1. /\ data' = [data EXCEPT ![Top.element] = e] /\ stack' = s
      /\ UNCHANGED <<stage, root, list, list_status, open, items, links>>
  BY DEF Step, arenaVars
<1>2. Top.element \in Range(items)
  BY Unstacked
<1>3. data \in [Range(items) -> EntryType]
  BY DEF ListInv
<1>4. data' \in [Range(items) -> EntryType] /\ Top.element \in DOMAIN data
  BY <1>1, <1>2, <1>3
<1>5. ListInv'
  BY <1>1, <1>4 DEF ListInv
<1>6. OwnInv'
  BY <1>1 DEF OwnInv
<1> QED BY <1>1, <1>4, <1>5, <1>6

\* A failure that unwinds the recursion.
LEMMA AbortHolds ==
  ASSUME ListInv, OwnInv, stage \in {"alloc", "decode"}, NEW status \in Status, Abort(status),
         UNCHANGED <<open, items, links, dump>>
  PROVE  ListInv' /\ OwnInv'
<1>1. /\ stage' = "destroy" /\ list_status' = status /\ stack' = << >>
      /\ UNCHANGED <<data, root, list>>
  BY DEF Abort
<1>2. ListInv'
  BY <1>1 DEF ListInv, StackOK
<1>3. OwnInv'
  BY <1>1 DEF OwnInv
<1> QED BY <1>2, <1>3

\* What handing out an element for the value at o changes.
LEMMA AllocFacts ==
  ASSUME ListInv, NEW frames, NEW o, Alloc(frames, o)
  PROVE  \E a \in Element :
           /\ a = answer' /\ a \notin Range(items)
           /\ items' = Append(items, a) /\ Range(Append(items, a)) = Range(items) \cup {a}
           /\ data' \in [Range(items) \cup {a} -> EntryType]
           /\ \A e \in Range(items) : data'[e] = data[e]
           /\ stack' = Append(frames, Frame(o, a))
           /\ stage' = "decode" /\ root' = root
<1>1. /\ answer' \in Element
      /\ \A k \in 1 .. Len(items) : items[k] # answer'
      /\ items' = Append(items, answer')
      /\ data' = [e \in DOMAIN data \cup {answer'} |->
                    IF e = answer' THEN EmptyEntry ELSE data[e]]
      /\ stack' = Append(frames, Frame(o, answer'))
      /\ stage' = "decode" /\ root' = root
  BY DEF Alloc, HandOut
<1>2. PICK a \in Element : a = answer'
  BY <1>1
<1> DEFINE its == Append(items, a)
           n == Len(items)
<1>3. items \in Seq(Element) /\ n \in Nat /\ DOMAIN items = 1 .. n
  BY DEF ListInv
<1>4. its \in Seq(Element) /\ Len(its) = n + 1 /\ its[n + 1] = a /\ DOMAIN its = 1 .. (n + 1)
      /\ \A k \in 1 .. n : its[k] = items[k]
  BY <1>3
<1>5. items' = its
  BY <1>1, <1>2
<1> HIDE DEF its, n
<1>6. Range(its) = Range(items) \cup {a}
  <2>1. \A k \in 1 .. (n + 1) : k \in 1 .. n \/ k = n + 1
    BY <1>3
  <2>2. \A k \in 1 .. n : k \in 1 .. (n + 1)
    BY <1>3
  <2>3. n + 1 \in 1 .. (n + 1)
    BY <1>3
  <2>4. Range(its) \subseteq Range(items) \cup {a}
    BY <1>3, <1>4, <2>1 DEF Range
  <2>5. Range(items) \cup {a} \subseteq Range(its)
    BY <1>3, <1>4, <2>2, <2>3 DEF Range
  <2> QED BY <2>4, <2>5
<1>7. a \notin Range(items)
  BY <1>1, <1>2, <1>3 DEF Range, n
<1>8. data' \in [Range(items) \cup {a} -> EntryType] /\ \A e \in Range(items) : data'[e] = data[e]
  <2>1. data \in [Range(items) -> EntryType]
    BY DEF ListInv
  <2> QED BY <1>1, <1>2, <1>7, <2>1, EmptyIsEntry
<1> QED BY <1>1, <1>2, <1>5, <1>6, <1>7, <1>8 DEF its

\* An element that is handed out for the value at o.
LEMMA AllocHolds ==
  ASSUME ListInv, OwnInv, stage \in {"alloc", "decode"}, NEW frames, NEW o \in Nat,
         Settled(frames, Range(items) \cup {answer'}), Len(frames) <= MaxDepth,
         Alloc(frames, o), UNCHANGED dump
  PROVE  /\ ListInv' /\ OwnInv'
         /\ stage' = "decode" /\ root' = root /\ answer' \in Element
         /\ items' = Append(items, answer') /\ Range(items') = Range(items) \cup {answer'}
         /\ answer' \notin Range(items)
         /\ \A e \in Range(items) : data'[e] = data[e]
         /\ stack' = Append(frames, Frame(o, answer')) /\ Frame(o, answer') \in FrameType
<1>1. open /\ UNCHANGED <<open, links>> /\ UNCHANGED <<root, list, list_status>>
  BY DEF Alloc, HandOut
<1>2. PICK a \in Element :
        /\ a = answer' /\ a \notin Range(items)
        /\ items' = Append(items, a) /\ Range(Append(items, a)) = Range(items) \cup {a}
        /\ data' \in [Range(items) \cup {a} -> EntryType]
        /\ \A e \in Range(items) : data'[e] = data[e]
        /\ stack' = Append(frames, Frame(o, a))
        /\ stage' = "decode" /\ root' = root
  BY AllocFacts
<1> DEFINE its == Append(items, a)
           n == Len(items)
<1>3. items \in Seq(Element) /\ n \in Nat /\ DOMAIN items = 1 .. n
  BY DEF ListInv
<1>4. its \in Seq(Element) /\ Len(its) = n + 1 /\ its[n + 1] = a /\ DOMAIN its = 1 .. (n + 1)
      /\ \A k \in 1 .. n : its[k] = items[k]
  BY <1>3
<1>5. items' = its /\ Range(its) = Range(items) \cup {a}
  BY <1>2
<1> HIDE DEF its, n
<1>6. \A j, k \in 1 .. Len(its) : its[j] = its[k] => j = k
  <2>1. \A k \in 1 .. Len(its) : k \in 1 .. n \/ k = n + 1
    BY <1>3, <1>4
  <2>2. \A k \in 1 .. n : its[k] # a
    BY <1>2, <1>3, <1>4 DEF Range
  <2>3. \A j, k \in 1 .. n : its[j] = its[k] => j = k
    BY <1>4 DEF ListInv, n
  <2> QED BY <1>4, <2>1, <2>2, <2>3
<1>7. data' \in [Range(its) -> EntryType]
  BY <1>2, <1>5
<1>8. IsNew(Frame(o, a), Range(its), its[Len(its)]) /\ Frame(o, a) \in FrameType
  BY <1>4, <1>5 DEF IsNew, Frame, FrameType
<1>9. StackOK(Append(frames, Frame(o, a)), Range(its), its[Len(its)])
  BY <1>2, <1>5, <1>8, NewOnTop
<1>10. ListInv'
  BY <1>1, <1>2, <1>4, <1>5, <1>6, <1>7, <1>9 DEF ListInv
<1>11. items' # << >>
  BY <1>3, <1>4, <1>5
<1>12. OwnInv'
  BY <1>1, <1>2, <1>11 DEF OwnInv
<1> QED BY <1>2, <1>5, <1>8, <1>10, <1>12
-------------------------------------------------------------------------------
(***************************************************************************)
(* While the list is made, what the values decoded so far owe is what the  *)
(* calls on the stack still have to do.                                    *)
(***************************************************************************)
\* The members a value brings with it.
Owes(e) == IF e.type \in Compound THEN Members(e) ELSE 0

CountsAre(c, its, d) == c \in Seq(Nat) /\ \A k \in 1 .. Len(c) : c[k] = Owes(d[its[k]])

\* The element handed out last is not decoded yet.
PendingIn(s) == IF s # << >> /\ s[Len(s)].at = "new" THEN 1 ELSE 0

OwedInv ==
  stage = "decode" =>
    \E c \in Seq(Nat), n \in Nat :
      /\ Len(c) + PendingIn(stack) = Len(items)
      /\ CountsAre(c, items, data)
      /\ HasOwed(c, n + PendingIn(stack)) /\ HasSum(LeftOf, stack, n)

\* What a frame has left is a number.
LEMMA LeftOfType ==
  LeftOf \in [FrameType -> Nat] /\ \A f \in FrameType : LeftOf[f] = f.left /\ f.left \in Nat
BY DEF LeftOf, FrameType

\* A frame that has nothing left does not count.
LEMMA IdleFrame ==
  ASSUME NEW s \in Seq(FrameType), NEW f \in FrameType, f.left = 0, NEW n \in Nat
  PROVE  HasSum(LeftOf, Append(s, f), n) <=> HasSum(LeftOf, s, n)
<1>1. LeftOf[f] = 0 /\ LeftOf \in [FrameType -> Nat] /\ n + 0 = n /\ n - 0 = n
  BY LeftOfType
<1>2. ASSUME HasSum(LeftOf, Append(s, f), n) PROVE HasSum(LeftOf, s, n)
  <2>1. HasSum(LeftOf, s, n - LeftOf[f])
    BY <1>1, <1>2, SumPop
  <2> QED BY <1>1, <2>1
<1>3. ASSUME HasSum(LeftOf, s, n) PROVE HasSum(LeftOf, Append(s, f), n)
  <2>1. HasSum(LeftOf, Append(s, f), n + LeftOf[f])
    BY <1>1, <1>3, SumPush
  <2> QED BY <1>1, <2>1
<1> QED BY <1>2, <1>3

\* Whether an element is pending depends on the innermost call alone.
LEMMA PendingOfTop ==
  ASSUME NEW s \in Seq(FrameType), NEW f \in FrameType
  PROVE  PendingIn(Append(s, f)) = IF f.at = "new" THEN 1 ELSE 0
<1> DEFINE t == Append(s, f)
<1>1. t # << >> /\ t[Len(t)] = f
  OBVIOUS
<1> HIDE DEF t
<1>2. PendingIn(t) = IF f.at = "new" THEN 1 ELSE 0
  BY <1>1 DEF PendingIn
<1> QED BY <1>2 DEF t

\* Among calls that wait it is not.
LEMMA PendingOfSettled ==
  ASSUME NEW s, NEW I, Settled(s, I)
  PROVE  PendingIn(s) = 0
<1>1. CASE s # << >>
  <2>1. Len(s) \in 1 .. Len(s)
    BY <1>1 DEF Settled
  <2>2. s[Len(s)].at # "new"
    BY <2>1 DEF Settled, Waits
  <2> QED BY <2>2 DEF PendingIn
<1> QED BY <1>1 DEF PendingIn

\* What the new call's element does not disturb: the elements before it.
LEMMA EarlierElements ==
  ASSUME ListInv, NEW c \in Seq(Nat), Len(c) + 1 = Len(items), CountsAre(c, items, data),
         NEW e, NEW d, d = [data EXCEPT ![items[Len(items)]] = e]
  PROVE  CountsAre(c, items, d)
<1>1. \A k \in 1 .. Len(c) : /\ k \in 1 .. Len(items) /\ Len(items) \in 1 .. Len(items)
                             /\ k # Len(items)
  OBVIOUS
<1>2. \A k \in 1 .. Len(c) : items[k] # items[Len(items)] /\ items[k] \in Range(items)
  <2>1. /\ items \in Seq(Element) /\ DOMAIN items = 1 .. Len(items)
        /\ \A j, k \in 1 .. Len(items) : items[j] = items[k] => j = k
    BY DEF ListInv
  <2>2. \A k \in 1 .. Len(c) : items[k] # items[Len(items)]
    BY <1>1, <2>1
  <2>3. \A k \in 1 .. Len(items) : items[k] \in Range(items)
    BY <2>1 DEF Range
  <2> QED BY <1>1, <2>2, <2>3
<1>3. data \in [Range(items) -> EntryType]
  BY DEF ListInv
<1>4. \A k \in 1 .. Len(c) : d[items[k]] = data[items[k]]
  BY <1>2, <1>3
<1> QED BY <1>4 DEF CountsAre

\* The new call's value is decoded: its members are owed instead of itself.
LEMMA NewIsDecoded ==
  ASSUME ListInv, OwnInv, OwedInv, stage = "decode", NEW s, NEW t \in FrameType,
         stack = Append(s, t), Settled(s, Range(items)),
         IsNew(t, Range(items), items[Len(items)]),
         NEW e \in EntryType, Owes(e) \in Nat,
         data' = [data EXCEPT ![t.element] = e], items' = items,
         \/ stack' = s /\ Owes(e) = 0
         \/ \E f \in FrameType : /\ stack' = Append(s, f) /\ f.at = "members"
                                 /\ f.left = Owes(e)
  PROVE  OwedInv'
<1> DEFINE x == Owes(e)
<1>1. s \in Seq(FrameType) /\ items \in Seq(Element)
  BY DEF Settled, ListInv
<1>2. PendingIn(stack) = 1 /\ t.left = 0 /\ t.element = items[Len(items)]
      /\ t.element \in Range(items)
  BY <1>1, PendingOfTop DEF IsNew
<1>3. PICK c \in Seq(Nat), n \in Nat :
        /\ Len(c) + 1 = Len(items) /\ CountsAre(c, items, data)
        /\ HasOwed(c, n + 1) /\ HasSum(LeftOf, stack, n)
  BY <1>2 DEF OwedInv
<1>4. HasSum(LeftOf, s, n)
  BY <1>1, <1>2, <1>3, IdleFrame
<1>5. PendingIn(stack') = 0 /\ HasSum(LeftOf, stack', n + x)
  <2>1. CASE stack' = s /\ Owes(e) = 0
    BY <1>4, <2>1, PendingOfSettled
  <2>2. CASE \E f \in FrameType : /\ stack' = Append(s, f) /\ f.at = "members"
                                  /\ f.left = Owes(e)
    BY <1>1, <1>4, <2>2, LeftOfType, PendingOfTop, SumPush
  <2> QED BY <2>1, <2>2
<1>6. HasOwed(Append(c, x), n + x)
  <2>1. HasOwed(Append(c, x), (n + 1) - 1 + x)
    BY <1>3, OwedPush
  <2>2. (n + 1) - 1 + x = n + x
    OBVIOUS
  <2> QED BY <2>1, <2>2
<1>7. CountsAre(c, items, data')
  BY <1>2, <1>3, EarlierElements
<1>8. data'[items[Len(items)]] = e
  BY <1>2 DEF ListInv
<1> DEFINE b == Append(c, x)
<1>9. b \in Seq(Nat) /\ Len(b) = Len(c) + 1 /\ b[Len(c) + 1] = x
      /\ \A k \in 1 .. Len(c) : b[k] = c[k]
  OBVIOUS
<1>10. HasOwed(b, n + x)
  BY <1>6
<1> HIDE DEF x, b
<1>11. \A k \in 1 .. Len(b) : k \in 1 .. Len(c) \/ k = Len(items)
  BY <1>3, <1>9
<1>12. CountsAre(b, items, data')
  BY <1>3, <1>7, <1>8, <1>9, <1>11 DEF CountsAre, x
<1>13. Len(b) + 0 = Len(items) /\ n + x \in Nat /\ (n + x) + 0 = n + x
  BY <1>3, <1>9 DEF x
<1> QED BY <1>5, <1>9, <1>10, <1>12, <1>13 DEF OwedInv

\* It is a pointer to a map or array: the element is still to be decoded.
LEMMA NewIsPointer ==
  ASSUME ListInv, OwnInv, OwedInv, stage = "decode", NEW s, NEW t \in FrameType,
         stack = Append(s, t), Settled(s, Range(items)),
         IsNew(t, Range(items), items[Len(items)]), NEW e \in EntryType,
         data' = [data EXCEPT ![t.element] = e], items' = items,
         NEW f \in FrameType, f.left = 0, NEW g \in FrameType, g.left = 0, g.at = "new",
         stack' = Append(Append(s, f), g)
  PROVE  OwedInv'
<1>1. s \in Seq(FrameType) /\ Append(s, f) \in Seq(FrameType)
  BY DEF Settled
<1>2. PendingIn(stack) = 1 /\ PendingIn(stack') = 1
      /\ t.left = 0 /\ t.element = items[Len(items)]
  BY <1>1, PendingOfTop DEF IsNew
<1>3. PICK c \in Seq(Nat), n \in Nat :
        /\ Len(c) + 1 = Len(items) /\ CountsAre(c, items, data)
        /\ HasOwed(c, n + 1) /\ HasSum(LeftOf, stack, n)
  BY <1>2 DEF OwedInv
<1>4. HasSum(LeftOf, s, n)
  BY <1>1, <1>2, <1>3, IdleFrame
<1>5. HasSum(LeftOf, Append(s, f), n)
  BY <1>1, <1>4, IdleFrame
<1>6. HasSum(LeftOf, stack', n)
  BY <1>1, <1>5, IdleFrame
<1>7. CountsAre(c, items, data')
  BY <1>2, <1>3, EarlierElements
<1> QED BY <1>2, <1>3, <1>6, <1>7 DEF OwedInv

\* A call that waits returns: only the end of its value changes.
LEMMA WaitingReturns ==
  ASSUME ListInv, OwedInv, stage = "decode", NEW s, NEW t \in FrameType,
         stack = Append(s, t), Settled(s, Range(items)), t.at # "new", t.left = 0,
         t.element \in Range(items), NEW m,
         data' = [data EXCEPT ![t.element] = [data[t.element] EXCEPT !.offset_to_next = m]],
         items' = items, stack' = s
  PROVE  OwedInv'
<1>1. s \in Seq(FrameType)
  BY DEF Settled
<1>2. PendingIn(stack) = 0 /\ PendingIn(stack') = 0
  BY <1>1, PendingOfTop, PendingOfSettled
<1>3. PICK c \in Seq(Nat), n \in Nat :
        /\ Len(c) + 0 = Len(items) /\ CountsAre(c, items, data)
        /\ HasOwed(c, n + 0) /\ HasSum(LeftOf, stack, n)
  BY <1>2 DEF OwedInv
<1>4. HasSum(LeftOf, stack', n)
  BY <1>1, <1>3, IdleFrame
<1>5. data \in [Range(items) -> EntryType]
  BY DEF ListInv
<1>6. \A i \in Range(items) : Owes(data'[i]) = Owes(data[i])
  <2>1. TAKE i \in Range(items)
  <2>2. data[i] \in EntryType
    BY <1>5
  <2>3. CASE i = t.element
    <3>1. data'[i] = [data[i] EXCEPT !.offset_to_next = m]
      BY <1>5, <2>3
    <3>2. data'[i].type = data[i].type /\ data'[i].data_size = data[i].data_size
      BY <2>2, <3>1 DEF EntryType
    <3> QED BY <3>2 DEF Owes, Members
  <2>4. CASE i # t.element
    BY <1>5, <2>4
  <2> QED BY <2>3, <2>4
<1>7. \A k \in 1 .. Len(c) : items[k] \in Range(items)
  BY <1>3 DEF ListInv, Range
<1>8. CountsAre(c, items, data')
  BY <1>3, <1>6, <1>7 DEF CountsAre
<1> QED BY <1>2, <1>3, <1>4, <1>8 DEF OwedInv

\* A member is taken from what a call has left, and is pending.
LEMMA MemberIsTaken ==
  ASSUME ListInv, OwedInv, stage = "decode", NEW s, NEW t \in FrameType,
         stack = Append(s, t), Settled(s, Range(items)), t.at # "new", t.left > 0,
         NEW a \in Element, items' = Append(items, a),
         \A e \in Range(items) : data'[e] = data[e],
         NEW f \in FrameType, f.left = t.left - 1, NEW g \in FrameType, g.left = 0,
         g.at = "new", stack' = Append(Append(s, f), g)
  PROVE  OwedInv'
<1>1. s \in Seq(FrameType) /\ Append(s, f) \in Seq(FrameType)
  BY DEF Settled
<1>2. PendingIn(stack) = 0 /\ PendingIn(stack') = 1
  BY <1>1, PendingOfTop
<1>3. PICK c \in Seq(Nat), n \in Nat :
        /\ Len(c) + 0 = Len(items) /\ CountsAre(c, items, data)
        /\ HasOwed(c, n + 0) /\ HasSum(LeftOf, stack, n)
  BY <1>2 DEF OwedInv
<1>4. t.left \in Nat /\ f.left \in Nat /\ LeftOf[t] = t.left /\ LeftOf[f] = f.left
      /\ LeftOf[g] = 0 /\ LeftOf \in [FrameType -> Nat]
  BY LeftOfType
<1>5. n - t.left \in Nat /\ HasSum(LeftOf, s, n - t.left)
  <2>1. n \in Nat /\ LeftOf[t] <= n /\ HasSum(LeftOf, s, n - LeftOf[t])
    BY <1>1, <1>3, <1>4, SumPop
  <2> QED BY <1>4, <2>1
<1>6. HasSum(LeftOf, Append(s, f), (n - t.left) + LeftOf[f])
  BY <1>1, <1>4, <1>5, SumPush
<1>7. (n - t.left) + LeftOf[f] = n - 1 /\ n - 1 \in Nat /\ (n - 1) + 1 = n + 0
      /\ (n - 1) + LeftOf[g] = n - 1
  BY <1>4, <1>5
<1>8. HasSum(LeftOf, stack', (n - 1) + LeftOf[g])
  BY <1>1, <1>4, <1>6, <1>7, SumPush
<1>9. /\ Len(items') = Len(items) + 1 /\ items \in Seq(Element) /\ Len(items) \in Nat
      /\ \A k \in 1 .. Len(items) : items'[k] = items[k] /\ items[k] \in Range(items)
  BY DEF ListInv, Range
<1>10. Len(c) + 1 = Len(items') /\ \A k \in 1 .. Len(c) : k \in 1 .. Len(items)
  BY <1>3, <1>9
<1>11. CountsAre(c, items', data')
  BY <1>3, <1>9, <1>10 DEF CountsAre
<1> QED BY <1>2, <1>3, <1>7, <1>8, <1>10, <1>11 DEF OwedInv
-------------------------------------------------------------------------------
(***************************************************************************)
(* The steps of MMDB_get_entry_data_list, one by one.                      *)
(***************************************************************************)
MakeInv == MemInv /\ ListInv /\ OwnInv /\ OwedInv

\* The frames under a new call, which it does not change.
LEMMA NewCall ==
  ASSUME MakeInv, New
  PROVE  \E s \in Seq(FrameType), t \in FrameType :
           /\ stack = Append(s, t) /\ Top = t /\ Front(stack) = s
           /\ \A f : Replaced(f) = Append(s, f)
           /\ Settled(s, Range(items)) /\ Len(s) <= MaxDepth
           /\ IsNew(t, Range(items), items[Len(items)])
           /\ ~Rejected => Len(s) + 1 <= MaxDepth
<1>1. stack # << >> /\ Top.at = "new"
  BY DEF New
<1>2. PICK s \in Seq(FrameType), t \in FrameType :
        /\ stack = Append(s, t) /\ Top = t /\ Front(stack) = s
        /\ Len(stack) = Len(s) + 1 /\ Len(s) \in Nat
        /\ \A f : Replaced(f) = Append(s, f)
        /\ Settled(s, Range(items)) /\ Len(s) <= MaxDepth
        /\ \/ Waits(t, Len(s) + 1, Range(items))
           \/ IsNew(t, Range(items), items[Len(items)])
  BY <1>1, Unstacked DEF MakeInv
<1>3. IsNew(t, Range(items), items[Len(items)])
  BY <1>1, <1>2 DEF Waits
<1>4. ~Rejected => Len(s) + 1 <= MaxDepth
  <2>1. ~Rejected => ~(Len(s) + 1 - 1 >= MAXIMUM_DATA_STRUCTURE_DEPTH)
    BY <1>2 DEF Rejected, depth
  <2> QED BY <1>2, <2>1, SectionAssumption DEF MaxDepth
<1> QED BY <1>2, <1>3, <1>4

\* The values that have no members.
LEMMA SimpleHolds ==
  ASSUME MakeInv, SimpleValue \/ PointerToSimple, UNCHANGED <<memoryVars, dump>>
  PROVE  MakeInv'
<1>1. New /\ ~Rejected
  BY DEF SimpleValue, PointerToSimple
<1>2. PICK s \in Seq(FrameType), t \in FrameType :
        /\ stack = Append(s, t) /\ Top = t /\ Front(stack) = s
        /\ Settled(s, Range(items)) /\ IsNew(t, Range(items), items[Len(items)])
  BY <1>1, NewCall
<1>3. stage = "decode" /\ stack # << >>
  BY <1>1 DEF New
<1>4. First \in EntryType /\ Second \in EntryType /\ First.offset_to_next \in Nat
  BY <1>3, FirstAndSecond DEF MakeInv
<1> DEFINE third == [Second EXCEPT !.offset_to_next = First.offset_to_next]
<1>5. third \in EntryType /\ third.type = Second.type
  <2>1. third \in EntryType
    BY <1>4, EntryFields
  <2>2. third.type = Second.type
    BY <1>4 DEF EntryType
  <2> QED BY <2>1, <2>2
<1>6. SimpleValue => Step(First, s) /\ First.type \notin Compound
  BY <1>2 DEF SimpleValue
<1>7. PointerToSimple => Step(third, s) /\ Second.type \notin Compound
  BY <1>2 DEF PointerToSimple
<1> HIDE DEF third
<1>8. PICK e \in EntryType : Step(e, s) /\ e.type \notin Compound
  <2>1. CASE SimpleValue
    BY <1>4, <1>6, <2>1
  <2>2. CASE PointerToSimple
    BY <1>5, <1>7, <2>2
  <2> QED BY <2>1, <2>2
<1>9. StackOK(s, Range(items), items[Len(items)])
  BY <1>2, SettledIsStack
<1>10. /\ ListInv' /\ OwnInv' /\ items' = items /\ stack' = s
       /\ data' = [data EXCEPT ![t.element] = e]
  BY <1>2, <1>3, <1>8, <1>9, StepHolds DEF MakeInv
<1>11. Owes(e) = 0 /\ Owes(e) \in Nat
  BY <1>8 DEF Owes
<1>12. \/ stack' = s /\ Owes(e) = 0
       \/ \E f \in FrameType : stack' = Append(s, f) /\ f.at = "members" /\ f.left = Owes(e)
  BY <1>10, <1>11
<1>13. ListInv /\ OwnInv /\ OwedInv
  BY DEF MakeInv
<1>14. OwedInv'
  BY <1>2, <1>3, <1>10, <1>11, <1>12, <1>13, NewIsDecoded
<1> QED BY <1>10, <1>14 DEF MakeInv, MemInv, memoryVars

\* A map or array.
LEMMA CompoundHolds ==
  ASSUME MakeInv, CompoundValue, UNCHANGED <<memoryVars, dump>>
  PROVE  MakeInv'
<1>1. New /\ ~Rejected /\ First.type \in Compound
  BY DEF CompoundValue
<1>2. PICK s \in Seq(FrameType), t \in FrameType :
        /\ stack = Append(s, t) /\ Top = t
        /\ \A f : Replaced(f) = Append(s, f)
        /\ Settled(s, Range(items)) /\ IsNew(t, Range(items), items[Len(items)])
        /\ Len(s) + 1 <= MaxDepth
  BY <1>1, NewCall
<1>3. stage = "decode" /\ stack # << >>
  BY <1>1 DEF New
<1>4. First \in EntryType /\ Members(First) \in Nat
  BY <1>3, FirstAndSecond DEF MakeInv
<1> DEFINE f == [t EXCEPT !.at = "members", !.left = Members(First)]
<1>5. f \in FrameType /\ f.at = "members" /\ f.left = Members(First)
      /\ f.element = t.element /\ f.member = t.member
  BY <1>4 DEF FrameType
<1>6. Step(First, Append(s, f))
  BY <1>2 DEF CompoundValue
<1> HIDE DEF f
<1>7. Waits(f, Len(s) + 1, Range(items))
  BY <1>2, <1>5 DEF Waits, IsNew
<1>8. StackOK(Append(s, f), Range(items), items[Len(items)])
  BY <1>2, <1>7, SettledPush, SettledIsStack
<1>9. /\ ListInv' /\ OwnInv' /\ items' = items /\ stack' = Append(s, f)
      /\ data' = [data EXCEPT ![t.element] = First]
  BY <1>2, <1>3, <1>4, <1>6, <1>8, StepHolds DEF MakeInv
<1>10. Owes(First) = Members(First)
  BY <1>1 DEF Owes
<1>11. OwedInv'
  BY <1>2, <1>3, <1>4, <1>5, <1>9, <1>10, NewIsDecoded DEF MakeInv
<1> QED BY <1>9, <1>11 DEF MakeInv, MemInv, memoryVars

\* A pointer to one.
LEMMA PointerHolds ==
  ASSUME MakeInv, PointerToCompound, UNCHANGED <<memoryVars, dump>>
  PROVE  MakeInv'
<1>1. New /\ ~Rejected
  BY DEF PointerToCompound
<1>2. PICK s \in Seq(FrameType), t \in FrameType :
        /\ stack = Append(s, t) /\ Top = t
        /\ \A f : Replaced(f) = Append(s, f)
        /\ Settled(s, Range(items)) /\ IsNew(t, Range(items), items[Len(items)])
        /\ Len(s) + 1 <= MaxDepth
  BY <1>1, NewCall
<1>3. stage = "decode" /\ stack # << >>
  BY <1>1 DEF New
<1>4. Second \in EntryType /\ First.pointer \in Nat /\ First.offset_to_next \in Nat
  BY <1>3, FirstAndSecond DEF MakeInv
<1> DEFINE f == [t EXCEPT !.at = "pointer", !.offset = First.offset_to_next]
           g == Frame(First.pointer, t.element)
<1>5. f \in FrameType /\ f.at = "pointer" /\ f.left = t.left
      /\ f.element = t.element /\ f.member = t.member
  BY <1>4 DEF FrameType
<1>6. g \in FrameType /\ g.at = "new" /\ g.left = 0
      /\ g.element = t.element /\ g.member = t.element
  BY <1>4 DEF Frame, FrameType
<1>7. Step(Second, Append(Append(s, f), g))
  BY <1>2 DEF PointerToCompound
<1> HIDE DEF f, g
<1>8. Waits(f, Len(s) + 1, Range(items)) /\ IsNew(g, Range(items), items[Len(items)])
  BY <1>2, <1>5, <1>6 DEF Waits, IsNew
<1>9. Settled(Append(s, f), Range(items)) /\ Len(Append(s, f)) <= MaxDepth
  BY <1>2, <1>8, SettledPush
<1>10. StackOK(Append(Append(s, f), g), Range(items), items[Len(items)])
  BY <1>8, <1>9, NewOnTop
<1>11. /\ ListInv' /\ OwnInv' /\ items' = items /\ stack' = Append(Append(s, f), g)
       /\ data' = [data EXCEPT ![t.element] = Second]
  BY <1>2, <1>3, <1>4, <1>7, <1>10, StepHolds DEF MakeInv
<1>12. f.left = 0
  BY <1>2, <1>5 DEF IsNew
<1>13. OwedInv'
  BY <1>2, <1>3, <1>4, <1>5, <1>6, <1>11, <1>12, NewIsPointer DEF MakeInv
<1> QED BY <1>11, <1>13 DEF MakeInv, MemInv, memoryVars

\* The members are all there, or the target is.
LEMMA ReturnHolds ==
  ASSUME MakeInv, PointerReturns \/ MembersReturn, UNCHANGED <<memoryVars, dump>>
  PROVE  MakeInv'
<1>1. stage = "decode" /\ stack # << >>
      /\ (Top.at = "pointer" \/ (Top.at = "members" /\ Top.left = 0))
  BY DEF PointerReturns, MembersReturn
<1>2. PICK s \in Seq(FrameType), t \in FrameType :
        /\ stack = Append(s, t) /\ Top = t /\ Front(stack) = s
        /\ Settled(s, Range(items))
        /\ \/ Waits(t, Len(s) + 1, Range(items))
           \/ IsNew(t, Range(items), items[Len(items)])
        /\ t.element \in Range(items)
  BY <1>1, Unstacked DEF MakeInv
<1>3. t.at # "new" /\ t.left = 0
  BY <1>1, <1>2 DEF Waits, IsNew
<1>4. data[t.element] \in EntryType /\ t.offset \in Nat /\ Cursor \in Nat
  BY <1>1, <1>2, FirstAndSecond DEF MakeInv
<1>5. PICK m \in Nat : Step([data[t.element] EXCEPT !.offset_to_next = m], s)
  BY <1>2, <1>4 DEF PointerReturns, MembersReturn
<1>6. [data[t.element] EXCEPT !.offset_to_next = m] \in EntryType
  BY <1>4, EntryFields
<1>7. StackOK(s, Range(items), items[Len(items)])
  BY <1>2, SettledIsStack
<1> DEFINE e == [data[t.element] EXCEPT !.offset_to_next = m]
<1>8. e \in EntryType /\ Step(e, s)
  BY <1>5, <1>6
<1> HIDE DEF e
<1>9. /\ ListInv' /\ OwnInv' /\ items' = items /\ stack' = s
      /\ data' = [data EXCEPT ![t.element] = e]
  BY <1>1, <1>2, <1>7, <1>8, StepHolds DEF MakeInv
<1>10. OwedInv'
  BY <1>1, <1>2, <1>3, <1>9, WaitingReturns DEF MakeInv, e
<1> QED BY <1>9, <1>10 DEF MakeInv, MemInv, memoryVars

\* The next member of a map or array.
LEMMA NextMemberHolds ==
  ASSUME MakeInv, stage = "decode", stack # << >>, Top.at = "members", Top.left > 0,
         Alloc(Replaced([Top EXCEPT !.left = @ - 1, !.member = answer']), Cursor),
         UNCHANGED <<memoryVars, dump>>
  PROVE  MakeInv'
<1>1. PICK s \in Seq(FrameType), t \in FrameType :
        /\ stack = Append(s, t) /\ Top = t
        /\ \A f : Replaced(f) = Append(s, f)
        /\ Settled(s, Range(items))
        /\ \/ Waits(t, Len(s) + 1, Range(items))
           \/ IsNew(t, Range(items), items[Len(items)])
  BY Unstacked DEF MakeInv
<1>2. t.at = "members" /\ t.left > 0 /\ Waits(t, Len(s) + 1, Range(items))
  BY <1>1 DEF IsNew
<1>3. answer' \in Element
  BY DEF Alloc, HandOut
<1>4. PICK a \in Element : a = answer'
  BY <1>3
<1> DEFINE f == [t EXCEPT !.left = @ - 1, !.member = a]
<1>5. f \in FrameType /\ f.at = "members" /\ f.left = t.left - 1
      /\ f.element = t.element /\ f.member = a
  <2>1. t.left \in Nat
    BY DEF FrameType
  <2>2. PICK n \in Nat : n = t.left - 1
    BY <1>2, <2>1
  <2>3. f = [t EXCEPT !.left = n, !.member = a]
    BY <2>2
  <2> HIDE DEF f
  <2> QED BY <1>2, <2>2, <2>3 DEF FrameType
<1>6. Alloc(Append(s, f), Cursor)
  BY <1>1, <1>4
<1> HIDE DEF f
<1>7. Waits(f, Len(s) + 1, Range(items) \cup {a})
  BY <1>2, <1>5 DEF Waits
<1>8. Settled(s, Range(items) \cup {a})
  BY <1>1, SettledGrows
<1>9. Settled(Append(s, f), Range(items) \cup {a}) /\ Len(Append(s, f)) <= MaxDepth
  BY <1>7, <1>8, SettledPush
<1>10. Cursor \in Nat /\ ListInv /\ OwnInv /\ OwedInv
  BY FirstAndSecond DEF MakeInv
<1> DEFINE g == Frame(Cursor, a)
           frames == Append(s, f)
<1>11. Settled(frames, Range(items) \cup {answer'}) /\ Len(frames) <= MaxDepth
       /\ Alloc(frames, Cursor) /\ stage \in {"alloc", "decode"}
  BY <1>4, <1>6, <1>9
<1> HIDE DEF frames
<1>12. /\ ListInv' /\ OwnInv'
       /\ items' = Append(items, answer') /\ \A e \in Range(items) : data'[e] = data[e]
       /\ stack' = Append(frames, Frame(Cursor, answer')) /\ Frame(Cursor, answer') \in FrameType
  BY <1>10, <1>11, AllocHolds
<1>13. /\ ListInv' /\ OwnInv'
       /\ items' = Append(items, a) /\ \A e \in Range(items) : data'[e] = data[e]
       /\ stack' = Append(Append(s, f), g) /\ g \in FrameType
  BY <1>4, <1>12 DEF frames
<1>14. g.at = "new" /\ g.left = 0
  BY DEF Frame
<1> HIDE DEF g
<1>15. OwedInv'
  BY <1>1, <1>2, <1>5, <1>10, <1>13, <1>14, MemberIsTaken
<1> QED BY <1>13, <1>15 DEF MakeInv, MemInv, memoryVars

\* The first element: one value is owed, and it is pending.
LEMMA FirstElementHolds ==
  ASSUME MakeInv, stage = "alloc", Alloc(<< >>, root), UNCHANGED <<memoryVars, dump>>
  PROVE  MakeInv'
<1>1. ListInv /\ OwnInv /\ root \in Nat /\ items = << >>
  BY DEF MakeInv, ListInv, OwnInv
<1>2. Settled(<< >>, Range(items) \cup {answer'}) /\ Len(<< >>) <= MaxDepth
  BY SectionAssumption DEF Settled, MaxDepth
<1> DEFINE g == Frame(root, answer')
<1>3. /\ ListInv' /\ OwnInv' /\ answer' \in Element /\ items' = Append(items, answer')
      /\ stack' = Append(<< >>, g) /\ g \in FrameType
  BY <1>1, <1>2, AllocHolds
<1>4. g.at = "new" /\ g.left = 0
  BY DEF Frame
<1> HIDE DEF g
<1>5. << >> \in Seq(FrameType) /\ << >> \in Seq(Nat) /\ Len(<< >>) = 0
  OBVIOUS
<1>6. PendingIn(stack') = 1
  BY <1>3, <1>4, <1>5, PendingOfTop
<1>7. HasSum(LeftOf, stack', 0)
  BY <1>3, <1>4, <1>5, SumOfNone, IdleFrame
<1>8. Len(items') = 1
  BY <1>1, <1>3
<1>9. CountsAre(<< >>, items', data')
  BY <1>5 DEF CountsAre
<1>10. Len(<< >>) + 1 = Len(items') /\ 0 + 1 = 1
  BY <1>5, <1>8
<1>11. OwedInv'
  BY <1>5, <1>6, <1>7, <1>9, <1>10, OwedAtFirst DEF OwedInv
<1> QED BY <1>3, <1>11 DEF MakeInv, MemInv, memoryVars

\* Whatever fails.
LEMMA FailureHolds ==
  ASSUME MakeInv, stage \in {"alloc", "decode"},
         AllocFails \/ (Abort("MMDB_INVALID_DATA_ERROR") /\ UNCHANGED arenaVars),
         UNCHANGED <<memoryVars, dump>>
  PROVE  MakeInv'
<1>1. ListInv /\ OwnInv
  BY DEF MakeInv
<1>2. PICK status \in Status : Abort(status)
  BY DEF AllocFails, Status
<1>3. UNCHANGED <<open, items, links>>
  BY DEF AllocFails, Refuse, arenaVars
<1>4. ListInv' /\ OwnInv'
  BY <1>1, <1>2, <1>3, AbortHolds
<1>5. OwedInv'
  BY <1>2 DEF Abort, OwedInv
<1> QED BY <1>4, <1>5 DEF MakeInv, MemInv, memoryVars

\* The pool is destroyed, by the call itself or by its caller.
LEMMA DiscardHolds ==
  ASSUME MakeInv, GiveUp \/ MMDB_free_entry_data_list, dump = "idle",
         UNCHANGED <<memoryVars, dump>>
  PROVE  MakeInv'
<1>1. stage' = "idle" /\ list' = NULL /\ data' = << >> /\ items' = << >> /\ ~open'
      /\ UNCHANGED <<stack, root, list_status>> /\ open' \in BOOLEAN
  BY DEF GiveUp, MMDB_free_entry_data_list, Discard, MakeInv, OwnInv
<1>2. stack = << >>
  BY DEF GiveUp, MMDB_free_entry_data_list, MakeInv, OwnInv
<1>3. Range(<< >>) = {} /\ << >> \in [{} -> EntryType]
  BY DEF Range
<1>4. << >> \in Seq(Element) /\ Len(<< >>) = 0
  OBVIOUS
<1>5. ListInv'
  <2>1. ListInv
    BY DEF MakeInv
  <2> QED BY <1>1, <1>2, <1>3, <1>4, <2>1 DEF ListInv, StackOK
<1>6. OwnInv'
  BY <1>1, <1>2 DEF OwnInv
<1>7. OwedInv'
  BY <1>1 DEF OwedInv
<1> QED BY <1>5, <1>6, <1>7 DEF MakeInv, MemInv, memoryVars

\* A list that is made owes nothing.
MadeInv ==
  stage = "idle" /\ list # NULL =>
    \E c \in Seq(Nat) : Len(c) = Len(items) /\ CountsAre(c, items, data) /\ HasOwed(c, 0)

\* The recursion has come to its end with nothing left to do.
LEMMA FinishHolds ==
  ASSUME MakeInv, Finish, UNCHANGED <<memoryVars, dump>>
  PROVE  MakeInv' /\ MadeInv'
<1>1. /\ stage = "decode" /\ stack = << >> /\ open /\ items # << >>
      /\ links' = ListOf(items) /\ list' = items[1]
      /\ stage' = "idle" /\ list_status' = "MMDB_SUCCESS"
      /\ UNCHANGED <<open, items, stack, data, root>>
  BY DEF Finish, Link
<1>2. ListInv /\ OwnInv /\ items \in Seq(Element)
  BY DEF MakeInv, ListInv
<1>3. items[1] \in Element /\ items[1] # NULL
  BY <1>1, <1>2, ListAssumption
<1>4. ListInv'
  BY <1>1, <1>2, <1>3 DEF ListInv, StackOK, Status
<1>5. OwnInv'
  BY <1>1, <1>2, <1>3 DEF OwnInv
<1>6. OwedInv'
  BY <1>1 DEF OwedInv
<1>7. PICK c \in Seq(Nat), n \in Nat :
        /\ Len(c) + 0 = Len(items) /\ CountsAre(c, items, data)
        /\ HasOwed(c, n + 0) /\ HasSum(LeftOf, << >>, n)
  <2>1. PendingIn(<< >>) = 0
    BY DEF PendingIn
  <2> QED BY <1>1, <2>1 DEF MakeInv, OwedInv
<1>8. n = 0
  BY <1>7, NoneSumsToZero
<1>9. MadeInv'
  BY <1>1, <1>7, <1>8 DEF MadeInv
<1> QED BY <1>4, <1>5, <1>6, <1>9 DEF MakeInv, MemInv, memoryVars

\* The call.
LEMMA CallListHolds ==
  ASSUME MakeInv, CallList
  PROVE  MakeInv' /\ MadeInv'
<1>1. PICK o \in Roots : MMDB_get_entry_data_list(o)
  BY DEF CallList
<1>2. /\ stage = "idle" /\ list = NULL /\ ~open /\ open' \in BOOLEAN
      /\ root' = o /\ list' = NULL
      /\ \/ open' /\ stage' = "alloc" /\ list_status' = "none"
         \/ ~open' /\ stage' = "idle" /\ list_status' = "MMDB_OUT_OF_MEMORY_ERROR"
      /\ UNCHANGED <<items, links, stack, data>>
  BY <1>1 DEF MMDB_get_entry_data_list, Create
<1>3. UNCHANGED <<section, beyond, dump>>
  BY DEF CallList, memoryVars, dumpVars
<1>4. list_status' \in Status /\ root' \in Nat /\ stage' \in {"idle", "alloc"}
  BY <1>2, ListAssumption DEF Status
<1>5. ListInv'
  BY <1>2, <1>4 DEF MakeInv, ListInv
<1>6. OwnInv'
  BY <1>2, <1>3 DEF MakeInv, OwnInv
<1>7. OwedInv' /\ MadeInv'
  BY <1>2, <1>4 DEF OwedInv, MadeInv
<1> QED BY <1>3, <1>5, <1>6, <1>7 DEF MakeInv, MemInv

\* Every step of the call.
LEMMA ListStepHolds ==
  ASSUME MakeInv, ListStep, UNCHANGED <<memoryVars, dumpVars>>
  PROVE  MakeInv' /\ MadeInv'
<1>1. UNCHANGED dump
  BY DEF dumpVars
<1>2. CASE Finish
  BY <1>1, <1>2, FinishHolds
<1>3. CASE GiveUp
  <2>1. dump = "idle" /\ list' = NULL
    BY <1>3 DEF GiveUp, MakeInv, OwnInv
  <2> QED BY <1>1, <1>3, <2>1, DiscardHolds DEF MadeInv
<1>4. CASE FirstElement
  <2>1. stage = "alloc" /\ (Alloc(<< >>, root) \/ AllocFails)
    BY <1>4 DEF FirstElement
  <2>2. stage' # "idle"
    BY <2>1 DEF Alloc, AllocFails, Abort
  <2> QED BY <1>1, <2>1, <2>2, FirstElementHolds, FailureHolds DEF MadeInv
<1>5. CASE RejectValue
  <2>1. stage = "decode" /\ Abort("MMDB_INVALID_DATA_ERROR") /\ UNCHANGED arenaVars
    BY <1>5 DEF RejectValue, New
  <2>2. stage' # "idle"
    BY <2>1 DEF Abort
  <2> QED BY <1>1, <2>1, <2>2, FailureHolds DEF MadeInv
<1>6. CASE NextMember
  <2>1. stage = "decode" /\ stack # << >> /\ Top.at = "members" /\ Top.left > 0
    BY <1>6 DEF NextMember
  <2>2. \/ Alloc(Replaced([Top EXCEPT !.left = @ - 1, !.member = answer']), Cursor)
        \/ AllocFails
    BY <1>6 DEF NextMember
  <2>3. stage' # "idle"
    BY <2>2 DEF Alloc, AllocFails, Abort
  <2> QED BY <1>1, <2>1, <2>2, <2>3, NextMemberHolds, FailureHolds DEF MadeInv
<1>7. CASE SimpleValue \/ PointerToSimple \/ CompoundValue \/ PointerToCompound
             \/ PointerReturns \/ MembersReturn
  <2>1. stage = "decode" /\ stage' = stage
    BY <1>7 DEF SimpleValue, PointerToSimple, CompoundValue, PointerToCompound,
                PointerReturns, MembersReturn, New, Step
  <2>2. MakeInv'
    BY <1>1, <1>7, SimpleHolds, CompoundHolds, PointerHolds, ReturnHolds
  <2> QED BY <2>1, <2>2 DEF MadeInv
<1> QED BY <1>2, <1>3, <1>4, <1>5, <1>6, <1>7 DEF ListStep
-------------------------------------------------------------------------------
(***************************************************************************)
(* The dump: what the values printed so far owe is what the loops still    *)
(* have to do.                                                             *)
(***************************************************************************)
RestOf == [f \in SkipFrame |-> IF f.map THEN 2 * f.left ELSE f.left]

\* Where the dump is in the list.
DumpAt ==
  /\ dumped \in Seq(Element) /\ Len(dumped) \in 0 .. Len(items)
  /\ dumped = SubSeq(items, 1, Len(dumped))
  /\ current = IF Len(dumped) < Len(items) THEN items[Len(dumped) + 1] ELSE NULL

DumpOwes ==
  \E c \in Seq(Nat), n \in Nat : \E f :
    /\ Len(c) = Len(items) /\ CountsAre(c, items, data)
    /\ Owing(f, c) /\ f[Len(c)] = 0
    /\ HasSum(RestOf, nest, n)
    /\ f[Len(dumped)] = n + (IF dump = "value" THEN 1 ELSE 0)

DumpInv ==
  /\ dump \in {"idle", "value", "loop"} /\ current \in Element \cup {NULL}
  /\ dump_status \in Status
  /\ dump # "idle" => nest \in Seq(SkipFrame) /\ DumpAt /\ DumpOwes

\* The rounds left in a loop are a number, none only if they weigh nothing.
LEMMA RestOfType ==
  /\ RestOf \in [SkipFrame -> Nat]
  /\ \A f \in SkipFrame : /\ f.left \in Nat /\ f.map \in BOOLEAN
                          /\ RestOf[f] = IF f.map THEN 2 * f.left ELSE f.left
                          /\ RestOf[f] <= 0 => f.left = 0
<1>1. \A f \in SkipFrame : f.left \in Nat /\ f.map \in BOOLEAN
  BY DEF SkipFrame
<1>2. \A x \in Nat : 2 * x \in Nat /\ (2 * x <= 0 => x = 0) /\ (x <= 0 => x = 0)
  OBVIOUS
<1>3. \A f \in SkipFrame : (IF f.map THEN 2 * f.left ELSE f.left) \in Nat
  BY <1>1, <1>2
<1>4. RestOf \in [SkipFrame -> Nat]
  BY <1>3 DEF RestOf
<1>5. \A f \in SkipFrame : RestOf[f] = IF f.map THEN 2 * f.left ELSE f.left
  BY DEF RestOf
<1> QED BY <1>1, <1>2, <1>4, <1>5

\* The next field of an element is the element handed out after it.
LEMMA NextItem ==
  ASSUME ListInv, links = ListOf(items), NEW k \in 1 .. Len(items)
  PROVE  next(items[k]) = IF k < Len(items) THEN items[k + 1] ELSE NULL
<1>1. /\ items \in Seq(Element) /\ Len(items) \in Nat
      /\ \A i, j \in 1 .. Len(items) : items[i] = items[j] => i = j
  BY DEF ListInv
<1>2. \A p \in links : \E i \in 1 .. (Len(items) - 1) : p = <<items[i], items[i + 1]>>
  BY DEF ListOf
<1>3. \A i \in 1 .. (Len(items) - 1) : i \in 1 .. Len(items) /\ i < Len(items)
  BY <1>1
<1>4. ASSUME NEW p \in links, p[1] = items[k]
      PROVE  k < Len(items) /\ p = <<items[k], items[k + 1]>>
  <2>1. PICK i \in 1 .. (Len(items) - 1) : p = <<items[i], items[i + 1]>>
    BY <1>2
  <2>2. i = k
    BY <1>1, <1>3, <1>4, <2>1
  <2> QED BY <1>3, <2>1, <2>2
<1>5. CASE k < Len(items)
  <2>1. k \in 1 .. (Len(items) - 1)
    BY <1>1, <1>5
  <2>2. <<items[k], items[k + 1]>> \in links
    BY <2>1 DEF ListOf
  <2>3. \E p \in links : p[1] = items[k]
    BY <2>2
  <2> DEFINE q == CHOOSE p \in links : p[1] = items[k]
  <2>4. q \in links /\ q[1] = items[k]
    BY <2>3
  <2>5. next(items[k]) = q[2]
    BY <2>3 DEF next
  <2> HIDE DEF q
  <2>6. q = <<items[k], items[k + 1]>>
    BY <1>4, <2>4
  <2> QED BY <1>5, <2>5, <2>6
<1>6. CASE ~(k < Len(items))
  BY <1>4, <1>6 DEF next
<1> QED BY <1>5, <1>6

\* The list owes something until it ends.
LEMMA OwedUntilTheEnd ==
  ASSUME NEW c \in Seq(Nat), NEW f, Owing(f, c), f[Len(c)] = 0, NEW d \in 0 .. Len(c)
  PROVE  /\ f[d] \in Nat
         /\ d < Len(c) => /\ f[d] > 0 /\ d + 1 \in 1 .. Len(c)
                          /\ f[d + 1] = f[d] - 1 + c[d + 1]
         /\ d = Len(c) \/ d < Len(c)
<1>1. Len(c) \in Nat /\ f \in [0 .. Len(c) -> Nat]
  BY DEF Owing
<1>2. f[d] \in Nat /\ (d = Len(c) \/ d < Len(c))
  BY <1>1
<1>3. ASSUME d < Len(c)
      PROVE  f[d] > 0 /\ d + 1 \in 1 .. Len(c) /\ f[d + 1] = f[d] - 1 + c[d + 1]
  <2>1. d + 1 \in 1 .. Len(c) /\ (d + 1) - 1 = d
    BY <1>1, <1>3
  <2>2. f[(d + 1) - 1] > 0 /\ f[d + 1] = f[(d + 1) - 1] - 1 + c[d + 1]
    BY <2>1 DEF Owing
  <2> QED BY <2>1, <2>2
<1> QED BY <1>2, <1>3

\* An element is printed.
LEMMA PrintedHolds ==
  ASSUME ListInv, links = ListOf(items), DumpAt, Len(dumped) < Len(items), Printed,
         UNCHANGED items
  PROVE  /\ current = items[Len(dumped) + 1] /\ current \in Range(items)
         /\ DumpAt' /\ Len(dumped') = Len(dumped) + 1
         /\ current' \in Element \cup {NULL}
<1> DEFINE d == Len(dumped)
           m == Len(items)
<1>1. /\ items \in Seq(Element) /\ m \in Nat /\ d \in Nat /\ d < m
      /\ DOMAIN items = 1 .. m
  BY DEF ListInv, DumpAt
<1>2. current = items[d + 1] /\ dumped' = Append(dumped, current)
      /\ current' = next(current) /\ dumped = SubSeq(items, 1, d) /\ dumped \in Seq(Element)
  BY DEF DumpAt, Printed
<1>3. d + 1 \in 1 .. m
  BY <1>1
<1>4. current \in Element /\ current \in Range(items)
  BY <1>1, <1>2, <1>3 DEF Range
<1>5. current' = IF d + 1 < m THEN items[(d + 1) + 1] ELSE NULL
  BY <1>2, <1>3, NextItem
<1>6. dumped' \in Seq(Element) /\ Len(dumped') = d + 1
  BY <1>2, <1>4
<1> HIDE DEF d, m
<1>7. dumped' = SubSeq(items, 1, d + 1)
  <2> DEFINE t == SubSeq(items, 1, d + 1)
             u == SubSeq(items, 1, d)
             v == dumped'
  <2>1. (\A i \in 1 .. (d + 1) : items[i] \in Element) /\ (\A i \in 1 .. d : items[i] \in Element)
    BY <1>1
  <2>2. /\ t \in Seq(Element) /\ Len(t) = IF 1 <= d + 1 THEN (d + 1) - 1 + 1 ELSE 0
        /\ \A i \in 1 .. ((d + 1) - 1 + 1) : t[i] = items[1 + i - 1]
    BY <1>1, <2>1, SubSeqProperties
  <2>3. \A i \in 1 .. (d - 1 + 1) : u[i] = items[1 + i - 1]
    BY <1>1, <2>1, SubSeqProperties
  <2>4. /\ v \in Seq(Element) /\ Len(v) = d + 1 /\ v[d + 1] = items[d + 1]
        /\ \A i \in 1 .. d : v[i] = u[i]
    BY <1>2, <1>4, <1>6 DEF d
  <2> HIDE DEF t, u, v
  <2>5. Len(t) = d + 1 /\ (\A i \in 1 .. (d + 1) : t[i] = items[i])
    BY <1>1, <2>2
  <2>6. \A i \in 1 .. d : u[i] = items[i]
    BY <1>1, <2>3
  <2>7. \A i \in 1 .. (d + 1) : i \in 1 .. d \/ i = d + 1
    BY <1>1
  <2>8. \A i \in 1 .. Len(v) : v[i] = t[i]
    BY <2>4, <2>5, <2>6, <2>7
  <2>9. v = t
    BY <2>2, <2>4, <2>5, <2>8, SeqEqual
  <2> QED BY <2>9 DEF t, v
<1>8. d + 1 \in 0 .. m
  BY <1>1
<1>9. DumpAt'
  BY <1>5, <1>6, <1>7, <1>8 DEF DumpAt, m
<1>10. current' \in Element \cup {NULL}
  <2>1. CASE d + 1 < m
    <3>1. (d + 1) + 1 \in 1 .. m
      BY <1>1, <2>1
    <3> QED BY <1>1, <1>5, <2>1, <3>1
  <2>2. CASE ~(d + 1 < m)
    BY <1>5, <2>2
  <2> QED BY <2>1, <2>2
<1> QED BY <1>2, <1>4, <1>6, <1>9, <1>10 DEF d

\* What a dump relies on.
Listed == stage = "idle" /\ list # NULL /\ ListInv /\ links = ListOf(items) /\ MadeInv

\* The innermost loop and those around it.
LEMMA Unnested ==
  ASSUME nest \in Seq(SkipFrame), nest # << >>
  PROVE  \E u \in Seq(SkipFrame), i \in SkipFrame :
           /\ nest = Append(u, i) /\ Inner = i /\ Front(nest) = u
           /\ i.left > 0 => \E g \in SkipFrame :
                              /\ Counted = Append(u, g) /\ g.left = i.left - 1 /\ g.map = i.map
<1>1. /\ Front(nest) \in Seq(SkipFrame) /\ Inner \in SkipFrame
      /\ nest = Append(Front(nest), Inner)
      /\ \A f : [nest EXCEPT ![Len(nest)] = f] = Append(Front(nest), f)
      /\ Len(nest) \in 1 .. Len(nest)
  BY TopAndBelow DEF Inner
<1>2. PICK u \in Seq(SkipFrame), i \in SkipFrame : u = Front(nest) /\ i = Inner
  BY <1>1
<1>3. ASSUME i.left > 0
      PROVE  \E g \in SkipFrame :
               Counted = Append(u, g) /\ g.left = i.left - 1 /\ g.map = i.map
  <2>1. i.left \in Nat
    BY DEF SkipFrame
  <2>2. PICK n \in Nat : n = i.left - 1
    BY <1>3, <2>1
  <2> DEFINE g == [i EXCEPT !.left = n]
  <2>3. g \in SkipFrame /\ g.left = n /\ g.map = i.map
    BY DEF SkipFrame
  <2>4. Counted = [nest EXCEPT ![Len(nest)] = g]
    BY <1>2, <2>2 DEF Counted, Inner
  <2> HIDE DEF g
  <2>5. Counted = Append(u, g)
    BY <1>1, <1>2, <2>4
  <2> QED BY <2>2, <2>3, <2>5
<1> QED BY <1>1, <1>2, <1>3

\* The dump of a value: its members take its place.
LEMMA DumpValueHolds ==
  ASSUME Listed, DumpInv, DumpCompound \/ DumpSimple, UNCHANGED <<items, data>>
  PROVE  DumpInv'
<1>1. dump = "value" /\ dump' = "loop" /\ Printed /\ dump_status' = dump_status
  BY DEF DumpCompound, DumpSimple
<1>2. nest \in Seq(SkipFrame) /\ DumpAt /\ DumpOwes /\ ListInv /\ links = ListOf(items)
      /\ items \in Seq(Element) /\ data \in [Range(items) -> EntryType]
  BY <1>1 DEF DumpInv, Listed, ListInv
<1> DEFINE d == Len(dumped)
           e == data[current]
<1>3. PICK c \in Seq(Nat), n \in Nat : \E f :
        /\ Len(c) = Len(items) /\ CountsAre(c, items, data)
        /\ Owing(f, c) /\ f[Len(c)] = 0
        /\ HasSum(RestOf, nest, n) /\ f[d] = n + 1
  BY <1>1, <1>2 DEF DumpOwes
<1>3a. PICK f :
        /\ Len(c) = Len(items) /\ CountsAre(c, items, data)
        /\ Owing(f, c) /\ f[Len(c)] = 0
        /\ HasSum(RestOf, nest, n) /\ f[d] = n + 1
  BY <1>3
<1>4. d \in 0 .. Len(c)
  BY <1>2, <1>3a DEF DumpAt
<1>5. /\ d < Len(items) /\ d + 1 \in 1 .. Len(c) /\ f[d + 1] = f[d] - 1 + c[d + 1]
  <2>1. n + 1 # 0
    BY <1>3a
  <2>2. d # Len(c)
    BY <1>3a, <2>1
  <2> HIDE DEF d
  <2>3. d < Len(c) /\ d + 1 \in 1 .. Len(c) /\ f[d + 1] = f[d] - 1 + c[d + 1]
    BY <1>3a, <1>4, <2>2, OwedUntilTheEnd
  <2> QED BY <1>3a, <2>3
<1>6. /\ current = items[d + 1] /\ current \in Range(items)
      /\ DumpAt' /\ Len(dumped') = d + 1 /\ current' \in Element \cup {NULL}
  BY <1>1, <1>2, <1>5, PrintedHolds
<1>7. c[d + 1] = Owes(e) /\ e \in EntryType /\ c[d + 1] \in Nat
  BY <1>2, <1>3a, <1>5, <1>6 DEF CountsAre
<1> HIDE DEF d, e
<1>8. f[d + 1] = n + c[d + 1]
  BY <1>3a, <1>5, <1>7
<1>9. nest' \in Seq(SkipFrame) /\ HasSum(RestOf, nest', n + c[d + 1])
  <2>1. CASE DumpCompound
    <3> DEFINE g == [left |-> e.data_size, map |-> e.type = MAP]
    <3>1. nest' = Append(nest, g) /\ e.type \in Compound
      BY <2>1 DEF DumpCompound, e
    <3>2. g \in SkipFrame /\ g.left = e.data_size /\ g.map = (e.type = MAP)
      BY <1>7, EntryFields DEF SkipFrame
    <3> HIDE DEF g
    <3>3. RestOf[g] = Owes(e)
      BY <3>1, <3>2, RestOfType DEF Owes, Members
    <3>4. nest' \in Seq(SkipFrame)
      BY <1>2, <3>1, <3>2
    <3>5. RestOf \in [SkipFrame -> Nat]
      BY RestOfType
    <3>6. HasSum(RestOf, nest, n)
      BY <1>3a
    <3>7. HasSum(RestOf, Append(nest, g), n + RestOf[g])
      BY <1>2, <3>2, <3>5, <3>6, SumPush
    <3> QED BY <1>7, <3>1, <3>3, <3>4, <3>7
  <2>2. CASE DumpSimple
    <3>1. nest' = nest /\ e.type \in Printable
      BY <2>2 DEF DumpSimple, e
    <3>2. e.type \notin Compound
      BY <3>1 DEF Printable, Compound, MAP, ARRAY, UTF8_STRING, DOUBLE, BYTES,
                  BOOLEAN_TYPE, FLOAT, MaxBytes
    <3>3. c[d + 1] = 0 /\ n + 0 = n
      BY <1>7, <3>2 DEF Owes
    <3> QED BY <1>2, <1>3a, <3>1, <3>3
  <2> QED BY <2>1, <2>2
<1>10. n + c[d + 1] \in Nat /\ f[d + 1] = (n + c[d + 1]) + 0
  BY <1>3a, <1>7, <1>8
<1>11. DumpOwes'
  BY <1>1, <1>3a, <1>6, <1>9, <1>10 DEF DumpOwes, d
<1> QED BY <1>1, <1>6, <1>9, <1>11 DEF DumpInv

\* A round of a loop: its value is pending, and its key, if any, is printed.
LEMMA DumpRoundHolds ==
  ASSUME Listed, DumpInv, DumpElement \/ DumpKey, UNCHANGED <<items, data>>
  PROVE  DumpInv'
<1>1. /\ dump = "loop" /\ nest # << >> /\ Inner.left > 0 /\ current # NULL
      /\ nest' = Counted /\ dump' = "value" /\ dump_status' = dump_status
  BY DEF DumpElement, DumpKey, Looping
<1>2. nest \in Seq(SkipFrame) /\ DumpAt /\ DumpOwes /\ ListInv /\ links = ListOf(items)
      /\ items \in Seq(Element) /\ data \in [Range(items) -> EntryType]
  BY <1>1 DEF DumpInv, Listed, ListInv
<1>3. PICK u \in Seq(SkipFrame), i \in SkipFrame :
        /\ nest = Append(u, i) /\ Inner = i
        /\ i.left > 0 => \E g \in SkipFrame :
                           /\ Counted = Append(u, g) /\ g.left = i.left - 1 /\ g.map = i.map
  BY <1>1, <1>2, Unnested
<1>4. PICK g \in SkipFrame : nest' = Append(u, g) /\ g.left = i.left - 1 /\ g.map = i.map
  BY <1>1, <1>3
<1> DEFINE d == Len(dumped)
<1>5. PICK c \in Seq(Nat), n \in Nat : \E f :
        /\ Len(c) = Len(items) /\ CountsAre(c, items, data)
        /\ Owing(f, c) /\ f[Len(c)] = 0
        /\ HasSum(RestOf, nest, n) /\ f[d] = n + 0
  BY <1>1, <1>2 DEF DumpOwes
<1>5a. PICK f :
        /\ Len(c) = Len(items) /\ CountsAre(c, items, data)
        /\ Owing(f, c) /\ f[Len(c)] = 0
        /\ HasSum(RestOf, nest, n) /\ f[d] = n + 0
  BY <1>5
<1>6. d \in 0 .. Len(c) /\ d < Len(items)
  BY <1>1, <1>2, <1>5a DEF DumpAt
<1>7. RestOf[i] <= n /\ HasSum(RestOf, u, n - RestOf[i]) /\ n - RestOf[i] \in Nat
      /\ RestOf[i] \in Nat /\ RestOf[g] \in Nat /\ RestOf \in [SkipFrame -> Nat]
  <2>1. RestOf \in [SkipFrame -> Nat] /\ RestOf[i] \in Nat /\ RestOf[g] \in Nat
    BY RestOfType
  <2>2. RestOf[i] <= n /\ HasSum(RestOf, u, n - RestOf[i])
    BY <1>3, <1>5a, <2>1, SumPop
  <2> QED BY <2>1, <2>2
<1>8. nest' \in Seq(SkipFrame) /\ HasSum(RestOf, nest', (n - RestOf[i]) + RestOf[g])
  <2>1. Append(u, g) \in Seq(SkipFrame)
    OBVIOUS
  <2> DEFINE j == n - RestOf[i]
  <2>2. HasSum(RestOf, u, j) /\ RestOf \in [SkipFrame -> Nat]
    BY <1>7
  <2> HIDE DEF j
  <2>3. HasSum(RestOf, Append(u, g), j + RestOf[g])
    BY <2>2, SumPush
  <2> QED BY <1>4, <2>1, <2>3 DEF j
<1>9. RestOf[g] = RestOf[i] - (IF i.map THEN 2 ELSE 1)
  <2>1. i.left \in Nat /\ g.left = i.left - 1
        /\ RestOf[i] = (IF i.map THEN 2 * i.left ELSE i.left)
        /\ RestOf[g] = (IF i.map THEN 2 * g.left ELSE g.left)
    BY <1>4, RestOfType
  <2> QED BY <2>1
<1> DEFINE k == (n - RestOf[i]) + RestOf[g]
<1>10. k \in Nat /\ k = n - (IF i.map THEN 2 ELSE 1)
  <2>1. \A a, b, x \in Nat : b <= a => (a - b) + x \in Nat
    OBVIOUS
  <2>2. k \in Nat
    BY <1>7, <2>1
  <2>3. \A a, b, x \in Int : (a - b) + (b - x) = a - x
    OBVIOUS
  <2>4. (IF i.map THEN 2 ELSE 1) \in Int /\ n \in Int /\ RestOf[i] \in Int
    BY <1>7
  <2>5. k = (n - RestOf[i]) + (RestOf[i] - (IF i.map THEN 2 ELSE 1))
    BY <1>9
  <2> QED BY <2>2, <2>3, <2>4, <2>5
<1>11. HasSum(RestOf, nest', k)
  BY <1>8
<1> HIDE DEF k
<1>12. CASE DumpElement
  <2>1. ~i.map /\ UNCHANGED <<current, dumped>>
    BY <1>3, <1>12 DEF DumpElement
  <2>2. f[d] = k + 1
    BY <1>5a, <1>10, <2>1
  <2>3. DumpOwes'
    BY <1>1, <1>5a, <1>10, <1>11, <2>1, <2>2 DEF DumpOwes
  <2>4. DumpAt'
    BY <1>2, <2>1 DEF DumpAt
  <2> QED BY <1>1, <1>8, <2>1, <2>3, <2>4 DEF DumpInv
<1>13. CASE DumpKey
  <2>1. i.map /\ Printed /\ data[current].type = UTF8_STRING
    BY <1>3, <1>13 DEF DumpKey
  <2>2. /\ current = items[d + 1]
        /\ DumpAt' /\ Len(dumped') = d + 1 /\ current' \in Element \cup {NULL}
    BY <1>2, <1>6, <2>1, PrintedHolds
  <2>3. f[d + 1] = f[d] - 1 + c[d + 1] /\ d + 1 \in 1 .. Len(c)
    BY <1>5a, <1>6, OwedUntilTheEnd
  <2>4. c[d + 1] = Owes(data[current])
    BY <1>5a, <2>2, <2>3 DEF CountsAre
  <2>5. c[d + 1] = 0
    BY <2>1, <2>4 DEF Owes, Compound, MAP, ARRAY, UTF8_STRING
  <2>6. f[d + 1] = k + 1
    BY <1>5a, <1>10, <2>1, <2>3, <2>5
  <2>7. DumpOwes'
    BY <1>1, <1>5a, <1>10, <1>11, <2>2, <2>6 DEF DumpOwes
  <2> QED BY <1>1, <1>8, <2>2, <2>7 DEF DumpInv
<1> QED BY <1>12, <1>13

\* A loop ends when its rounds are done; it never ends for want of elements.
LEMMA DumpLoopHolds ==
  ASSUME Listed, DumpInv, DumpLoopEnds, UNCHANGED <<items, data>>
  PROVE  DumpInv'
<1>1. /\ dump = "loop" /\ nest # << >> /\ (Inner.left = 0 \/ current = NULL)
      /\ nest' = Front(nest) /\ UNCHANGED <<dump, current, dumped, dump_status>>
  BY DEF DumpLoopEnds
<1>2. nest \in Seq(SkipFrame) /\ DumpAt /\ DumpOwes /\ ListInv /\ items \in Seq(Element)
  BY <1>1 DEF DumpInv, Listed, ListInv
<1>3. PICK u \in Seq(SkipFrame), i \in SkipFrame :
        nest = Append(u, i) /\ Inner = i /\ Front(nest) = u
  BY <1>1, <1>2, Unnested
<1> DEFINE d == Len(dumped)
<1>4. PICK c \in Seq(Nat), n \in Nat : \E f :
        /\ Len(c) = Len(items) /\ CountsAre(c, items, data)
        /\ Owing(f, c) /\ f[Len(c)] = 0
        /\ HasSum(RestOf, nest, n) /\ f[d] = n + 0
  BY <1>1, <1>2 DEF DumpOwes
<1>4a. PICK f :
        /\ Len(c) = Len(items) /\ CountsAre(c, items, data)
        /\ Owing(f, c) /\ f[Len(c)] = 0
        /\ HasSum(RestOf, nest, n) /\ f[d] = n + 0
  BY <1>4
<1>5. RestOf \in [SkipFrame -> Nat] /\ RestOf[i] \in Nat /\ RestOf[i] <= n
      /\ HasSum(RestOf, u, n - RestOf[i])
  BY <1>3, <1>4a, RestOfType, SumPop
<1>6. RestOf[i] = 0
  <2>1. CASE i.left = 0
    <3>1. RestOf[i] = IF i.map THEN 2 * i.left ELSE i.left
      BY RestOfType
    <3> QED BY <2>1, <3>1
  <2>2. CASE current = NULL
    <3>1. ~(d < Len(items))
      <4>1. ASSUME d < Len(items) PROVE FALSE
        <5>1. current = items[d + 1] /\ d + 1 \in 1 .. Len(items)
          BY <1>2, <4>1 DEF DumpAt
        <5> QED BY <1>2, <2>2, <5>1, ListAssumption
      <4> QED BY <4>1
    <3>2. d = Len(c)
      BY <1>2, <1>4a, <3>1 DEF DumpAt
    <3> QED BY <1>4a, <1>5, <3>2
  <2> QED BY <1>1, <1>3, <2>1, <2>2
<1>7. HasSum(RestOf, nest', n)
  <2>1. n - RestOf[i] = n
    BY <1>4a, <1>6
  <2> QED BY <1>1, <1>3, <1>5, <2>1
<1>8. DumpOwes'
  BY <1>1, <1>4a, <1>7 DEF DumpOwes
<1>9. DumpAt'
  BY <1>1, <1>2 DEF DumpAt
<1> QED BY <1>1, <1>3, <1>8, <1>9 DEF DumpInv

\* What it takes for the loops to do what the list owes.
LEMMA DumpOwesNext ==
  ASSUME NEW c \in Seq(Nat), NEW f, NEW n \in Nat,
         Len(c) = Len(items'), CountsAre(c, items', data'), Owing(f, c), f[Len(c)] = 0,
         HasSum(RestOf, nest', n), f[Len(dumped')] = n + (IF dump' = "value" THEN 1 ELSE 0)
  PROVE  DumpOwes'
BY DEF DumpOwes

\* A dump that begins.
LEMMA DumpCallHolds ==
  ASSUME Listed, items # << >>, list = items[1], MMDB_dump_entry_data_list,
         UNCHANGED <<items, data>>
  PROVE  DumpInv'
<1>1. /\ dump' = "value" /\ current' = items[1] /\ nest' = << >> /\ dumped' = << >>
      /\ dump_status' = "none"
  BY DEF MMDB_dump_entry_data_list
<1>2. items \in Seq(Element) /\ Len(items) \in Nat /\ 0 < Len(items) /\ items[1] \in Element
  BY DEF Listed, ListInv
<1>3. PICK c \in Seq(Nat) :
        Len(c) = Len(items) /\ CountsAre(c, items, data) /\ HasOwed(c, 0)
  BY DEF Listed, MadeInv
<1>4. PICK f : Owing(f, c) /\ f[Len(c)] = 0
  BY <1>3 DEF HasOwed
<1>5. Len(<< >>) = 0 /\ << >> \in Seq(Element) /\ << >> \in Seq(SkipFrame)
  OBVIOUS
<1>6. f[0] = 0 + 1
  BY <1>4 DEF Owing
<1>7. DumpOwes'
  <2>0. PICK n \in Nat : n = 0
    OBVIOUS
  <2>1. HasSum(RestOf, nest', n)
    BY <1>1, <2>0, SumOfNone
  <2>2. f[Len(dumped')] = n + (IF dump' = "value" THEN 1 ELSE 0)
    BY <1>1, <1>5, <1>6, <2>0
  <2>3. Len(c) = Len(items') /\ CountsAre(c, items', data')
    BY <1>3
  <2> QED BY <1>4, <2>1, <2>2, <2>3, DumpOwesNext
<1>8. SubSeq(items, 1, 0) = << >>
  BY SubSeqEmpty
<1>9. DumpAt'
  BY <1>1, <1>2, <1>5, <1>8 DEF DumpAt
<1> QED BY <1>1, <1>2, <1>5, <1>7, <1>9 DEF DumpInv, Status

\* Every step of a dump.
LEMMA DumpStepHolds ==
  ASSUME Listed, DumpInv, DumpStep, UNCHANGED <<items, data>>
  PROVE  DumpInv'
<1>1. ASSUME NEW status \in Status, DumpReturns(status) PROVE DumpInv'
  BY <1>1 DEF DumpReturns, DumpInv
<1>2. /\ "MMDB_INVALID_DATA_ERROR" \in Status /\ "MMDB_OUT_OF_MEMORY_ERROR" \in Status
      /\ "MMDB_SUCCESS" \in Status
  BY DEF Status
<1>3. CASE DumpUnknown \/ DumpKeyIsNoString \/ DumpOutOfMemory \/ DumpEnds
  BY <1>1, <1>2, <1>3 DEF DumpUnknown, DumpKeyIsNoString, DumpOutOfMemory, DumpEnds
<1> QED BY <1>3, DumpValueHolds, DumpRoundHolds, DumpLoopHolds DEF DumpStep

\* No loop stops for want of elements, and none of them is left over.
LEMMA DumpIsComplete ==
  ASSUME ListInv, DumpInv, dump # "idle"
  PROVE  /\ dumped = SubSeq(items, 1, Len(dumped))
         /\ current = IF Len(dumped) < Len(items) THEN items[Len(dumped) + 1] ELSE NULL
         /\ dump = "value" => current # NULL
         /\ dump = "loop" /\ current = NULL => \A k \in DOMAIN nest : nest[k].left = 0
         /\ dump = "loop" /\ nest = << >> => current = NULL
<1>1. nest \in Seq(SkipFrame) /\ DumpAt /\ DumpOwes /\ items \in Seq(Element)
  BY DEF DumpInv, ListInv
<1> DEFINE d == Len(dumped)
           m == Len(items)
<1>2. /\ dumped = SubSeq(items, 1, d) /\ d \in 0 .. m /\ m \in Nat
      /\ current = IF d < m THEN items[d + 1] ELSE NULL
  BY <1>1 DEF DumpAt
<1>3. PICK c \in Seq(Nat), n \in Nat : \E f :
        /\ Len(c) = Len(items) /\ Owing(f, c) /\ f[Len(c)] = 0
        /\ HasSum(RestOf, nest, n)
        /\ f[d] = n + (IF dump = "value" THEN 1 ELSE 0)
  BY <1>1 DEF DumpOwes
<1>4. PICK f :
        /\ Len(c) = Len(items) /\ Owing(f, c) /\ f[Len(c)] = 0
        /\ HasSum(RestOf, nest, n)
        /\ f[d] = n + (IF dump = "value" THEN 1 ELSE 0)
  BY <1>3
<1> HIDE DEF d, m
<1>5. d = m => f[d] = 0
  BY <1>4 DEF m
<1>6. d < m => f[d] > 0
  BY <1>2, <1>4, OwedUntilTheEnd DEF m
<1>7. d < m => current # NULL
  <2>1. ASSUME d < m PROVE current # NULL
    <3>1. d + 1 \in 1 .. Len(items)
      BY <1>2, <2>1 DEF m
    <3>2. current \in Element
      BY <1>1, <1>2, <2>1, <3>1
    <3> QED BY <3>2, ListAssumption
  <2> QED BY <2>1
<1>8. d = m \/ d < m
  BY <1>2
<1>9. ASSUME dump = "value" PROVE current # NULL
  <2>1. f[d] = n + 1 /\ n + 1 # 0
    BY <1>4, <1>9
  <2> QED BY <1>5, <1>7, <1>8, <2>1
<1>10. ASSUME dump = "loop" PROVE f[d] = n
  BY <1>4, <1>10
<1>11. ASSUME dump = "loop", current = NULL, NEW k \in DOMAIN nest PROVE nest[k].left = 0
  <2>1. n = 0
    BY <1>5, <1>7, <1>8, <1>10, <1>11
  <2>2. k \in 1 .. Len(nest) /\ nest[k] \in SkipFrame
    BY <1>1, <1>11
  <2>3. RestOf[nest[k]] <= n
    BY <1>1, <1>4, <2>2, RestOfType, SumPart
  <2> QED BY <2>1, <2>2, <2>3, RestOfType
<1>12. ASSUME dump = "loop", nest = << >> PROVE current = NULL
  <2>1. n = 0
    BY <1>4, <1>12, NoneSumsToZero
  <2>2. f[d] = 0
    BY <1>10, <1>12, <2>1
  <2> QED BY <1>2, <1>6, <2>2
<1> QED BY <1>2, <1>9, <1>11, <1>12 DEF d, m
-------------------------------------------------------------------------------
(***************************************************************************)
(* How long a list without pointers can be.  Every element that is handed  *)
(* out has a byte of the section to itself: when the innermost call is     *)
(* new, all the elements but its own have one before its offset, and when  *)
(* it waits for members, all have one before the next member.              *)
(***************************************************************************)
NoPointers == \A k \in DOMAIN section : section[k] \div 32 # POINTER

Bound == Len(items) <= 1 + (IF root < data_section_size THEN data_section_size - root ELSE 0)

\* Each of the calls s waits for a member, the value of the next call; the last
\* one for e.
Chained(s, e) ==
  \A k \in 1 .. Len(s) : /\ s[k].at = "members"
                         /\ s[k].member = IF k = Len(s) THEN e ELSE s[k + 1].element

\* The innermost call t, and the calls s below it.
Progress(s, t) ==
  /\ Chained(s, t.element) /\ t.at # "pointer"
  /\ t.at = "new" => root + Len(items) <= t.offset + 1
  /\ t.at = "members" => /\ root + Len(items) <= data[t.member].offset_to_next
                         /\ root + Len(items) <= data_section_size

BoundInv ==
  NoPointers => /\ Bound
                /\ stage = "decode" /\ stack # << >> => Progress(Front(stack), Top)

\* A call that waits for the member e is put on top.
LEMMA ChainPush ==
  ASSUME NEW s \in Seq(FrameType), NEW f \in FrameType, Chained(s, f.element),
         f.at = "members", NEW e, f.member = e
  PROVE  Chained(Append(s, f), e)
<1> DEFINE m == Len(s)
           t == Append(s, f)
<1>1. m \in Nat /\ Len(t) = m + 1 /\ t[m + 1] = f /\ \A k \in 1 .. m : t[k] = s[k]
  OBVIOUS
<1>2. \A k \in 1 .. m : /\ s[k].at = "members"
                        /\ s[k].member = IF k = m THEN f.element ELSE s[k + 1].element
  BY DEF Chained
<1> HIDE DEF m, t
<1>3. ASSUME NEW k \in 1 .. (m + 1)
      PROVE  t[k].at = "members" /\ t[k].member = IF k = m + 1 THEN e ELSE t[k + 1].element
  <2>1. CASE k = m + 1
    BY <1>1, <2>1
  <2>2. CASE k # m + 1
    <3>1. k \in 1 .. m
      BY <1>1, <2>2
    <3>2. t[k] = s[k] /\ s[k].at = "members"
      BY <1>1, <1>2, <3>1
    <3>3. CASE k = m
      BY <1>1, <1>2, <2>2, <3>1, <3>2, <3>3
    <3>4. CASE k # m
      <4>1. k + 1 \in 1 .. m
        BY <1>1, <3>1, <3>4
      <4>2. t[k + 1] = s[k + 1]
        BY <1>1, <4>1
      <4> QED BY <1>2, <2>2, <3>1, <3>2, <3>4, <4>2
    <3> QED BY <3>3, <3>4
  <2> QED BY <2>1, <2>2
<1>4. Chained(t, e)
  BY <1>1, <1>3 DEF Chained
<1> QED BY <1>4 DEF t

\* The call on top returns to the one below.
LEMMA ChainPop ==
  ASSUME NEW s \in Seq(FrameType), NEW f \in FrameType, NEW e, Chained(Append(s, f), e)
  PROVE  Chained(s, f.element) /\ f.at = "members" /\ f.member = e
<1> DEFINE m == Len(s)
           t == Append(s, f)
<1>1. m \in Nat /\ Len(t) = m + 1 /\ t[m + 1] = f /\ \A k \in 1 .. m : t[k] = s[k]
  OBVIOUS
<1>2. \A k \in 1 .. Len(t) : /\ t[k].at = "members"
                             /\ t[k].member = IF k = Len(t) THEN e ELSE t[k + 1].element
  BY DEF Chained
<1> HIDE DEF t
<1>3. m + 1 \in 1 .. Len(t)
  BY <1>1
<1>4. f.at = "members" /\ f.member = e
  BY <1>1, <1>2, <1>3
<1> HIDE DEF m
<1>5. ASSUME NEW k \in 1 .. m
      PROVE  s[k].at = "members" /\ s[k].member = IF k = m THEN f.element ELSE s[k + 1].element
  <2>1. k \in 1 .. Len(t) /\ k # Len(t) /\ t[k] = s[k]
    BY <1>1
  <2>2. s[k].at = "members" /\ s[k].member = t[k + 1].element
    BY <1>2, <2>1
  <2>3. CASE k = m
    BY <1>1, <2>2, <2>3
  <2>4. CASE k # m
    <3>1. k + 1 \in 1 .. m
      BY <1>1, <2>4
    <3>2. t[k + 1] = s[k + 1]
      BY <1>1, <3>1
    <3> QED BY <2>2, <2>4, <3>2
  <2> QED BY <2>3, <2>4
<1> QED BY <1>4, <1>5 DEF Chained, m

\* Which call is innermost after a step.
LEMMA OnTop ==
  ASSUME NEW s \in Seq(FrameType), NEW t \in FrameType, stack' = Append(s, t)
  PROVE  stack' # << >> /\ Front(stack') = s /\ Top' = t
<1>1. stack' \in Seq(FrameType) /\ stack' # << >> /\ Len(stack') = Len(s) + 1
      /\ stack'[Len(s) + 1] = t
  OBVIOUS
<1>2. Front(stack') \in Seq(FrameType) /\ stack' = Append(Front(stack'), stack'[Len(stack')])
  BY <1>1, TopAndBelow
<1>3. stack'[Len(stack')] = t
  BY <1>1
<1>4. Front(stack') = s
  BY <1>2, <1>3, AppendInjective
<1> QED BY <1>1, <1>3, <1>4 DEF Top

\* Where no byte says pointer, no value is one.
LEMMA NoPointerValue ==
  ASSUME MemInv, NoPointers, NEW o \in Nat, ~Invalid(o)
  PROVE  /\ TypeAt(o) # POINTER /\ NextAt(o) \in Nat /\ o < NextAt(o)
         /\ o + 1 <= data_section_size
<1>1. SectionOK
  BY MemoryIsSection
<1>2. o < data_section_size /\ NextAt(o) \in Nat /\ o < NextAt(o)
  BY <1>1, NextIsLater
<1>3. data_section_size \in Nat /\ section \in Seq(Byte)
  BY <1>1, SizeIsNat DEF SectionOK
<1>4. o + 1 \in DOMAIN section
  BY <1>2, <1>3 DEF data_section_size
<1>5. mem(o) \div 32 # POINTER
  BY <1>2, <1>4 DEF mem, NoPointers
<1>6. mem(o + 1) \in 0 .. 255
  BY <1>1, MemIsByte
<1>7. TypeAt(o) # POINTER
  BY <1>5, <1>6 DEF TypeAt, get_ext_type, POINTER
<1> QED BY <1>2, <1>3, <1>7

\* A call returns with its element ending at n.
LEMMA ReturnBound ==
  ASSUME NEW s \in Seq(FrameType), NEW t \in FrameType, Chained(s, t.element), NEW n,
         stack' = s, UNCHANGED <<items, root, section>>, data'[t.element].offset_to_next = n,
         root + Len(items) <= n, root + Len(items) <= data_section_size, Bound
  PROVE  BoundInv'
<1>1. Bound'
  BY DEF Bound, data_section_size
<1>2. ASSUME stack' # << >> PROVE Progress(Front(stack), Top)'
  <2>1. PICK u \in Seq(FrameType), r \in FrameType : s = Append(u, r)
    BY <1>2, TopAndBelow
  <2>2. Chained(u, r.element) /\ r.at = "members" /\ r.member = t.element
    BY <2>1, ChainPop
  <2>3. Front(stack') = u /\ Top' = r
    BY <2>1, OnTop
  <2>4. /\ root' + Len(items') <= data'[r.member].offset_to_next
        /\ root' + Len(items') <= data_section_size'
    BY <2>2 DEF data_section_size
  <2> QED BY <2>2, <2>3, <2>4 DEF Progress
<1> QED BY <1>1, <1>2 DEF BoundInv

\* A value without members.
LEMMA SimpleBound ==
  ASSUME MakeInv, BoundInv, NoPointers, SimpleValue, UNCHANGED memoryVars
  PROVE  BoundInv'
<1>1. New /\ ~Rejected /\ stage = "decode" /\ stack # << >>
  BY DEF SimpleValue, New
<1>2. MemInv /\ ListInv
  BY DEF MakeInv
<1>3. PICK s \in Seq(FrameType), t \in FrameType :
        /\ stack = Append(s, t) /\ Top = t /\ Front(stack) = s
        /\ IsNew(t, Range(items), items[Len(items)])
  BY <1>1, NewCall
<1>4. Bound /\ Progress(s, t)
  BY <1>1, <1>3 DEF BoundInv
<1>5. t.at = "new" /\ t.element \in Range(items) /\ t.offset \in Nat
  BY <1>3 DEF IsNew, FrameType
<1>6. ~Invalid(t.offset) /\ First = Decoded(data[t.element], t.offset)
      /\ data[t.element] \in EntryType
  BY <1>1, <1>2, <1>3, FirstAndSecond DEF Rejected, First
<1>7. First.offset_to_next = NextAt(t.offset)
  BY <1>2, <1>5, <1>6, DecodedEntry
<1>8. NextAt(t.offset) \in Nat /\ t.offset < NextAt(t.offset)
      /\ t.offset + 1 <= data_section_size
  BY <1>2, <1>5, <1>6, NoPointerValue
<1>9. /\ stack' = s /\ UNCHANGED <<items, root, section>>
      /\ data' = [data EXCEPT ![t.element] = First] /\ t.element \in DOMAIN data
  BY <1>2, <1>3, <1>5 DEF SimpleValue, Step, arenaVars, memoryVars, ListInv
<1>10. data'[t.element].offset_to_next = NextAt(t.offset)
  BY <1>7, <1>9
<1>11. root + Len(items) <= t.offset + 1 /\ Chained(s, t.element)
  BY <1>4, <1>5 DEF Progress
<1>12. root \in Nat /\ Len(items) \in Nat /\ data_section_size \in Nat
  BY <1>2, MemoryIsSection, SizeIsNat DEF ListInv
<1>13. root + Len(items) <= NextAt(t.offset) /\ root + Len(items) <= data_section_size
  BY <1>5, <1>8, <1>11, <1>12
<1> QED BY <1>4, <1>9, <1>10, <1>11, <1>13, ReturnBound

\* A map or array: its head alone is a byte.
LEMMA CompoundBound ==
  ASSUME MakeInv, BoundInv, NoPointers, CompoundValue, UNCHANGED memoryVars
  PROVE  BoundInv'
<1>1. New /\ ~Rejected /\ stage = "decode" /\ stack # << >>
  BY DEF CompoundValue, New
<1>2. MemInv /\ ListInv
  BY DEF MakeInv
<1>3. PICK s \in Seq(FrameType), t \in FrameType :
        /\ stack = Append(s, t) /\ Top = t /\ Front(stack) = s
        /\ \A f : Replaced(f) = Append(s, f)
        /\ IsNew(t, Range(items), items[Len(items)])
  BY <1>1, NewCall
<1>4. Bound /\ Progress(s, t)
  BY <1>1, <1>3 DEF BoundInv
<1>5. /\ t.at = "new" /\ t.element \in Range(items) /\ t.offset \in Nat
      /\ t.member = t.element
  BY <1>3 DEF IsNew, FrameType
<1>6. /\ ~Invalid(t.offset) /\ First = Decoded(data[t.element], t.offset)
      /\ data[t.element] \in EntryType /\ Members(First) \in Nat
  BY <1>1, <1>2, <1>3, FirstAndSecond DEF Rejected, First
<1>7. First.offset_to_next = NextAt(t.offset)
  BY <1>2, <1>5, <1>6, DecodedEntry
<1>8. NextAt(t.offset) \in Nat /\ t.offset < NextAt(t.offset)
      /\ t.offset + 1 <= data_section_size
  BY <1>2, <1>5, <1>6, NoPointerValue
<1> DEFINE f == [t EXCEPT !.at = "members", !.left = Members(First)]
<1>9. f \in FrameType /\ f.at = "members" /\ f.element = t.element /\ f.member = t.member
  BY <1>6 DEF FrameType
<1>10. Step(First, Append(s, f))
  BY <1>3 DEF CompoundValue
<1> HIDE DEF f
<1>11. /\ stack' = Append(s, f) /\ UNCHANGED <<items, root, section>>
       /\ data' = [data EXCEPT ![t.element] = First] /\ t.element \in DOMAIN data
  BY <1>2, <1>3, <1>5, <1>10 DEF Step, arenaVars, memoryVars, ListInv
<1>12. data'[f.member].offset_to_next = NextAt(t.offset)
  BY <1>5, <1>7, <1>9, <1>11
<1>13. root + Len(items) <= t.offset + 1 /\ Chained(s, f.element)
  BY <1>4, <1>5, <1>9 DEF Progress
<1>14. root \in Nat /\ Len(items) \in Nat /\ data_section_size \in Nat
  BY <1>2, MemoryIsSection, SizeIsNat DEF ListInv
<1>15. root + Len(items) <= NextAt(t.offset) /\ root + Len(items) <= data_section_size
  BY <1>5, <1>8, <1>13, <1>14
<1>16. Front(stack') = s /\ Top' = f
  BY <1>9, <1>11, OnTop
<1>17. Progress(Front(stack), Top)'
  BY <1>9, <1>11, <1>12, <1>13, <1>15, <1>16 DEF Progress, data_section_size
<1>18. Bound'
  BY <1>4, <1>11 DEF Bound, data_section_size
<1> QED BY <1>17, <1>18 DEF BoundInv

\* The members are all there.
LEMMA MembersBound ==
  ASSUME MakeInv, BoundInv, NoPointers, MembersReturn, UNCHANGED memoryVars
  PROVE  BoundInv'
<1>1. stage = "decode" /\ stack # << >> /\ Top.at = "members"
  BY DEF MembersReturn
<1>2. MemInv /\ ListInv
  BY DEF MakeInv
<1>3. PICK s \in Seq(FrameType), t \in FrameType :
        /\ stack = Append(s, t) /\ Top = t /\ Front(stack) = s
        /\ t.element \in Range(items)
  BY <1>1, <1>2, Unstacked
<1>4. Bound /\ Progress(s, t)
  BY <1>1, <1>3 DEF BoundInv
<1>5. Cursor = data[t.member].offset_to_next /\ data[t.element] \in EntryType /\ Cursor \in Nat
  BY <1>1, <1>2, <1>3, FirstAndSecond DEF Cursor
<1>6. /\ root + Len(items) <= Cursor /\ root + Len(items) <= data_section_size
      /\ Chained(s, t.element)
  BY <1>1, <1>3, <1>4, <1>5 DEF Progress
<1> DEFINE e == [data[t.element] EXCEPT !.offset_to_next = Cursor]
<1>7. e.offset_to_next = Cursor
  BY <1>5 DEF EntryType
<1>8. Step(e, s)
  BY <1>3 DEF MembersReturn
<1> HIDE DEF e
<1>9. /\ stack' = s /\ UNCHANGED <<items, root, section>>
      /\ data' = [data EXCEPT ![t.element] = e] /\ t.element \in DOMAIN data
  BY <1>2, <1>3, <1>8 DEF Step, arenaVars, memoryVars, ListInv
<1>10. data'[t.element].offset_to_next = Cursor
  BY <1>7, <1>9
<1> QED BY <1>4, <1>6, <1>9, <1>10, ReturnBound

\* The next member: it is the one element that may have no byte.
LEMMA NextMemberBound ==
  ASSUME MakeInv, BoundInv, NoPointers, stage = "decode", stack # << >>,
         Top.at = "members", Top.left > 0, UNCHANGED memoryVars,
         Alloc(Replaced([Top EXCEPT !.left = @ - 1, !.member = answer']), Cursor)
  PROVE  BoundInv'
<1>1. MemInv /\ ListInv
  BY DEF MakeInv
<1>2. PICK s \in Seq(FrameType), t \in FrameType :
        /\ stack = Append(s, t) /\ Top = t /\ Front(stack) = s
        /\ \A f : Replaced(f) = Append(s, f)
  BY <1>1, Unstacked
<1>3. Progress(s, t)
  BY <1>2 DEF BoundInv
<1>4. Cursor = data[t.member].offset_to_next /\ Cursor \in Nat
  BY <1>1, <1>2, FirstAndSecond DEF Cursor
<1>5. /\ root + Len(items) <= Cursor /\ root + Len(items) <= data_section_size
      /\ Chained(s, t.element)
  BY <1>2, <1>3, <1>4 DEF Progress
<1>6. PICK a \in Element : a = answer'
  BY DEF Alloc, HandOut
<1> DEFINE f == [t EXCEPT !.left = @ - 1, !.member = a]
           g == Frame(Cursor, a)
<1>7. f \in FrameType /\ f.at = "members" /\ f.element = t.element /\ f.member = a
  <2>1. t.left \in Nat /\ t.left > 0 /\ t.at = "members"
    BY <1>2 DEF FrameType
  <2>2. PICK n \in Nat : n = t.left - 1
    BY <2>1
  <2>3. f = [t EXCEPT !.left = n, !.member = a]
    BY <2>2
  <2> HIDE DEF f
  <2> QED BY <2>1, <2>3 DEF FrameType
<1>8. g \in FrameType /\ g.at = "new" /\ g.element = a /\ g.offset = Cursor
  BY <1>4 DEF Frame, FrameType
<1>9. Alloc(Append(s, f), Cursor)
  BY <1>2, <1>6
<1> HIDE DEF f
<1>10. stack' = Append(Append(s, f), g) /\ items' = Append(items, a) /\ UNCHANGED <<root, section>>
  BY <1>6, <1>9 DEF Alloc, HandOut, memoryVars
<1> HIDE DEF g
<1>11. Chained(Append(s, f), g.element)
  BY <1>5, <1>7, <1>8, ChainPush
<1>12. Append(s, f) \in Seq(FrameType)
  BY <1>7
<1>13. Front(stack') = Append(s, f) /\ Top' = g
  BY <1>8, <1>10, <1>12, OnTop
<1>14. root \in Nat /\ Len(items) \in Nat /\ data_section_size \in Nat
       /\ Len(items') = Len(items) + 1
  BY <1>1, <1>10, MemoryIsSection, SizeIsNat DEF ListInv
<1>15. root' + Len(items') <= g.offset + 1
  BY <1>4, <1>5, <1>8, <1>10, <1>14
<1>16. Progress(Front(stack), Top)'
  BY <1>8, <1>11, <1>13, <1>15 DEF Progress
<1>17. Bound'
  <2>1. data_section_size' = data_section_size /\ root' = root
    BY <1>10 DEF data_section_size
  <2>2. Len(items') <= 1 + (IF root < data_section_size THEN data_section_size - root ELSE 0)
    <3>1. CASE root < data_section_size
      BY <1>5, <1>14, <3>1
    <3>2. CASE ~(root < data_section_size)
      BY <1>5, <1>14, <3>2
    <3> QED BY <3>1, <3>2
  <2> QED BY <2>1, <2>2 DEF Bound
<1> QED BY <1>16, <1>17 DEF BoundInv

\* The first element: it is alone.
LEMMA FirstBound ==
  ASSUME MakeInv, stage = "alloc", Alloc(<< >>, root), UNCHANGED memoryVars
  PROVE  BoundInv'
<1>1. MemInv /\ ListInv /\ OwnInv
  BY DEF MakeInv
<1>2. items = << >> /\ root \in Nat /\ data_section_size \in Nat
  BY <1>1, MemoryIsSection, SizeIsNat DEF OwnInv, ListInv
<1>3. PICK a \in Element : a = answer'
  BY DEF Alloc, HandOut
<1> DEFINE g == Frame(root, a)
<1>4. g \in FrameType /\ g.at = "new" /\ g.offset = root
  BY <1>2 DEF Frame, FrameType
<1>5. stack' = Append(<< >>, g) /\ items' = Append(items, a) /\ UNCHANGED <<root, section>>
  BY <1>3 DEF Alloc, HandOut, memoryVars
<1> HIDE DEF g
<1>6. << >> \in Seq(FrameType) /\ Len(<< >>) = 0 /\ Len(items') = 1
  BY <1>2, <1>5
<1>7. Front(stack') = << >> /\ Top' = g
  BY <1>4, <1>5, <1>6, OnTop
<1>8. Chained(<< >>, g.element)
  BY <1>6 DEF Chained
<1>9. root' + Len(items') <= g.offset + 1
  BY <1>2, <1>4, <1>5, <1>6
<1>10. Progress(Front(stack), Top)'
  BY <1>4, <1>7, <1>8, <1>9 DEF Progress
<1>11. Bound'
  BY <1>2, <1>5, <1>6 DEF Bound, data_section_size
<1> QED BY <1>10, <1>11 DEF BoundInv

\* A list is begun or let go.
LEMMA EmptyBound ==
  ASSUME MakeInv', items' = << >>, stage' # "decode"
  PROVE  BoundInv'
<1>1. root' \in Nat
  BY DEF MakeInv, ListInv
<1>2. data_section_size' \in Nat
  <2>1. SectionOK'
    BY MemoryIsSection, PTL DEF MakeInv
  <2> QED BY <2>1 DEF SectionOK, data_section_size
<1>3. Len(items') = 0
  OBVIOUS
<1>4. \A r, n \in Nat : 0 <= 1 + (IF r < n THEN n - r ELSE 0)
  OBVIOUS
<1>5. 0 <= 1 + (IF root' < data_section_size' THEN data_section_size' - root' ELSE 0)
  BY <1>1, <1>2, <1>4
<1>6. Bound'
  BY <1>3, <1>5 DEF Bound
<1> QED BY <1>6 DEF BoundInv

\* Every step of the call.
LEMMA BoundHolds ==
  ASSUME MakeInv, BoundInv, MakeInv', ListStep, UNCHANGED <<memoryVars, dumpVars>>
  PROVE  BoundInv'
<1>1. UNCHANGED memoryVars /\ MemInv /\ ListInv
  BY DEF MakeInv
<1>2. CASE ~NoPointers
  BY <1>1, <1>2 DEF BoundInv, NoPointers, memoryVars
<1>3. CASE NoPointers
  <2>1. ASSUME UNCHANGED <<items, root>>, stage' # "decode" PROVE BoundInv'
    BY <1>1, <1>3, <2>1 DEF BoundInv, Bound, data_section_size, memoryVars
  <2>2. CASE RejectValue \/ AllocFails \/ Finish
    BY <2>1, <2>2 DEF RejectValue, AllocFails, Abort, Refuse, Finish, Link, arenaVars
  <2>3. CASE GiveUp
    BY <2>3, EmptyBound DEF GiveUp, Discard
  <2>4. CASE FirstElement
    BY <1>1, <2>2, <2>4, FirstBound DEF FirstElement
  <2>5. CASE NextMember
    BY <1>1, <1>3, <2>2, <2>5, NextMemberBound DEF NextMember
  <2>6. CASE PointerToSimple \/ PointerToCompound
    <3>1. New /\ ~Rejected /\ First.type = POINTER /\ stack # << >>
      BY <2>6 DEF PointerToSimple, PointerToCompound, New
    <3>2. ~Invalid(Top.offset) /\ Top.offset \in Nat /\ data[Top.element] \in EntryType
      BY <1>1, <3>1, FirstAndSecond DEF Rejected
    <3>3. First.type = TypeAt(Top.offset)
      BY <1>1, <3>2, DecodedEntry DEF First
    <3> QED BY <1>1, <1>3, <3>1, <3>2, <3>3, NoPointerValue
  <2>7. CASE PointerReturns
    BY <1>3, <2>7 DEF PointerReturns, BoundInv, Progress
  <2> QED BY <1>1, <1>3, <2>2, <2>3, <2>4, <2>5, <2>6, <2>7, SimpleBound, CompoundBound,
             MembersBound DEF ListStep
<1> QED BY <1>2, <1>3
-------------------------------------------------------------------------------
(***************************************************************************)
(* What a list says.  N is where the values of the elements will turn out  *)
(* to end.  A call that waits has a context: the element it works for,     *)
(* where that value ends, and what is to be listed after it.  E, P and H   *)
(* are EndOf, Preorder and Parts.                                          *)
(***************************************************************************)
Context == [element : Element, end : Nat, rest : Seq(ListItem)]

\* The call f at level k, with context c, waits for a call with context x.
Expects(E, P, N, f, k, c, x) ==
  /\ c.element = f.element
  /\ \/ /\ f.at = "members" /\ x.element = f.member /\ x.end = N[x.element]
        /\ c.end = E[<<x.end, f.left>>]
        /\ x.rest = P[<<x.end, f.left, MaxDepth - k>>] \o c.rest
     \/ /\ f.at = "pointer" /\ x.element = f.element
        /\ c.end = f.offset /\ x.rest = c.rest

Linked(E, P, N, s, x, X) ==
  /\ X \in [1 .. (Len(s) + 1) -> Context]
  /\ X[1].end = N[X[1].element] /\ X[1].rest = << >>
  /\ X[Len(s) + 1] = x
  /\ \A k \in 1 .. Len(s) : Expects(E, P, N, s[k], k, X[k], X[k + 1])

\* The calls s wait for one with context x.
Await(E, P, N, s, x) == \E X : Linked(E, P, N, s, x, X)

\* One call more waits.
LEMMA AwaitPush ==
  ASSUME NEW E, NEW P, NEW N, NEW s \in Seq(FrameType), NEW c, Await(E, P, N, s, c),
         NEW f \in FrameType, NEW x \in Context, Expects(E, P, N, f, Len(s) + 1, c, x)
  PROVE  Await(E, P, N, Append(s, f), x)
<1>1. PICK X : Linked(E, P, N, s, c, X)
  BY DEF Await
<1> DEFINE m == Len(s)
           t == Append(s, f)
           Y == [k \in 1 .. (m + 2) |-> IF k = m + 2 THEN x ELSE X[k]]
<1>2. m \in Nat /\ Len(t) = m + 1 /\ t[m + 1] = f /\ \A k \in 1 .. m : t[k] = s[k]
  OBVIOUS
<1>3. /\ X \in [1 .. (m + 1) -> Context] /\ X[1].end = N[X[1].element] /\ X[1].rest = << >>
      /\ X[m + 1] = c /\ \A k \in 1 .. m : Expects(E, P, N, s[k], k, X[k], X[k + 1])
  BY <1>1 DEF Linked
<1>4. Expects(E, P, N, f, m + 1, c, x)
  OBVIOUS
<1> HIDE DEF m, t
<1>5. /\ Y \in [1 .. (m + 2) -> Context] /\ Y[m + 2] = x
      /\ \A k \in 1 .. (m + 1) : Y[k] = X[k]
  BY <1>2, <1>3
<1> HIDE DEF Y
<1>6. Y[1] = X[1] /\ m + 2 = (m + 1) + 1
  BY <1>2, <1>5
<1>7. ASSUME NEW k \in 1 .. (m + 1) PROVE Expects(E, P, N, t[k], k, Y[k], Y[k + 1])
  <2>1. CASE k \in 1 .. m
    <3>1. k + 1 \in 1 .. (m + 1) /\ k \in 1 .. (m + 1)
      BY <1>2, <2>1
    <3>2. Y[k] = X[k] /\ Y[k + 1] = X[k + 1] /\ t[k] = s[k]
      BY <1>2, <1>5, <2>1, <3>1
    <3> QED BY <1>3, <2>1, <3>2
  <2>2. CASE k = m + 1
    <3>1. Y[k] = c /\ Y[k + 1] = x /\ t[k] = f
      BY <1>2, <1>3, <1>5, <1>6, <2>2
    <3> QED BY <1>4, <2>2, <3>1
  <2> QED BY <1>2, <2>1, <2>2
<1>8. Linked(E, P, N, t, x, Y)
  BY <1>2, <1>3, <1>5, <1>6, <1>7 DEF Linked
<1> QED BY <1>8 DEF Await, t

\* The call on top and its context.
LEMMA AwaitPop ==
  ASSUME NEW E, NEW P, NEW N, NEW s \in Seq(FrameType), NEW f \in FrameType, NEW x,
         Await(E, P, N, Append(s, f), x)
  PROVE  \E c \in Context : Await(E, P, N, s, c) /\ Expects(E, P, N, f, Len(s) + 1, c, x)
<1>1. PICK X : Linked(E, P, N, Append(s, f), x, X)
  BY DEF Await
<1> DEFINE m == Len(s)
           t == Append(s, f)
           Y == [k \in 1 .. (m + 1) |-> X[k]]
<1>2. m \in Nat /\ Len(t) = m + 1 /\ t[m + 1] = f /\ \A k \in 1 .. m : t[k] = s[k]
  OBVIOUS
<1>3. /\ X \in [1 .. (m + 2) -> Context] /\ X[1].end = N[X[1].element] /\ X[1].rest = << >>
      /\ X[m + 2] = x /\ \A k \in 1 .. (m + 1) : Expects(E, P, N, t[k], k, X[k], X[k + 1])
  <2>1. (m + 1) + 1 = m + 2
    BY <1>2
  <2> HIDE DEF m
  <2> QED BY <1>1, <1>2, <2>1 DEF Linked
<1> HIDE DEF m, t
<1>4. m + 1 \in 1 .. (m + 1) /\ (m + 1) + 1 = m + 2 /\ m + 1 \in 1 .. (m + 2)
  BY <1>2
<1>5. X[m + 1] \in Context /\ Expects(E, P, N, f, m + 1, X[m + 1], x)
  BY <1>2, <1>3, <1>4
<1>6. Y \in [1 .. (m + 1) -> Context] /\ \A k \in 1 .. (m + 1) : Y[k] = X[k]
  BY <1>2, <1>3
<1> HIDE DEF Y
<1>7. Y[1] = X[1] /\ Y[m + 1] = X[m + 1]
  BY <1>2, <1>4, <1>6
<1>8. ASSUME NEW k \in 1 .. m PROVE Expects(E, P, N, s[k], k, Y[k], Y[k + 1])
  <2>1. k \in 1 .. (m + 1) /\ k + 1 \in 1 .. (m + 1)
    BY <1>2
  <2>2. Y[k] = X[k] /\ Y[k + 1] = X[k + 1] /\ t[k] = s[k]
    BY <1>2, <1>6, <2>1
  <2> QED BY <1>3, <2>1, <2>2
<1>9. Linked(E, P, N, s, X[m + 1], Y)
  BY <1>3, <1>6, <1>7, <1>8 DEF Linked, m
<1> QED BY <1>5, <1>9 DEF Await, m

\* The call that no other waits for.
LEMMA AwaitNone ==
  ASSUME NEW E, NEW P, NEW N, NEW x
  PROVE  /\ Await(E, P, N, << >>, x) => x.end = N[x.element] /\ x.rest = << >>
         /\ x \in Context /\ x.end = N[x.element] /\ x.rest = << >> =>
              Await(E, P, N, << >>, x)
<1>1. Len(<< >>) = 0 /\ 0 + 1 = 1
  OBVIOUS
<1>2. ASSUME Await(E, P, N, << >>, x) PROVE x.end = N[x.element] /\ x.rest = << >>
  BY <1>1, <1>2 DEF Await, Linked
<1>3. ASSUME x \in Context, x.end = N[x.element], x.rest = << >> PROVE Await(E, P, N, << >>, x)
  <2> DEFINE X == [k \in 1 .. 1 |-> x]
  <2>1. X \in [1 .. 1 -> Context] /\ X[1] = x
    BY <1>3
  <2> HIDE DEF X
  <2>2. Linked(E, P, N, << >>, x, X)
    BY <1>1, <1>3, <2>1 DEF Linked
  <2> QED BY <2>2 DEF Await
<1> QED BY <1>2, <1>3

\* New elements do not matter to calls that wait.
LEMMA AwaitGrows ==
  ASSUME NEW E, NEW P, NEW N, NEW M, NEW I, \A e \in I : M[e] = N[e],
         NEW s, Settled(s, I), NEW x, x.element \in I, Await(E, P, N, s, x)
  PROVE  Await(E, P, M, s, x)
<1>1. PICK X : Linked(E, P, N, s, x, X)
  BY DEF Await
<1>2. Len(s) \in Nat /\ \A k \in 1 .. Len(s) : s[k].element \in I /\ s[k].member \in I
  BY DEF Settled, Waits
<1>3. X[1].element \in I
  <2>1. CASE Len(s) = 0
    BY <1>1, <2>1 DEF Linked
  <2>2. CASE Len(s) # 0
    <3>1. 1 \in 1 .. Len(s)
      BY <1>2, <2>2
    <3>2. X[1].element = s[1].element
      BY <1>1, <3>1 DEF Linked, Expects
    <3> QED BY <1>2, <3>1, <3>2
  <2> QED BY <2>1, <2>2
<1>4. ASSUME NEW k \in 1 .. Len(s) PROVE Expects(E, P, M, s[k], k, X[k], X[k + 1])
  <2>1. Expects(E, P, N, s[k], k, X[k], X[k + 1])
    BY <1>1 DEF Linked
  <2>2. X[k + 1].element = s[k].member => M[X[k + 1].element] = N[X[k + 1].element]
    BY <1>2
  <2> QED BY <2>1, <2>2 DEF Expects
<1>5. Linked(E, P, M, s, x, X)
  BY <1>1, <1>3, <1>4 DEF Linked
<1> QED BY <1>5 DEF Await

\* What the innermost call t, with context c and the calls s below it, has still to
\* list, and what comes after it.
Goes(E, P, H, N, d, s, t, c, r) ==
  \/ /\ t.at = "new" /\ c.end = E[<<t.offset, 1>>]
     /\ r = H[<<t.offset, MaxDepth - Len(s), N[t.element]>>] \o c.rest
  \/ /\ t.at = "members" /\ c.end = E[<<d[t.member].offset_to_next, t.left>>]
     /\ r = P[<<d[t.member].offset_to_next, t.left, MaxDepth - (Len(s) + 1)>>] \o c.rest
  \/ t.at = "pointer" /\ c.end = t.offset /\ r = c.rest

Remains(E, P, H, N, d, s, r) ==
  \/ s = << >> /\ r = << >>
  \/ \E u \in Seq(FrameType), t \in FrameType, c \in Context :
       /\ s = Append(u, t) /\ Await(E, P, N, u, c) /\ c.element = t.element
       /\ Goes(E, P, H, N, d, u, t, c, r)

\* What the first n elements say, once all calls have returned.
Stated(its, d, N, n) ==
  [k \in 1 .. n |-> [offset |-> d[its[k]].offset, type |-> d[its[k]].type,
                     offset_to_next |-> N[its[k]]]]

\* The elements that no call works for say it already.
Told(N, s, its, d) ==
  \A e \in Range(its) : (\A k \in 1 .. Len(s) : s[k].element # e) =>
    d[e].offset_to_next = N[e]

\* What is listed, and what is still to be listed, is what the format prescribes, W.
Ordered(E, P, H, W, N, s, its, d) ==
  /\ N \in [Range(its) -> Nat] /\ Told(N, s, its, d)
  /\ Readable(Stated(its, d, N, Len(its) - PendingIn(s)))
  /\ \E r \in Seq(ListItem) : /\ Remains(E, P, H, N, d, s, r)
                              /\ Same(W, Stated(its, d, N, Len(its) - PendingIn(s)) \o r)

OrderInv ==
  stage = "decode" =>
    \E N : Ordered(EndOf, Preorder, Parts, Preorder[<<root, 1, MaxDepth>>], N,
                   stack, items, data)

\* A value has been read to its end: what is left to list comes after it.
LEMMA Resumed ==
  ASSUME NEW E, NEW P, NEW H, NEW N, NEW d, NEW s \in Seq(FrameType), NEW c \in Context,
         Await(E, P, N, s, c), d[c.element].offset_to_next = c.end
  PROVE  Remains(E, P, H, N, d, s, c.rest)
<1>1. CASE s = << >>
  BY <1>1, AwaitNone DEF Remains
<1>2. CASE s # << >>
  <2>1. PICK u \in Seq(FrameType), f \in FrameType : s = Append(u, f)
    BY <1>2, TopAndBelow
  <2>2. PICK b \in Context : Await(E, P, N, u, b) /\ Expects(E, P, N, f, Len(u) + 1, b, c)
    BY <2>1, AwaitPop
  <2>3. b.element = f.element
    BY <2>2 DEF Expects
  <2>4. Goes(E, P, H, N, d, u, f, b, c.rest)
    BY <2>2 DEF Expects, Goes
  <2> QED BY <2>1, <2>2, <2>3, <2>4 DEF Remains
<1> QED BY <1>1, <1>2

\* No call works for its element any more, or one that waits for a pointer's target.
LEMMA EndIsFinal ==
  ASSUME NEW E, NEW P, NEW N, NEW s \in Seq(FrameType), NEW c \in Context,
         Await(E, P, N, s, c), \A k \in 1 .. Len(s) : s[k].element # c.element
  PROVE  c.end = N[c.element]
<1>1. CASE s = << >>
  BY <1>1, AwaitNone
<1>2. CASE s # << >>
  <2>1. PICK u \in Seq(FrameType), f \in FrameType : s = Append(u, f)
    BY <1>2, TopAndBelow
  <2>2. PICK b \in Context : Expects(E, P, N, f, Len(u) + 1, b, c)
    BY <2>1, AwaitPop
  <2>3. Len(s) \in 1 .. Len(s) /\ s[Len(s)] = f
    BY <2>1
  <2> QED BY <2>2, <2>3 DEF Expects
<1> QED BY <1>1, <1>2

\* The statements.
LEMMA StatedType ==
  ASSUME NEW its \in Seq(Element), NEW d \in [Range(its) -> EntryType],
         NEW N \in [Range(its) -> Nat], NEW n \in 0 .. Len(its)
  PROVE  /\ Stated(its, d, N, n) \in Seq(ListItem)
         /\ Len(Stated(its, d, N, n)) = n
<1>1. Len(its) \in Nat /\ DOMAIN its = 1 .. Len(its) /\ n \in Nat
  OBVIOUS
<1>2. \A k \in 1 .. n : its[k] \in Range(its)
  BY <1>1 DEF Range
<1>3. \A k \in 1 .. n : [offset |-> d[its[k]].offset, type |-> d[its[k]].type,
                         offset_to_next |-> N[its[k]]] \in ListItem
  <2>1. TAKE k \in 1 .. n
  <2>2. d[its[k]] \in EntryType /\ N[its[k]] \in Nat
    BY <1>2
  <2> QED BY <2>2 DEF EntryType, ListItem
<1>4. Stated(its, d, N, n) \in [1 .. n -> ListItem]
  BY <1>3 DEF Stated
<1> HIDE DEF Stated
<1> QED BY <1>1, <1>4

\* One more.
LEMMA StatedMore ==
  ASSUME NEW its \in Seq(Element), NEW d \in [Range(its) -> EntryType],
         NEW N \in [Range(its) -> Nat], NEW n \in Nat, n + 1 <= Len(its)
  PROVE  Stated(its, d, N, n + 1) =
           Stated(its, d, N, n) \o <<[offset |-> d[its[n + 1]].offset,
                                      type |-> d[its[n + 1]].type,
                                      offset_to_next |-> N[its[n + 1]]]>>
<1> DEFINE a == Stated(its, d, N, n)
           i == [offset |-> d[its[n + 1]].offset, type |-> d[its[n + 1]].type,
                 offset_to_next |-> N[its[n + 1]]]
           b == Stated(its, d, N, n + 1)
<1>1. n \in 0 .. Len(its) /\ n + 1 \in 0 .. Len(its) /\ Len(its) \in Nat
  OBVIOUS
<1>2. a \in Seq(ListItem) /\ Len(a) = n /\ b \in Seq(ListItem) /\ Len(b) = n + 1
  BY <1>1, StatedType
<1>3. b[n + 1] = i /\ \A k \in 1 .. n : b[k] = a[k]
  BY DEF Stated
<1> HIDE DEF a, b, i
<1>4. Len(a \o <<i>>) = n + 1 /\ (a \o <<i>>)[n + 1] = i
      /\ \A k \in 1 .. n : (a \o <<i>>)[k] = a[k]
  BY <1>2
<1>5. DOMAIN b = 1 .. (n + 1) /\ DOMAIN (a \o <<i>>) = 1 .. (n + 1)
  BY <1>2, <1>4
<1>6. \A k \in 1 .. (n + 1) : k \in 1 .. n \/ k = n + 1
  OBVIOUS
<1>7. \A k \in 1 .. (n + 1) : b[k] = (a \o <<i>>)[k]
  BY <1>3, <1>4, <1>6
<1>8. b = a \o <<i>>
  <2>1. i = b[n + 1] /\ n + 1 \in DOMAIN b
    BY <1>3, <1>5
  <2>2. i \in ListItem
    BY <1>2, <2>1
  <2>3. a \o <<i>> \in Seq(ListItem)
    BY <1>2, <2>2
  <2> QED BY <1>2, <1>4, <1>5, <1>7, <2>3, SeqEqual
<1> QED BY <1>8 DEF a, b, i

\* What decode_one makes of a value that it accepts.
LEMMA DecodedValue ==
  ASSUME MemInv, NEW o \in Nat, NEW e \in EntryType, ~Invalid(o)
  PROVE  /\ Decoded(e, o).offset = o /\ Decoded(e, o).type = TypeAt(o)
         /\ Decoded(e, o).offset_to_next = NextAt(o)
         /\ PointsAway(o) => Decoded(e, o).pointer = Resolved(o)
         /\ TypeAt(o) \in Compound => /\ Decoded(e, o).data_size = SizeAt(o)
                                      /\ Members(Decoded(e, o)) = MembersAt(o)
         /\ TypeAt(o) \in {UTF8_STRING, BYTES} => /\ Decoded(e, o).data_size = SizeAt(o)
                                                  /\ Decoded(e, o).bytes = BodyStart(o)
<1>1. ~HeadPast(o) /\ ~ExtendedPast(o)
  BY DEF Invalid
<1>2. Decoded(e, o) = Filled(e, o)
  BY <1>1 DEF Decoded
<1>3. Filled(e, o).offset = o /\ Filled(e, o).type = TypeAt(o)
      /\ Filled(e, o).offset_to_next = NextAt(o)
  BY DEF Filled
<1>4. PointsAway(o) => Filled(e, o).pointer = Resolved(o)
  BY DEF Filled, PointsAway, Resolved
<1>5. TypeAt(o) \in Compound \cup {UTF8_STRING, BYTES} => Filled(e, o).data_size = SizeAt(o)
  BY DEF Filled, DataSizeAt, Compound, MAP, ARRAY, POINTER, UTF8_STRING, BYTES
<1>6. TypeAt(o) \in {UTF8_STRING, BYTES} => Filled(e, o).bytes = BodyStart(o)
  BY DEF Filled
<1>7. TypeAt(o) \in Compound => Members(Filled(e, o)) = MembersAt(o)
  BY <1>3, <1>5 DEF Members, MembersAt, Compound, MAP, ARRAY
<1> QED BY <1>2, <1>3, <1>4, <1>5, <1>6, <1>7

\* The innermost call's context.
LEMMA TopContext ==
  ASSUME NEW E, NEW P, NEW H, NEW N, NEW d, NEW s \in Seq(FrameType), NEW t \in FrameType,
         NEW r, Remains(E, P, H, N, d, Append(s, t), r)
  PROVE  \E c \in Context : /\ Await(E, P, N, s, c) /\ c.element = t.element
                            /\ Goes(E, P, H, N, d, s, t, c, r)
<1>1. Append(s, t) # << >>
  <2>1. Len(Append(s, t)) = Len(s) + 1 /\ Len(s) \in Nat
    OBVIOUS
  <2> QED BY <2>1
<1>2. PICK u \in Seq(FrameType), v \in FrameType, c \in Context :
        /\ Append(s, t) = Append(u, v) /\ Await(E, P, N, u, c) /\ c.element = v.element
        /\ Goes(E, P, H, N, d, u, v, c, r)
  BY <1>1 DEF Remains
<1>3. u = s /\ v = t
  BY <1>2, AppendInjective
<1> QED BY <1>2, <1>3

\* The innermost call returns, its value being read to the end.
LEMMA ReturnOrder ==
  ASSUME NEW E, NEW P, NEW H, NEW W, NEW its \in Seq(Element),
         NEW d \in [Range(its) -> EntryType], NEW N \in [Range(its) -> Nat],
         NEW s, Settled(s, Range(its)), NEW t \in FrameType, t.element \in Range(its),
         Told(N, Append(s, t), its, d), NEW c \in Context, Await(E, P, N, s, c),
         c.element = t.element, NEW e \in EntryType, e.offset_to_next = c.end,
         NEW b \in [Range(its) -> EntryType], b[t.element] = e,
         \A x \in Range(its) : x # t.element => b[x] = d[x],
         Readable(Stated(its, b, N, Len(its))), Same(W, Stated(its, b, N, Len(its)) \o c.rest)
  PROVE  Ordered(E, P, H, W, N, s, its, b)
<1>1. s \in Seq(FrameType) /\ PendingIn(s) = 0 /\ Len(its) \in Nat
  <2>1. PendingIn(s) = 0
    BY PendingOfSettled
  <2>2. s \in Seq(FrameType)
    BY DEF Settled
  <2> QED BY <2>1, <2>2
<1>2. (\A k \in 1 .. Len(s) : s[k].element # c.element) => c.end = N[c.element]
  BY <1>1, EndIsFinal
<1>3. Remains(E, P, H, N, b, s, c.rest)
  <2>1. b[c.element].offset_to_next = c.end
    OBVIOUS
  <2> QED BY <1>1, <2>1, Resumed
<1>4. Told(N, s, its, b)
  <2> SUFFICES ASSUME NEW x \in Range(its), \A k \in 1 .. Len(s) : s[k].element # x
               PROVE  b[x].offset_to_next = N[x]
    BY DEF Told
  <2>1. CASE x = t.element
    BY <1>2, <2>1
  <2>2. CASE x # t.element
    <3> DEFINE q == Append(s, t)
    <3>1. Len(q) = Len(s) + 1 /\ Len(s) \in Nat /\ q[Len(s) + 1] = t
          /\ \A k \in 1 .. Len(s) : q[k] = s[k]
      BY <1>1
    <3> HIDE DEF q
    <3>2. \A k \in 1 .. Len(q) : k = Len(s) + 1 \/ k \in 1 .. Len(s)
      BY <3>1
    <3>3. \A k \in 1 .. Len(q) : q[k].element # x
      BY <2>2, <3>1, <3>2
    <3>4. d[x].offset_to_next = N[x]
      BY <3>3 DEF Told, q
    <3> QED BY <2>2, <3>4
  <2> QED BY <2>1, <2>2
<1>5. Len(its) - PendingIn(s) = Len(its) /\ c.rest \in Seq(ListItem)
  BY <1>1 DEF Context
<1> QED BY <1>3, <1>4, <1>5 DEF Ordered

\* The element handed out last gets its value.
LEMMA StatedLast ==
  ASSUME NEW its \in Seq(Element), \A j, k \in 1 .. Len(its) : its[j] = its[k] => j = k,
         its # << >>, NEW d \in [Range(its) -> EntryType], NEW N \in [Range(its) -> Nat],
         NEW e \in EntryType, e.type # EXTENDED,
         NEW b \in [Range(its) -> EntryType], b[its[Len(its)]] = e,
         \A x \in Range(its) : x # its[Len(its)] => b[x] = d[x],
         Readable(Stated(its, d, N, Len(its) - 1))
  PROVE  LET i == [offset |-> e.offset, type |-> e.type, offset_to_next |-> N[its[Len(its)]]]
         IN /\ i \in ListItem
            /\ Stated(its, b, N, Len(its)) = Stated(its, d, N, Len(its) - 1) \o <<i>>
            /\ Stated(its, d, N, Len(its) - 1) \in Seq(ListItem)
            /\ Readable(Stated(its, b, N, Len(its)))
<1> DEFINE n == Len(its) - 1
           i == [offset |-> e.offset, type |-> e.type, offset_to_next |-> N[its[Len(its)]]]
<1>1. n \in Nat /\ n + 1 = Len(its) /\ Len(its) \in 1 .. Len(its) /\ n \in 0 .. Len(its)
  OBVIOUS
<1>2. its[Len(its)] \in Range(its)
  BY <1>1 DEF Range
<1> HIDE DEF n
<1>4. \A k \in 1 .. n : its[k] \in Range(its) /\ its[k] # its[Len(its)]
  <2>1. TAKE k \in 1 .. n
  <2>2. k \in 1 .. Len(its) /\ k # Len(its)
    BY <1>1
  <2>3. its[k] # its[Len(its)]
    BY <1>1, <2>2
  <2>4. its[k] \in Range(its)
    BY <2>2 DEF Range
  <2> QED BY <2>3, <2>4
<1>5. \A k \in 1 .. n : b[its[k]] = d[its[k]]
  BY <1>4
<1>6. Stated(its, b, N, n) = Stated(its, d, N, n)
  BY <1>5 DEF Stated
<1>7. Stated(its, b, N, n + 1) = Stated(its, b, N, n) \o
        <<[offset |-> b[its[n + 1]].offset, type |-> b[its[n + 1]].type,
           offset_to_next |-> N[its[n + 1]]]>>
  <2>1. n \in Nat /\ n + 1 <= Len(its)
    BY <1>1
  <2> QED BY <2>1, StatedMore
<1>8. Stated(its, b, N, Len(its)) = Stated(its, d, N, n) \o <<i>>
  BY <1>1, <1>6, <1>7
<1>9. i \in ListItem /\ i # Unreadable
  <2>1. N[its[Len(its)]] \in Nat
    BY <1>2
  <2>2. i \in ListItem /\ i.type = e.type
    BY <2>1 DEF EntryType, ListItem
  <2> QED BY <2>2 DEF Unreadable
<1>10. Stated(its, d, N, n) \in Seq(ListItem)
  BY <1>1, StatedType
<1> HIDE DEF i
<1>11. <<i>> \in Seq(ListItem) /\ Readable(<<i>>)
  BY <1>9 DEF Readable
<1>12. Readable(Stated(its, d, N, n) \o <<i>>)
  BY <1>10, <1>11, ReadableConcat DEF n
<1> QED BY <1>8, <1>9, <1>10, <1>12 DEF n, i

\* What holds of the next state's stack, elements and entry data.
LEMMA OrderNext ==
  ASSUME MemInv, UNCHANGED memoryVars, root' = root, NEW N,
         Ordered(EndOf, Preorder, Parts, Preorder[<<root, 1, MaxDepth>>], N,
                 stack', items', data')
  PROVE  OrderInv'
<1>1. EndOf' = EndOf /\ Preorder' = Preorder /\ Parts' = Parts
  BY MemoryIsSection, FormatUnchanged
<1>2. Preorder'[<<root', 1, MaxDepth>>] = Preorder[<<root, 1, MaxDepth>>]
  BY <1>1
<1>3. Ordered(EndOf', Preorder', Parts', Preorder'[<<root', 1, MaxDepth>>], N,
              stack', items', data')
  BY <1>1, <1>2
<1> QED BY <1>3 DEF OrderInv, MaxDepth

Whole == Preorder[<<root, 1, MaxDepth>>]

\* What a step that allocates nothing does.
LEMMA StepData ==
  ASSUME ListInv, stack # << >>, NEW e \in EntryType, NEW q, Step(e, q)
  PROVE  /\ items' = items /\ stack' = q /\ root' = root /\ stage' = stage
         /\ Top.element \in Range(items) /\ data' \in [Range(items) -> EntryType]
         /\ data'[Top.element] = e
         /\ \A x \in Range(items) : x # Top.element => data'[x] = data[x]
<1>1. /\ data' = [data EXCEPT ![Top.element] = e] /\ stack' = q
      /\ UNCHANGED <<stage, root, items>>
  BY DEF Step, arenaVars
<1>2. Top.element \in Range(items)
  BY Unstacked
<1>3. data \in [Range(items) -> EntryType]
  BY DEF ListInv
<1> QED BY <1>1, <1>2, <1>3

\* The innermost call t of the new state, the calls s below it, where the values
\* will end, N, and the context c that t was called in.
Called(s, t, N, c) ==
  /\ stack = Append(s, t) /\ Top = t /\ Front(stack) = s
  /\ \A f : Replaced(f) = Append(s, f)
  /\ Settled(s, Range(items)) /\ MaxDepth - Len(s) \in Nat
  /\ ~Rejected => MaxDepth - Len(s) # 0
  /\ t.at = "new" /\ t.element = items[Len(items)] /\ t.element \in Range(items)
  /\ t.member = t.element /\ t.offset \in Nat /\ N[t.element] \in Nat
  /\ Told(N, Append(s, t), items, data)
  /\ Readable(Stated(items, data, N, Len(items) - 1))
  /\ Await(EndOf, Preorder, N, s, c) /\ c.element = t.element
  /\ c.end = EndAt(t.offset)
  /\ Same(Whole, Stated(items, data, N, Len(items) - 1)
                   \o (Part(t.offset, MaxDepth - Len(s), N[t.element]) \o c.rest))

\* A new call, and what is to be listed.
LEMMA NewOrder ==
  ASSUME MakeInv, OrderInv, New
  PROVE  \E s \in Seq(FrameType), t \in FrameType, N \in [Range(items) -> Nat], c \in Context :
           Called(s, t, N, c)
<1>1. PICK s \in Seq(FrameType), t \in FrameType :
        /\ stack = Append(s, t) /\ Top = t /\ Front(stack) = s
        /\ \A f : Replaced(f) = Append(s, f)
        /\ Settled(s, Range(items)) /\ Len(s) <= MaxDepth
        /\ IsNew(t, Range(items), items[Len(items)])
        /\ ~Rejected => Len(s) + 1 <= MaxDepth
  BY NewCall
<1>2. /\ t.at = "new" /\ t.element = items[Len(items)] /\ t.element \in Range(items)
      /\ t.member = t.element /\ t.offset \in Nat
  BY <1>1 DEF IsNew, FrameType
<1>3. MaxDepth - Len(s) \in Nat /\ (~Rejected => MaxDepth - Len(s) # 0)
  <2>1. Len(s) \in Nat /\ MaxDepth \in Nat
    BY SectionAssumption DEF MaxDepth
  <2> QED BY <1>1, <2>1
<1>4. PICK N : Ordered(EndOf, Preorder, Parts, Whole, N, stack, items, data)
  BY DEF OrderInv, New, Whole
<1>5. PendingIn(stack) = 1
  BY <1>1, <1>2, PendingOfTop
<1>6. /\ N \in [Range(items) -> Nat] /\ Told(N, stack, items, data)
      /\ Readable(Stated(items, data, N, Len(items) - 1))
  BY <1>4, <1>5 DEF Ordered
<1>7. PICK r \in Seq(ListItem) :
        /\ Remains(EndOf, Preorder, Parts, N, data, Append(s, t), r)
        /\ Same(Whole, Stated(items, data, N, Len(items) - 1) \o r)
  BY <1>1, <1>4, <1>5 DEF Ordered
<1>8. PICK c \in Context :
        /\ Await(EndOf, Preorder, N, s, c) /\ c.element = t.element
        /\ Goes(EndOf, Preorder, Parts, N, data, s, t, c, r)
  BY <1>7, TopContext
<1>9. /\ c.end = EndAt(t.offset)
      /\ r = Parts[<<t.offset, MaxDepth - Len(s), N[t.element]>>] \o c.rest
  BY <1>2, <1>8 DEF Goes, EndAt
<1>10. N[t.element] \in Nat
  BY <1>2, <1>6
<1>11. r = Part(t.offset, MaxDepth - Len(s), N[t.element]) \o c.rest
  <2>1. Parts[<<t.offset, MaxDepth - Len(s), N[t.element]>>] =
          Part(t.offset, MaxDepth - Len(s), N[t.element])
    BY <1>2, <1>3, <1>10, MemoryIsSection, PartType DEF MakeInv
  <2> QED BY <1>9, <2>1
<1>12. Same(Whole, Stated(items, data, N, Len(items) - 1)
                     \o (Part(t.offset, MaxDepth - Len(s), N[t.element]) \o c.rest))
  BY <1>7, <1>11
<1>13. Called(s, t, N, c)
  BY <1>1, <1>2, <1>3, <1>6, <1>8, <1>9, <1>10, <1>12 DEF Called
<1> QED BY <1>6, <1>13

\* Sequences may be joined in any order.
LEMMA Grouped ==
  ASSUME NEW a \in Seq(ListItem), NEW b \in Seq(ListItem), NEW c \in Seq(ListItem)
  PROVE  (a \o b) \o c = a \o (b \o c)
OBVIOUS

\* A value of which only the head is listed so far: what comes after the head.
LEMMA HeadListed ==
  ASSUME MakeInv, stage = "decode", NEW N \in [Range(items) -> Nat], NEW e \in EntryType,
         e.type # EXTENDED,
         NEW b \in [Range(items) -> EntryType], b[items[Len(items)]] = e,
         \A x \in Range(items) : x # items[Len(items)] => b[x] = data[x],
         Readable(Stated(items, data, N, Len(items) - 1)), NEW W,
         NEW x \in Seq(ListItem), NEW y \in Seq(ListItem),
         Same(W, Stated(items, data, N, Len(items) - 1) \o
                   ((<<[offset |-> e.offset, type |-> e.type,
                        offset_to_next |-> N[items[Len(items)]]]>> \o x) \o y))
  PROVE  /\ Readable(Stated(items, b, N, Len(items)))
         /\ Same(W, Stated(items, b, N, Len(items)) \o (x \o y))
<1> DEFINE i == [offset |-> e.offset, type |-> e.type, offset_to_next |-> N[items[Len(items)]]]
           S == Stated(items, data, N, Len(items) - 1)
           R == Stated(items, b, N, Len(items))
<1>1. /\ items \in Seq(Element) /\ \A j, k \in 1 .. Len(items) : items[j] = items[k] => j = k
      /\ data \in [Range(items) -> EntryType] /\ items # << >>
  BY DEF MakeInv, ListInv, OwnInv
<1>2. i \in ListItem /\ R = S \o <<i>> /\ S \in Seq(ListItem) /\ Readable(R)
  BY <1>1, StatedLast
<1> HIDE DEF i, S, R
<1>3. S \o ((<<i>> \o x) \o y) = (S \o <<i>>) \o (x \o y)
  <2>1. <<i>> \in Seq(ListItem)
    BY <1>2
  <2> DEFINE j == <<i>>
  <2> HIDE DEF j
  <2>2. j \in Seq(ListItem)
    BY <2>1 DEF j
  <2>3. (j \o x) \o y = j \o (x \o y)
    BY <2>2, Grouped
  <2>4. x \o y \in Seq(ListItem)
    OBVIOUS
  <2>5. (S \o j) \o (x \o y) = S \o (j \o (x \o y))
    <3>1. \A z \in Seq(ListItem) : (S \o j) \o z = S \o (j \o z)
      BY <1>2, <2>2, Grouped
    <3> QED BY <2>4, <3>1
  <2> QED BY <2>3, <2>5 DEF j
<1>4. Same(W, S \o ((<<i>> \o x) \o y))
  BY DEF S, i
<1> QED BY <1>2, <1>3, <1>4 DEF R

\* What a new call decodes, and when there is nothing to decode.
LEMMA NewValue ==
  ASSUME MemInv, ListInv, stack # << >>, NEW o \in Nat, o = Top.offset
  PROVE  /\ NoValue(o) <=>
              \/ Invalid(o)
              \/ First.type = POINTER /\ (Invalid(First.pointer) \/ Second.type = POINTER)
         /\ ~Invalid(o) => /\ First.offset = o /\ First.type = TypeAt(o)
                           /\ First.offset_to_next = NextAt(o)
                           /\ TypeAt(o) \in Compound => /\ First.data_size = SizeAt(o)
                                                        /\ Members(First) = MembersAt(o)
         /\ PointsAway(o) => First.pointer = Resolved(o)
         /\ PointsAway(o) /\ ~Invalid(Resolved(o)) =>
              Second.offset = Resolved(o) /\ Second.type = TypeAt(Resolved(o))
<1>1. /\ data[Top.element] \in EntryType /\ First \in EntryType /\ First.pointer \in Nat
  BY FirstAndSecond
<1>2. First = Decoded(data[Top.element], o) /\ Second = Decoded(First, First.pointer)
  BY DEF First, Second
<1>3. ~Invalid(o) => /\ First.offset = o /\ First.type = TypeAt(o)
                     /\ First.offset_to_next = NextAt(o)
                     /\ PointsAway(o) => First.pointer = Resolved(o)
                     /\ TypeAt(o) \in Compound => /\ First.data_size = SizeAt(o)
                                                  /\ Members(First) = MembersAt(o)
  BY <1>1, <1>2, DecodedValue
<1>4. ~Invalid(First.pointer) => /\ Second.offset = First.pointer
                                 /\ Second.type = TypeAt(First.pointer)
  BY <1>1, <1>2, DecodedValue
<1>5. PointsAway(o) => ~Invalid(o)
  BY DEF PointsAway
<1>6. CASE PointsAway(o)
  <2>1. ~Invalid(o) /\ First.type = POINTER /\ First.pointer = Resolved(o)
    BY <1>3, <1>6 DEF PointsAway
  <2>2. ~Invalid(Resolved(o)) => (PointsAway(Resolved(o)) <=> Second.type = POINTER)
    BY <1>4, <2>1 DEF PointsAway
  <2> QED BY <1>3, <1>4, <2>1, <2>2 DEF NoValue
<1>7. CASE ~PointsAway(o)
  <2>1. Resolved(o) = o
    BY <1>7 DEF Resolved
  <2>2. NoValue(o) <=> Invalid(o)
    BY <1>7, <2>1 DEF NoValue
  <2>3. ~Invalid(o) => First.type # POINTER
    BY <1>3, <1>7 DEF PointsAway
  <2> QED BY <1>3, <1>7, <2>2, <2>3
<1> QED BY <1>6, <1>7

\* No value has the type that announces another.
LEMMA TypeIsThere ==
  ASSUME SectionOK, NEW o \in Nat
  PROVE  TypeAt(o) # EXTENDED
<1>1. TypeAt(o) \in 1 .. (7 + 255)
  BY HeadFacts
<1> QED BY <1>1 DEF EXTENDED

\* The values that have no members.
LEMMA SimpleOrder ==
  ASSUME MakeInv, OrderInv, SimpleValue \/ PointerToSimple, UNCHANGED memoryVars
  PROVE  OrderInv'
<1>0. MemInv /\ ListInv /\ SectionOK
  BY MemoryIsSection DEF MakeInv
<1>1. New /\ ~Rejected /\ stage = "decode" /\ stack # << >>
  BY DEF SimpleValue, PointerToSimple, New
<1>1a. PICK s \in Seq(FrameType), t \in FrameType, N \in [Range(items) -> Nat],
             c \in Context : Called(s, t, N, c)
  BY <1>1, NewOrder
<1>2. /\ Top = t /\ Front(stack) = s
      /\ Settled(s, Range(items)) /\ MaxDepth - Len(s) \in Nat /\ MaxDepth - Len(s) # 0
      /\ t.element = items[Len(items)] /\ t.element \in Range(items)
      /\ t.offset \in Nat /\ N[t.element] \in Nat
      /\ Told(N, Append(s, t), items, data)
      /\ Readable(Stated(items, data, N, Len(items) - 1))
      /\ Await(EndOf, Preorder, N, s, c) /\ c.element = t.element
      /\ c.end = EndAt(t.offset)
      /\ Same(Whole, Stated(items, data, N, Len(items) - 1)
                       \o (Part(t.offset, MaxDepth - Len(s), N[t.element]) \o c.rest))
  BY <1>1, <1>1a DEF Called
<1> DEFINE o == t.offset
           v == Resolved(o)
           third == [Second EXCEPT !.offset_to_next = First.offset_to_next]
<1>3. o \in Nat /\ o = Top.offset
  BY <1>2
<1>4. ~NoValue(o)
  BY <1>0, <1>1, <1>3, NewValue DEF Rejected
<1>5. First \in EntryType /\ Second \in EntryType /\ First.offset_to_next \in Nat
  BY <1>0, <1>1, FirstAndSecond
<1>6. ~Invalid(o) /\ ~Invalid(v)
  BY <1>4 DEF NoValue
<1>7. First.offset = o /\ First.type = TypeAt(o) /\ First.offset_to_next = NextAt(o)
  BY <1>0, <1>1, <1>3, <1>6, NewValue
<1> HIDE DEF o
<1>8. PICK e \in EntryType : /\ Step(e, s) /\ e.offset = v /\ e.type = TypeAt(v)
                             /\ e.offset_to_next = NextAt(o) /\ TypeAt(v) \notin Compound
                             /\ TypeAt(o) \notin Compound
  <2>1. CASE SimpleValue
    <3>1. First.type \notin Compound \cup {POINTER} /\ Step(First, s)
      BY <1>2, <2>1 DEF SimpleValue
    <3>2. v = o
      BY <1>7, <3>1 DEF Resolved, PointsAway
    <3> QED BY <1>5, <1>7, <3>1, <3>2
  <2>2. CASE PointerToSimple
    <3>1. First.type = POINTER /\ Second.type \notin Compound /\ Step(third, s)
      BY <1>2, <2>2 DEF PointerToSimple
    <3>2. PointsAway(o)
      BY <1>6, <1>7, <3>1 DEF PointsAway
    <3>3. Second.offset = v /\ Second.type = TypeAt(v)
      BY <1>0, <1>1, <1>3, <1>6, <3>2, NewValue
    <3>4. third \in EntryType
      BY <1>5, EntryFields
    <3>5. /\ third.offset = Second.offset /\ third.type = Second.type
          /\ third.offset_to_next = NextAt(o)
      BY <1>5, <1>7 DEF EntryType
    <3>6. TypeAt(o) \notin Compound
      BY <1>7, <3>1 DEF Compound, MAP, ARRAY, POINTER
    <3> HIDE DEF third, v
    <3> QED BY <3>1, <3>3, <3>4, <3>5, <3>6
  <2> QED BY <2>1, <2>2
<1>9. EndAt(o) = NextAt(o)
  <2>1. MembersAt(o) = 0 /\ NextAt(o) \in Nat
    BY <1>0, <1>3, <1>8, MembersFacts
  <2>2. EndAt(o) = EndOf[<<NextAt(o), MembersAt(o)>>]
    BY <1>0, <1>3, <1>6, EndAtFacts
  <2> QED BY <1>0, <2>1, <2>2, EndOfNone
<1> DEFINE i == [offset |-> e.offset, type |-> e.type,
                 offset_to_next |-> N[items[Len(items)]]]
<1>10. Part(o, MaxDepth - Len(s), N[t.element]) = <<i>>
  BY <1>0, <1>2, <1>3, <1>4, <1>8, SimplePart
<1>11. /\ items' = items /\ stack' = s /\ root' = root /\ stage' = stage
       /\ data' \in [Range(items) -> EntryType] /\ data'[t.element] = e
       /\ \A x \in Range(items) : x # t.element => data'[x] = data[x]
  <2>1. /\ items' = items /\ stack' = s /\ root' = root /\ stage' = stage
        /\ data' \in [Range(items) -> EntryType] /\ data'[Top.element] = e
        /\ \A x \in Range(items) : x # Top.element => data'[x] = data[x]
    BY <1>0, <1>1, <1>8, StepData
  <2> QED BY <1>2, <2>1
<1>12. e.type # EXTENDED
  <2>1. v \in Nat
    BY <1>0, <1>3, ResolvedFacts
  <2> QED BY <1>0, <1>8, <2>1, TypeIsThere
<1>13. c.rest \in Seq(ListItem) /\ << >> \in Seq(ListItem)
  BY DEF Context
<1>14. i \in ListItem
  BY <1>2 DEF ListItem, EntryType
<1>15. Same(Whole, Stated(items, data, N, Len(items) - 1) \o ((<<i>> \o << >>) \o c.rest))
  <2>1. <<i>> \o << >> = <<i>>
    <3> HIDE DEF i
    <3>1. i = i
      OBVIOUS
    <3> QED OBVIOUS
  <2> HIDE DEF i
  <2> QED BY <1>2, <1>10, <2>1 DEF o
<1>16. PICK b \in [Range(items) -> EntryType] :
         /\ b = data' /\ b[t.element] = e
         /\ \A x \in Range(items) : x # t.element => b[x] = data[x]
  BY <1>11
<1>17. /\ Readable(Stated(items, b, N, Len(items)))
       /\ Same(Whole, Stated(items, b, N, Len(items)) \o (<< >> \o c.rest))
  <2>1. b[items[Len(items)]] = e /\ \A x \in Range(items) : x # items[Len(items)] => b[x] = data[x]
    BY <1>2, <1>16
  <2> HIDE DEF v
  <2> QED BY <1>1, <1>2, <1>12, <1>13, <1>15, <2>1, HeadListed
<1>18. << >> \o c.rest = c.rest
  BY <1>13
<1>19. Ordered(EndOf, Preorder, Parts, Whole, N, s, items, b)
  <2>1. items \in Seq(Element) /\ data \in [Range(items) -> EntryType]
    BY <1>0 DEF ListInv
  <2>2. e.offset_to_next = c.end
    BY <1>2, <1>8, <1>9 DEF o
  <2>3. Same(Whole, Stated(items, b, N, Len(items)) \o c.rest)
    BY <1>17, <1>18
  <2>4. Readable(Stated(items, b, N, Len(items)))
    BY <1>17
  <2> HIDE DEF v, i, third
  <2> QED BY <1>2, <1>16, <2>1, <2>2, <2>3, <2>4, ReturnOrder
<1> QED BY <1>0, <1>11, <1>16, <1>19, OrderNext DEF Whole

\* The elements that the calls on a stack work for.
LEMMA StackElements ==
  ASSUME NEW s \in Seq(FrameType), NEW f \in FrameType, NEW x
  PROVE  (\A k \in 1 .. Len(Append(s, f)) : Append(s, f)[k].element # x)
           <=> (\A k \in 1 .. Len(s) : s[k].element # x) /\ f.element # x
<1> DEFINE q == Append(s, f)
<1>1. Len(q) = Len(s) + 1 /\ Len(s) \in Nat /\ q[Len(s) + 1] = f
      /\ \A k \in 1 .. Len(s) : q[k] = s[k]
  OBVIOUS
<1> HIDE DEF q
<1>2. \A k \in 1 .. Len(q) : k = Len(s) + 1 \/ k \in 1 .. Len(s)
  BY <1>1
<1>3. Len(s) + 1 \in 1 .. Len(q) /\ \A k \in 1 .. Len(s) : k \in 1 .. Len(q)
  BY <1>1
<1>4. (\A k \in 1 .. Len(q) : q[k].element # x)
        <=> (\A k \in 1 .. Len(s) : s[k].element # x) /\ f.element # x
  BY <1>1, <1>2, <1>3
<1> QED BY <1>4 DEF q

\* The innermost call goes on for the same element.
LEMMA ToldStill ==
  ASSUME NEW its, NEW N, NEW d, NEW b, NEW s \in Seq(FrameType), NEW t \in FrameType,
         NEW f \in FrameType, f.element = t.element, Told(N, Append(s, t), its, d),
         \A x \in Range(its) : x # t.element => b[x] = d[x]
  PROVE  Told(N, Append(s, f), its, b)
<1> SUFFICES ASSUME NEW x \in Range(its),
                    \A k \in 1 .. Len(Append(s, f)) : Append(s, f)[k].element # x
             PROVE  b[x].offset_to_next = N[x]
  BY DEF Told
<1>1. (\A k \in 1 .. Len(s) : s[k].element # x) /\ f.element # x
  BY StackElements
<1>2. \A k \in 1 .. Len(Append(s, t)) : Append(s, t)[k].element # x
  BY <1>1, StackElements
<1>3. d[x].offset_to_next = N[x]
  BY <1>2 DEF Told
<1> QED BY <1>1, <1>3

\* The elements before the last do not change with it.
LEMMA StatedBefore ==
  ASSUME NEW its \in Seq(Element), \A j, k \in 1 .. Len(its) : its[j] = its[k] => j = k,
         NEW d, NEW b, NEW N, \A x \in Range(its) : x # its[Len(its)] => b[x] = d[x]
  PROVE  Stated(its, b, N, Len(its) - 1) = Stated(its, d, N, Len(its) - 1)
<1>1. \A k \in 1 .. (Len(its) - 1) : b[its[k]] = d[its[k]]
  <2>1. TAKE k \in 1 .. (Len(its) - 1)
  <2>2. k \in 1 .. Len(its) /\ k # Len(its) /\ Len(its) \in 1 .. Len(its)
    OBVIOUS
  <2>3. its[k] # its[Len(its)]
    BY <2>2
  <2>4. its[k] \in Range(its)
    BY <2>2 DEF Range
  <2> QED BY <2>3, <2>4
<1> QED BY <1>1 DEF Stated

\* A map or array.
LEMMA CompoundOrder ==
  ASSUME MakeInv, OrderInv, CompoundValue, UNCHANGED memoryVars
  PROVE  OrderInv'
<1>0. MemInv /\ ListInv /\ SectionOK
  BY MemoryIsSection DEF MakeInv
<1>1. New /\ ~Rejected /\ stage = "decode" /\ stack # << >> /\ First.type \in Compound
  BY DEF CompoundValue, New
<1>1a. PICK s \in Seq(FrameType), t \in FrameType, N \in [Range(items) -> Nat],
             c \in Context : Called(s, t, N, c)
  BY <1>1, NewOrder
<1>2. /\ Top = t /\ \A f : Replaced(f) = Append(s, f)
      /\ MaxDepth - Len(s) \in Nat /\ MaxDepth - Len(s) # 0
      /\ t.element = items[Len(items)] /\ t.element \in Range(items)
      /\ t.member = t.element /\ t.offset \in Nat /\ N[t.element] \in Nat
      /\ Told(N, Append(s, t), items, data)
      /\ Readable(Stated(items, data, N, Len(items) - 1))
      /\ Await(EndOf, Preorder, N, s, c) /\ c.element = t.element
      /\ c.end = EndAt(t.offset)
      /\ Same(Whole, Stated(items, data, N, Len(items) - 1)
                       \o (Part(t.offset, MaxDepth - Len(s), N[t.element]) \o c.rest))
  BY <1>1, <1>1a DEF Called
<1> DEFINE o == t.offset
           D == MaxDepth - (Len(s) + 1)
           x == Preorder[<<NextAt(o), MembersAt(o), D>>]
           f == [t EXCEPT !.at = "members", !.left = Members(First)]
           i == [offset |-> First.offset, type |-> First.type,
                 offset_to_next |-> N[items[Len(items)]]]
<1>3. o \in Nat /\ o = Top.offset
  BY <1>2
<1>4. ~NoValue(o)
  BY <1>0, <1>1, <1>3, NewValue DEF Rejected
<1>5. First \in EntryType /\ Members(First) \in Nat
  BY <1>0, <1>1, FirstAndSecond
<1>6. ~Invalid(o)
  BY <1>4 DEF NoValue
<1>7. First.offset = o /\ First.type = TypeAt(o) /\ First.offset_to_next = NextAt(o)
  BY <1>0, <1>1, <1>3, <1>6, NewValue
<1>8. TypeAt(o) \in Compound /\ Members(First) = MembersAt(o)
  BY <1>0, <1>1, <1>3, <1>6, <1>7, NewValue
<1>9. f \in FrameType /\ f.at = "members" /\ f.left = MembersAt(o)
      /\ f.element = t.element /\ f.member = t.element
  BY <1>2, <1>5, <1>8 DEF FrameType
<1>10. Step(First, Append(s, f))
  BY <1>2 DEF CompoundValue
<1>11. MembersAt(o) \in Nat /\ NextAt(o) \in Nat
  BY <1>0, <1>3, MembersFacts
<1>12. D \in Nat /\ (MaxDepth - Len(s)) - 1 = D
  <2>1. MaxDepth \in Nat /\ Len(s) \in Nat
    BY SectionAssumption DEF MaxDepth
  <2> QED BY <1>2, <2>1
<1> HIDE DEF f, D
<1>13. x \in Seq(ListItem) /\ c.rest \in Seq(ListItem)
  BY <1>0, <1>11, <1>12, PreorderType DEF Context
<1>14. EndAt(o) = EndOf[<<NextAt(o), MembersAt(o)>>]
  BY <1>0, <1>3, <1>6, EndAtFacts
<1>15. Part(o, MaxDepth - Len(s), N[t.element]) = <<i>> \o x
  <2>1. Part(o, MaxDepth - Len(s), N[t.element]) =
          <<[offset |-> o, type |-> TypeAt(o), offset_to_next |-> N[t.element]]>>
            \o Preorder[<<NextAt(o), MembersAt(o), (MaxDepth - Len(s)) - 1>>]
    BY <1>0, <1>2, <1>3, <1>6, <1>8, CompoundPart
  <2> QED BY <1>2, <1>7, <1>12, <2>1
<1> HIDE DEF o, x
<1>16. /\ items' = items /\ stack' = Append(s, f) /\ root' = root /\ stage' = stage
       /\ data' \in [Range(items) -> EntryType] /\ data'[Top.element] = First
       /\ \A y \in Range(items) : y # Top.element => data'[y] = data[y]
  BY <1>0, <1>1, <1>5, <1>10, StepData
<1>17. PICK b \in [Range(items) -> EntryType], e \in EntryType :
         /\ b = data' /\ e = First /\ b[t.element] = e
         /\ \A y \in Range(items) : y # t.element => b[y] = data[y]
  BY <1>2, <1>5, <1>16
<1>18. e.type # EXTENDED
  BY <1>0, <1>3, <1>7, <1>17, TypeIsThere
<1>19. /\ Readable(Stated(items, b, N, Len(items)))
       /\ Same(Whole, Stated(items, b, N, Len(items)) \o (x \o c.rest))
  <2>1. /\ b[items[Len(items)]] = e
        /\ \A y \in Range(items) : y # items[Len(items)] => b[y] = data[y]
    BY <1>2, <1>17
  <2>2. Same(Whole, Stated(items, data, N, Len(items) - 1) \o
               ((<<[offset |-> e.offset, type |-> e.type,
                    offset_to_next |-> N[items[Len(items)]]]>> \o x) \o c.rest))
    BY <1>2, <1>15, <1>17 DEF o
  <2> QED BY <1>1, <1>2, <1>13, <1>18, <2>1, <2>2, HeadListed
<1>20. Told(N, Append(s, f), items, b)
  BY <1>2, <1>9, <1>17, ToldStill
<1>21. Len(items) - PendingIn(Append(s, f)) = Len(items)
  <2>1. PendingIn(Append(s, f)) = 0
    BY <1>9, PendingOfTop
  <2>2. Len(items) \in Nat
    BY <1>0 DEF ListInv
  <2> QED BY <2>1, <2>2
<1>22. Goes(EndOf, Preorder, Parts, N, b, s, f, c, x \o c.rest)
  <2>1. b[f.member].offset_to_next = NextAt(o)
    BY <1>7, <1>9, <1>17
  <2>2. c.end = EndOf[<<b[f.member].offset_to_next, f.left>>]
    BY <1>2, <1>9, <1>14, <2>1 DEF o
  <2>3. x = Preorder[<<b[f.member].offset_to_next, f.left, MaxDepth - (Len(s) + 1)>>]
    BY <1>9, <2>1 DEF x, D
  <2> QED BY <1>9, <2>2, <2>3 DEF Goes
<1>23. Remains(EndOf, Preorder, Parts, N, b, Append(s, f), x \o c.rest)
  BY <1>2, <1>9, <1>22 DEF Remains
<1>24. x \o c.rest \in Seq(ListItem)
  BY <1>13
<1>25. Ordered(EndOf, Preorder, Parts, Whole, N, Append(s, f), items, b)
  BY <1>19, <1>20, <1>21, <1>23, <1>24 DEF Ordered
<1> QED BY <1>0, <1>16, <1>17, <1>25, OrderNext DEF Whole

\* A pointer to one: the same element, a call further down.
LEMMA PointerOrder ==
  ASSUME MakeInv, OrderInv, PointerToCompound, UNCHANGED memoryVars
  PROVE  OrderInv'
<1>0. MemInv /\ ListInv /\ SectionOK
  BY MemoryIsSection DEF MakeInv
<1>1. New /\ ~Rejected /\ stage = "decode" /\ stack # << >>
      /\ First.type = POINTER /\ Second.type \in Compound
  BY DEF PointerToCompound, New
<1>1a. PICK s \in Seq(FrameType), t \in FrameType, N \in [Range(items) -> Nat],
             c \in Context : Called(s, t, N, c)
  BY <1>1, NewOrder
<1>2. /\ Top = t /\ \A f : Replaced(f) = Append(s, f)
      /\ MaxDepth - Len(s) \in Nat /\ MaxDepth - Len(s) # 0
      /\ t.element = items[Len(items)] /\ t.element \in Range(items)
      /\ t.offset \in Nat /\ N[t.element] \in Nat
      /\ Told(N, Append(s, t), items, data)
      /\ Readable(Stated(items, data, N, Len(items) - 1))
      /\ Await(EndOf, Preorder, N, s, c) /\ c.element = t.element
      /\ c.end = EndAt(t.offset)
      /\ Same(Whole, Stated(items, data, N, Len(items) - 1)
                       \o (Part(t.offset, MaxDepth - Len(s), N[t.element]) \o c.rest))
  BY <1>1, <1>1a DEF Called
<1> DEFINE o == t.offset
           v == Resolved(o)
           D == MaxDepth - (Len(s) + 1)
           f == [t EXCEPT !.at = "pointer", !.offset = First.offset_to_next]
           g == Frame(First.pointer, t.element)
           x == [element |-> t.element, end |-> EndAt(v), rest |-> c.rest]
<1>3. o \in Nat /\ o = Top.offset
  BY <1>2
<1>4. ~NoValue(o)
  BY <1>0, <1>1, <1>3, NewValue DEF Rejected
<1>5. Second \in EntryType /\ First.pointer \in Nat /\ First.offset_to_next \in Nat
  BY <1>0, <1>1, FirstAndSecond
<1>6. ~Invalid(o) /\ ~Invalid(v)
  BY <1>4 DEF NoValue
<1>7. First.type = TypeAt(o) /\ First.offset_to_next = NextAt(o)
  BY <1>0, <1>1, <1>3, <1>6, NewValue
<1>8. PointsAway(o)
  BY <1>1, <1>6, <1>7 DEF PointsAway
<1>9. First.pointer = v /\ Second.type = TypeAt(v)
  BY <1>0, <1>1, <1>3, <1>6, <1>8, NewValue
<1>10. v \in Nat /\ EndAt(o) = NextAt(o)
  BY <1>0, <1>3, <1>8, ResolvedFacts
<1>11. f \in FrameType /\ f.at = "pointer" /\ f.offset = NextAt(o) /\ f.element = t.element
  BY <1>5, <1>7 DEF FrameType
<1>12. g \in FrameType /\ g.at = "new" /\ g.element = t.element /\ g.offset = v
  BY <1>5, <1>9 DEF Frame, FrameType
<1>13. Step(Second, Append(Append(s, f), g))
  BY <1>2 DEF PointerToCompound
<1>14. D \in Nat /\ (MaxDepth - Len(s)) - 1 = D
  <2>1. MaxDepth \in Nat /\ Len(s) \in Nat
    BY SectionAssumption DEF MaxDepth
  <2> QED BY <1>2, <2>1
<1>15. Part(o, MaxDepth - Len(s), N[t.element]) = Part(v, D, N[t.element])
  <2> HIDE DEF D
  <2> QED BY <1>0, <1>1, <1>2, <1>3, <1>6, <1>8, <1>9, <1>14, PointerPart
<1> HIDE DEF f, g, o, v
<1> DEFINE S == Append(s, f)
<1>16. S \in Seq(FrameType) /\ Len(S) = Len(s) + 1
  BY <1>11
<1>17. x \in Context /\ x.element = t.element /\ x.end = EndAt(v) /\ x.rest = c.rest
  <2>1. EndAt(v) \in Nat
    BY <1>0, <1>10, EndAtFacts
  <2> QED BY <2>1 DEF Context, FrameType
<1> HIDE DEF x
<1>18. Await(EndOf, Preorder, N, S, x)
  <2>1. Expects(EndOf, Preorder, N, f, Len(s) + 1, c, x)
    BY <1>2, <1>10, <1>11, <1>17 DEF Expects, o
  <2> QED BY <1>2, <1>11, <1>17, <2>1, AwaitPush
<1> HIDE DEF S
<1>19. Goes(EndOf, Preorder, Parts, N, data', S, g, x, Part(v, D, N[t.element]) \o c.rest)
  <2>1. Parts[<<v, D, N[t.element]>>] = Part(v, D, N[t.element])
    BY <1>0, <1>2, <1>10, <1>14, PartType
  <2>2. MaxDepth - Len(S) = D
    BY <1>16
  <2> QED BY <1>12, <1>17, <2>1, <2>2 DEF Goes, EndAt
<1>20. Remains(EndOf, Preorder, Parts, N, data', Append(S, g),
               Part(v, D, N[t.element]) \o c.rest)
  BY <1>12, <1>16, <1>17, <1>18, <1>19 DEF Remains
<1>21. /\ items' = items /\ stack' = Append(S, g) /\ root' = root /\ stage' = stage
       /\ data' \in [Range(items) -> EntryType]
       /\ \A y \in Range(items) : y # Top.element => data'[y] = data[y]
  BY <1>0, <1>1, <1>5, <1>13, StepData DEF S
<1>22. PICK b \in [Range(items) -> EntryType] :
         b = data' /\ \A y \in Range(items) : y # t.element => b[y] = data[y]
  BY <1>2, <1>21
<1>23. Told(N, Append(S, g), items, b)
  <2>1. Told(N, S, items, b)
    BY <1>2, <1>11, <1>22, ToldStill DEF S
  <2> SUFFICES ASSUME NEW y \in Range(items),
                      \A k \in 1 .. Len(Append(S, g)) : Append(S, g)[k].element # y
               PROVE  b[y].offset_to_next = N[y]
    BY DEF Told
  <2>2. \A k \in 1 .. Len(S) : S[k].element # y
    BY <1>12, <1>16, StackElements
  <2> QED BY <2>1, <2>2 DEF Told
<1>24. Len(items) - PendingIn(Append(S, g)) = Len(items) - 1
  <2>1. PendingIn(Append(S, g)) = 1
    BY <1>12, <1>16, PendingOfTop
  <2> QED BY <2>1
<1>25. Stated(items, b, N, Len(items) - 1) = Stated(items, data, N, Len(items) - 1)
  <2>1. /\ items \in Seq(Element)
        /\ \A j, k \in 1 .. Len(items) : items[j] = items[k] => j = k
    BY <1>0 DEF ListInv
  <2>2. \A y \in Range(items) : y # items[Len(items)] => b[y] = data[y]
    BY <1>2, <1>22
  <2> QED BY <2>1, <2>2, StatedBefore
<1>26. Part(v, D, N[t.element]) \o c.rest \in Seq(ListItem)
  <2>1. Part(v, D, N[t.element]) \in Seq(ListItem)
    BY <1>0, <1>2, <1>10, <1>14, PartType
  <2>2. c.rest \in Seq(ListItem)
    BY DEF Context
  <2> QED BY <2>1, <2>2
<1>27. Same(Whole, Stated(items, b, N, Len(items) - 1)
                     \o (Part(v, D, N[t.element]) \o c.rest))
  BY <1>2, <1>15, <1>25 DEF o
<1>28. Readable(Stated(items, b, N, Len(items) - 1))
  BY <1>2, <1>25
<1>29. Ordered(EndOf, Preorder, Parts, Whole, N, Append(S, g), items, b)
  <2> DEFINE r == Part(v, D, N[t.element]) \o c.rest
  <2>1. /\ Remains(EndOf, Preorder, Parts, N, b, Append(S, g), r) /\ r \in Seq(ListItem)
        /\ Same(Whole, Stated(items, b, N, Len(items) - 1) \o r)
    BY <1>20, <1>22, <1>26, <1>27
  <2> HIDE DEF r
  <2> QED BY <1>23, <1>24, <1>28, <2>1 DEF Ordered
<1> QED BY <1>0, <1>21, <1>22, <1>29, OrderNext DEF Whole

\* The innermost call t, which waits, and what is left to list.
Waiting(s, t, N, c, r) ==
  /\ stack = Append(s, t) /\ Top = t /\ Front(stack) = s
  /\ \A f : Replaced(f) = Append(s, f)
  /\ Settled(s, Range(items)) /\ Waits(t, Len(s) + 1, Range(items))
  /\ MaxDepth - (Len(s) + 1) \in Nat
  /\ Told(N, Append(s, t), items, data)
  /\ Readable(Stated(items, data, N, Len(items)))
  /\ Await(EndOf, Preorder, N, s, c) /\ c.element = t.element
  /\ Goes(EndOf, Preorder, Parts, N, data, s, t, c, r)
  /\ Same(Whole, Stated(items, data, N, Len(items)) \o r)

\* A call that waits, and what is to be listed.
LEMMA WaitOrder ==
  ASSUME MakeInv, OrderInv, stage = "decode", stack # << >>, Top.at # "new"
  PROVE  \E s \in Seq(FrameType), t \in FrameType, N \in [Range(items) -> Nat],
            c \in Context, r \in Seq(ListItem) : Waiting(s, t, N, c, r)
<1>1. PICK s \in Seq(FrameType), t \in FrameType :
        /\ stack = Append(s, t) /\ Top = t /\ Front(stack) = s
        /\ \A f : Replaced(f) = Append(s, f)
        /\ Settled(s, Range(items))
        /\ \/ Waits(t, Len(s) + 1, Range(items))
           \/ IsNew(t, Range(items), items[Len(items)])
  BY Unstacked DEF MakeInv
<1>2. Waits(t, Len(s) + 1, Range(items))
  BY <1>1 DEF IsNew
<1>3. MaxDepth - (Len(s) + 1) \in Nat
  <2>1. Len(s) \in Nat /\ MaxDepth \in Nat
    BY SectionAssumption DEF MaxDepth
  <2> QED BY <1>2, <2>1 DEF Waits
<1>4. PICK N : Ordered(EndOf, Preorder, Parts, Whole, N, stack, items, data)
  BY DEF OrderInv, Whole
<1>5. Len(items) - PendingIn(stack) = Len(items)
  <2>1. PendingIn(stack) = 0
    BY <1>1, <1>2, PendingOfTop DEF Waits
  <2>2. Len(items) \in Nat
    BY DEF MakeInv, ListInv
  <2> QED BY <2>1, <2>2
<1>6. /\ N \in [Range(items) -> Nat] /\ Told(N, stack, items, data)
      /\ Readable(Stated(items, data, N, Len(items)))
  BY <1>4, <1>5 DEF Ordered
<1>7. PICK r \in Seq(ListItem) :
        /\ Remains(EndOf, Preorder, Parts, N, data, Append(s, t), r)
        /\ Same(Whole, Stated(items, data, N, Len(items)) \o r)
  BY <1>1, <1>4, <1>5 DEF Ordered
<1>8. PICK c \in Context :
        /\ Await(EndOf, Preorder, N, s, c) /\ c.element = t.element
        /\ Goes(EndOf, Preorder, Parts, N, data, s, t, c, r)
  BY <1>7, TopContext
<1>9. Waiting(s, t, N, c, r)
  BY <1>1, <1>2, <1>3, <1>6, <1>7, <1>8 DEF Waiting
<1> QED BY <1>6, <1>7, <1>8, <1>9

\* The members are all there, or the target is.
LEMMA ReturnsOrder ==
  ASSUME MakeInv, OrderInv, PointerReturns \/ MembersReturn, UNCHANGED memoryVars
  PROVE  OrderInv'
<1>0. MemInv /\ ListInv /\ SectionOK
  BY MemoryIsSection DEF MakeInv
<1>1. stage = "decode" /\ stack # << >> /\ Top.at # "new"
  BY DEF PointerReturns, MembersReturn
<1>2. PICK s \in Seq(FrameType), t \in FrameType, N \in [Range(items) -> Nat],
           c \in Context, r \in Seq(ListItem) : Waiting(s, t, N, c, r)
  BY <1>1, WaitOrder
<1>3. /\ Top = t /\ Front(stack) = s
      /\ Settled(s, Range(items)) /\ Waits(t, Len(s) + 1, Range(items))
      /\ MaxDepth - (Len(s) + 1) \in Nat
      /\ Told(N, Append(s, t), items, data)
      /\ Readable(Stated(items, data, N, Len(items)))
      /\ Await(EndOf, Preorder, N, s, c) /\ c.element = t.element
      /\ Goes(EndOf, Preorder, Parts, N, data, s, t, c, r)
      /\ Same(Whole, Stated(items, data, N, Len(items)) \o r)
  BY <1>2 DEF Waiting
<1>3a. /\ t.at = "members" =>
            /\ c.end = EndOf[<<data[t.member].offset_to_next, t.left>>]
            /\ r = Preorder[<<data[t.member].offset_to_next, t.left,
                              MaxDepth - (Len(s) + 1)>>] \o c.rest
       /\ t.at = "pointer" => c.end = t.offset /\ r = c.rest
  BY <1>3 DEF Goes
<1>4. data[t.element] \in EntryType /\ t.offset \in Nat /\ Cursor \in Nat
  BY <1>0, <1>1, <1>3, FirstAndSecond
<1>5. t.element \in Range(items)
  BY <1>3 DEF Waits
<1> DEFINE e == [data[t.element] EXCEPT !.offset_to_next = c.end]
<1>6. c.end \in Nat /\ c.rest \in Seq(ListItem)
  BY DEF Context
<1>7. Step(e, s) /\ r = c.rest
  <2>0. Top = t /\ Front(stack) = s
    BY <1>3
  <2>1. CASE PointerReturns
    <3>1. t.at = "pointer" /\ Step([data[t.element] EXCEPT !.offset_to_next = t.offset], s)
      <4>1. /\ Top.at = "pointer"
            /\ Step([data[Top.element] EXCEPT !.offset_to_next = Top.offset], Front(stack))
        BY <2>1 DEF PointerReturns
      <4> QED BY <2>0, <4>1
    <3>2. c.end = t.offset /\ r = c.rest
      BY <1>3a, <3>1
    <3> QED BY <3>1, <3>2
  <2>2. CASE MembersReturn
    <3>1. /\ t.at = "members" /\ t.left = 0
          /\ Step([data[t.element] EXCEPT !.offset_to_next = Cursor], s)
      <4>1. /\ Top.at = "members" /\ Top.left = 0
            /\ Step([data[Top.element] EXCEPT !.offset_to_next = Cursor], Front(stack))
        BY <2>2 DEF MembersReturn
      <4> QED BY <2>0, <4>1
    <3>2. Cursor = data[t.member].offset_to_next
      BY <1>3 DEF Cursor
    <3>3. /\ c.end = EndOf[<<Cursor, 0>>]
          /\ r = Preorder[<<Cursor, 0, MaxDepth - (Len(s) + 1)>>] \o c.rest
      BY <1>3a, <3>1, <3>2
    <3>4. c.end = Cursor
      BY <1>0, <1>4, <3>3, EndOfNone
    <3>5. Preorder[<<Cursor, 0, MaxDepth - (Len(s) + 1)>>] = << >>
      BY <1>0, <1>3, <1>4, PreorderNone
    <3>6. << >> \o c.rest = c.rest
      BY <1>6
    <3> QED BY <3>1, <3>3, <3>4, <3>5, <3>6
  <2> QED BY <2>1, <2>2
<1>8. e \in EntryType /\ e.offset_to_next = c.end /\ e.offset = data[t.element].offset
      /\ e.type = data[t.element].type
  <2>1. e \in EntryType
    BY <1>4, <1>6, EntryFields
  <2>2. e.offset_to_next = c.end /\ e.offset = data[t.element].offset
        /\ e.type = data[t.element].type
    BY <1>4 DEF EntryType
  <2> QED BY <2>1, <2>2
<1> HIDE DEF e
<1>9. /\ items' = items /\ stack' = s /\ root' = root /\ stage' = stage
      /\ data' \in [Range(items) -> EntryType] /\ data'[Top.element] = e
      /\ \A x \in Range(items) : x # Top.element => data'[x] = data[x]
  BY <1>0, <1>1, <1>7, <1>8, StepData
<1>10. PICK b \in [Range(items) -> EntryType] :
         /\ b = data' /\ b[t.element] = e
         /\ \A x \in Range(items) : x # t.element => b[x] = data[x]
  BY <1>3, <1>9
<1>11. Stated(items, b, N, Len(items)) = Stated(items, data, N, Len(items))
  <2>1. \A k \in 1 .. Len(items) : items[k] \in Range(items)
    BY <1>0 DEF ListInv, Range
  <2>2. \A k \in 1 .. Len(items) : /\ b[items[k]].offset = data[items[k]].offset
                                   /\ b[items[k]].type = data[items[k]].type
    BY <1>8, <1>10, <2>1
  <2> QED BY <2>2 DEF Stated
<1>12. Ordered(EndOf, Preorder, Parts, Whole, N, s, items, b)
  <2>1. items \in Seq(Element) /\ data \in [Range(items) -> EntryType]
    BY <1>0 DEF ListInv
  <2>2. Same(Whole, Stated(items, b, N, Len(items)) \o c.rest)
    BY <1>3, <1>7, <1>11
  <2>3. Readable(Stated(items, b, N, Len(items)))
    BY <1>3, <1>11
  <2>4. e \in EntryType /\ e.offset_to_next = c.end /\ b[t.element] = e
    BY <1>8, <1>10
  <2> QED BY <1>3, <1>5, <1>10, <2>1, <2>2, <2>3, <2>4, ReturnOrder, ZenonT(40)
<1> QED BY <1>0, <1>9, <1>10, <1>12, OrderNext DEF Whole

\* A new element, of which nothing is said yet.
LEMMA StatedGrows ==
  ASSUME NEW its \in Seq(Element), NEW a, NEW d, NEW b, NEW N, NEW M,
         \A x \in Range(its) : b[x] = d[x] /\ M[x] = N[x]
  PROVE  Stated(Append(its, a), b, M, Len(Append(its, a)) - 1) = Stated(its, d, N, Len(its))
<1>1. Len(Append(its, a)) - 1 = Len(its)
  OBVIOUS
<1>2. \A k \in 1 .. Len(its) : Append(its, a)[k] = its[k] /\ its[k] \in Range(its)
  BY DEF Range
<1>3. \A k \in 1 .. Len(its) : /\ b[Append(its, a)[k]] = d[its[k]]
                               /\ M[Append(its, a)[k]] = N[its[k]]
  BY <1>2
<1> QED BY <1>1, <1>3 DEF Stated

\* A listing inside another may be replaced by two that make it up.
LEMMA SameJoin ==
  ASSUME NEW W \in Seq(ListItem), NEW S \in Seq(ListItem), NEW p \in Seq(ListItem),
         NEW q \in Seq(ListItem), NEW r \in Seq(ListItem), NEW y \in Seq(ListItem),
         Same(p, q \o r), Same(W, S \o (p \o y))
  PROVE  Same(W, S \o (q \o (r \o y)))
<1>1. /\ q \o r \in Seq(ListItem) /\ p \o y \in Seq(ListItem)
      /\ (q \o r) \o y \in Seq(ListItem) /\ S \o (p \o y) \in Seq(ListItem)
      /\ S \o ((q \o r) \o y) \in Seq(ListItem)
  OBVIOUS
<1>2. Same(p \o y, (q \o r) \o y)
  BY <1>1, SameParts
<1> DEFINE A == p \o y
           B == (q \o r) \o y
<1>3. Same(S \o A, S \o B)
  <2>1. A \in Seq(ListItem) /\ B \in Seq(ListItem) /\ Same(A, B)
    BY <1>1, <1>2
  <2> HIDE DEF A, B
  <2> QED BY <2>1, SameParts
<1>4. Same(W, S \o B)
  <2> DEFINE C == S \o A
             D == S \o B
  <2>1. C \in Seq(ListItem) /\ D \in Seq(ListItem) /\ Same(W, C) /\ Same(C, D)
    BY <1>1, <1>3
  <2> HIDE DEF C, D
  <2>2. Same(W, D)
    BY <2>1, SameParts
  <2>3. D = S \o B
    BY DEF D
  <2> HIDE DEF B
  <2> QED BY <2>2, <2>3
<1>5. B = q \o (r \o y)
  BY Grouped, SMTT(30)
<1> HIDE DEF B
<1> QED BY <1>4, <1>5

\* The first member of a run of values, and the others.
LEMMA SameSplit ==
  ASSUME SectionOK, NEW W \in Seq(ListItem), NEW S \in Seq(ListItem), NEW o \in Nat,
         NEW n \in Nat, n # 0, NEW d \in Nat, NEW y \in Seq(ListItem),
         Same(W, S \o (Preorder[<<o, n, d>>] \o y))
  PROVE  Same(W, S \o (Part(o, d, EndAt(o)) \o (Preorder[<<EndAt(o), n - 1, d>>] \o y)))
<1>1. EndAt(o) \in Nat /\ n - 1 \in Nat
  <2>1. EndAt(o) \in Nat
    BY EndAtFacts
  <2>2. n - 1 \in Nat
    OBVIOUS
  <2> QED BY <2>1, <2>2
<1>2. /\ Preorder[<<o, n, d>>] \in Seq(ListItem) /\ Part(o, d, EndAt(o)) \in Seq(ListItem)
      /\ Preorder[<<EndAt(o), n - 1, d>>] \in Seq(ListItem)
  BY <1>1, PreorderType, PartType
<1>3. Same(Preorder[<<o, n, d>>], Part(o, d, EndAt(o)) \o Preorder[<<EndAt(o), n - 1, d>>])
  BY PreorderSplit
<1> QED BY <1>2, <1>3, SameJoin

\* What a listing should be is a listing.
LEMMA WholeType == MemInv /\ ListInv => Whole \in Seq(ListItem)
<1> SUFFICES ASSUME MemInv, ListInv PROVE Whole \in Seq(ListItem)
  OBVIOUS
<1>1. SectionOK /\ root \in Nat /\ MaxDepth \in Nat
  BY MemoryIsSection, SectionAssumption DEF ListInv, MaxDepth
<1> QED BY <1>1, PreorderType DEF Whole

\* A new call for a new element a, the value of which is at o and ends at N[a].
LEMMA CalledOrder ==
  ASSUME NEW its \in Seq(Element), NEW a \in Element, a \notin Range(its),
         Range(Append(its, a)) = Range(its) \cup {a}, NEW N \in [Range(its) -> Nat],
         NEW d, NEW b, \A x \in Range(its) : b[x] = d[x],
         NEW M \in [Range(its) \cup {a} -> Nat], \A x \in Range(its) : M[x] = N[x],
         NEW W, NEW s \in Seq(FrameType), NEW o \in Nat, SectionOK,
         MaxDepth - Len(s) \in Nat,
         \A x \in Range(its) : (\A k \in 1 .. Len(s) : s[k].element # x) =>
           d[x].offset_to_next = N[x],
         NEW c \in Context, Await(EndOf, Preorder, M, s, c), c.element = a,
         c.end = EndAt(o), Readable(Stated(its, d, N, Len(its))),
         Same(W, Stated(its, d, N, Len(its))
                   \o (Part(o, MaxDepth - Len(s), M[a]) \o c.rest))
  PROVE  Ordered(EndOf, Preorder, Parts, W, M, Append(s, Frame(o, a)), Append(its, a), b)
<1> DEFINE g == Frame(o, a)
           jts == Append(its, a)
           r == Part(o, MaxDepth - Len(s), M[a]) \o c.rest
<1>1. g \in FrameType /\ g.at = "new" /\ g.element = a /\ g.offset = o
  BY DEF Frame, FrameType
<1>2. M[a] \in Nat
  OBVIOUS
<1>3. /\ Part(o, MaxDepth - Len(s), M[a]) \in Seq(ListItem)
      /\ Parts[<<o, MaxDepth - Len(s), M[a]>>] = Part(o, MaxDepth - Len(s), M[a])
  BY <1>2, PartType
<1>4. r \in Seq(ListItem)
  <2>1. c.rest \in Seq(ListItem)
    BY DEF Context
  <2> QED BY <1>3, <2>1
<1>5. Stated(jts, b, M, Len(jts) - 1) = Stated(its, d, N, Len(its))
  <2>1. \A x \in Range(its) : b[x] = d[x] /\ M[x] = N[x]
    OBVIOUS
  <2> QED BY <2>1, StatedGrows
<1> HIDE DEF g
<1>6. Goes(EndOf, Preorder, Parts, M, b, s, g, c, r)
  <2>1. c.end = EndOf[<<g.offset, 1>>]
    BY <1>1 DEF EndAt
  <2>2. r = Parts[<<g.offset, MaxDepth - Len(s), M[g.element]>>] \o c.rest
    BY <1>1, <1>3
  <2> QED BY <1>1, <2>1, <2>2 DEF Goes
<1>7. Remains(EndOf, Preorder, Parts, M, b, Append(s, g), r)
  BY <1>1, <1>6 DEF Remains
<1>8. Told(M, Append(s, g), jts, b)
  <2> SUFFICES ASSUME NEW x \in Range(jts),
                      \A k \in 1 .. Len(Append(s, g)) : Append(s, g)[k].element # x
               PROVE  b[x].offset_to_next = M[x]
    BY DEF Told
  <2>1. (\A k \in 1 .. Len(s) : s[k].element # x) /\ g.element # x
    BY <1>1, StackElements
  <2>2. x \in Range(its)
    BY <1>1, <2>1
  <2> QED BY <2>1, <2>2
<1>9. Len(jts) - PendingIn(Append(s, g)) = Len(jts) - 1
  <2>1. PendingIn(Append(s, g)) = 1
    BY <1>1, PendingOfTop
  <2> QED BY <2>1
<1>10. Same(W, Stated(jts, b, M, Len(jts) - 1) \o r)
  BY <1>5
<1>11. Readable(Stated(jts, b, M, Len(jts) - 1)) /\ M \in [Range(jts) -> Nat]
  BY <1>5
<1> HIDE DEF jts, r
<1>12. Ordered(EndOf, Preorder, Parts, W, M, Append(s, g), jts, b)
  BY <1>4, <1>7, <1>8, <1>9, <1>10, <1>11 DEF Ordered
<1> QED BY <1>12 DEF g, jts

\* The first element.
LEMMA FirstOrder ==
  ASSUME MakeInv, stage = "alloc", Alloc(<< >>, root), UNCHANGED memoryVars
  PROVE  OrderInv'
<1>0. MemInv /\ ListInv /\ SectionOK /\ root \in Nat /\ items = << >> /\ MaxDepth \in Nat
  BY MemoryIsSection, SectionAssumption DEF MakeInv, ListInv, OwnInv, MaxDepth
<1>1. PICK a \in Element :
        /\ a \notin Range(items)
        /\ items' = Append(items, a) /\ Range(Append(items, a)) = Range(items) \cup {a}
        /\ data' \in [Range(items) \cup {a} -> EntryType]
        /\ stack' = Append(<< >>, Frame(root, a)) /\ root' = root
  BY <1>0, AllocFacts
<1>2. Range(items) = {} /\ Len(items) = 0 /\ items \in Seq(Element)
  BY <1>0 DEF Range
<1> DEFINE N == [x \in {} |-> 0]
           M == [x \in {a} |-> EndAt(root)]
           c == [element |-> a, end |-> EndAt(root), rest |-> << >>]
<1>3. EndAt(root) \in Nat
  BY <1>0, EndAtFacts
<1>4. N \in [Range(items) -> Nat] /\ M \in [Range(items) \cup {a} -> Nat] /\ M[a] = EndAt(root)
  BY <1>2, <1>3
<1>5. c \in Context /\ c.element = a /\ c.end = EndAt(root) /\ c.rest = << >>
  BY <1>3 DEF Context
<1> HIDE DEF N, M, c
<1>6. Await(EndOf, Preorder, M, << >>, c)
  BY <1>4, <1>5, AwaitNone
<1>7. Stated(items, data, N, Len(items)) = << >>
  <2>1. 1 .. 0 = {}
    OBVIOUS
  <2>2. Stated(items, data, N, 0) = [k \in {} |-> [offset |-> data[items[k]].offset,
                                                   type |-> data[items[k]].type,
                                                   offset_to_next |-> N[items[k]]]]
    BY <2>1 DEF Stated
  <2> QED BY <1>2, <2>1, <2>2 DEF Stated
<1>8. MaxDepth - Len(<< >>) = MaxDepth /\ << >> \in Seq(FrameType) /\ Len(<< >>) = 0
  BY <1>0
<1>9. Same(Whole, Stated(items, data, N, Len(items))
                    \o (Part(root, MaxDepth - Len(<< >>), M[a]) \o c.rest))
  <2> DEFINE p == Part(root, MaxDepth, EndAt(root))
  <2>1. Same(Whole, p)
    BY <1>0, PreorderAlone DEF Whole
  <2>2. p \in Seq(ListItem)
    BY <1>0, <1>3, PartType
  <2> HIDE DEF p
  <2>3. << >> \o (p \o << >>) = p
    BY <2>2
  <2> QED BY <1>4, <1>5, <1>7, <1>8, <2>1, <2>3 DEF p
<1>10. Readable(Stated(items, data, N, Len(items)))
  BY <1>0, <1>7, ReadableOne
<1>11. PICK b : b = data'
  OBVIOUS
<1>12. Ordered(EndOf, Preorder, Parts, Whole, M, Append(<< >>, Frame(root, a)),
               Append(items, a), b)
  <2>1. /\ \A x \in Range(items) : b[x] = data[x]
        /\ \A x \in Range(items) : M[x] = N[x]
        /\ \A x \in Range(items) : (\A k \in 1 .. Len(<< >>) : << >>[k].element # x) =>
             data[x].offset_to_next = N[x]
    BY <1>2
  <2>2. MaxDepth - Len(<< >>) \in Nat
    BY <1>0, <1>8
  <2> QED BY <1>0, <1>1, <1>2, <1>4, <1>5, <1>6, <1>8, <1>9, <1>10, <2>1, <2>2, CalledOrder
<1> QED BY <1>0, <1>1, <1>11, <1>12, OrderNext DEF Whole

\* The next member of a map or array.
LEMMA MemberOrder ==
  ASSUME MakeInv, OrderInv, stage = "decode", stack # << >>, Top.at = "members", Top.left > 0,
         Alloc(Replaced([Top EXCEPT !.left = @ - 1, !.member = answer']), Cursor),
         UNCHANGED memoryVars
  PROVE  OrderInv'
<1>0. MemInv /\ ListInv /\ SectionOK /\ items \in Seq(Element)
      /\ data \in [Range(items) -> EntryType]
  BY MemoryIsSection DEF MakeInv, ListInv
<1>1. PICK s \in Seq(FrameType), t \in FrameType, N \in [Range(items) -> Nat],
           c \in Context, r \in Seq(ListItem) : Waiting(s, t, N, c, r)
  BY WaitOrder
<1>2. /\ Top = t /\ \A f : Replaced(f) = Append(s, f)
      /\ Settled(s, Range(items)) /\ Waits(t, Len(s) + 1, Range(items))
      /\ MaxDepth - (Len(s) + 1) \in Nat
      /\ Told(N, Append(s, t), items, data)
      /\ Readable(Stated(items, data, N, Len(items)))
      /\ Await(EndOf, Preorder, N, s, c) /\ c.element = t.element
      /\ Goes(EndOf, Preorder, Parts, N, data, s, t, c, r)
      /\ Same(Whole, Stated(items, data, N, Len(items)) \o r)
  BY <1>1 DEF Waiting
<1>3. t.at = "members" /\ t.left \in Nat /\ t.left # 0 /\ Cursor \in Nat
      /\ t.element \in Range(items) /\ t.left - 1 \in Nat
  <2>1. t.left \in Nat /\ t.at = "members" /\ t.left > 0
    BY <1>2 DEF FrameType
  <2>2. Cursor \in Nat
    BY <1>0, FirstAndSecond
  <2>3. t.element \in Range(items)
    BY <1>2 DEF Waits
  <2>4. t.left # 0 /\ t.left - 1 \in Nat
    BY <2>1
  <2> QED BY <2>1, <2>2, <2>3, <2>4
<1> DEFINE D == MaxDepth - (Len(s) + 1)
           e == EndAt(Cursor)
           rest == Preorder[<<e, t.left - 1, D>>] \o c.rest
<1>4. c.end = EndOf[<<Cursor, t.left>>] /\ r = Preorder[<<Cursor, t.left, D>>] \o c.rest
  <2>1. data[t.member].offset_to_next = Cursor
    BY <1>2 DEF Cursor
  <2> QED BY <1>2, <1>3, <2>1 DEF Goes
<1>5. PICK a \in Element :
        /\ a = answer' /\ a \notin Range(items)
        /\ items' = Append(items, a) /\ Range(Append(items, a)) = Range(items) \cup {a}
        /\ data' \in [Range(items) \cup {a} -> EntryType]
        /\ \A x \in Range(items) : data'[x] = data[x]
        /\ stack' = Append(Replaced([Top EXCEPT !.left = @ - 1, !.member = answer']),
                           Frame(Cursor, a))
        /\ stage' = "decode" /\ root' = root
  BY <1>0, AllocFacts
<1> DEFINE f == [t EXCEPT !.left = @ - 1, !.member = a]
           S == Append(s, f)
<1>6. f \in FrameType /\ f.at = "members" /\ f.left = t.left - 1
      /\ f.element = t.element /\ f.member = a
  <2>1. PICK n \in Nat : n = t.left - 1
    BY <1>3
  <2>2. f = [t EXCEPT !.left = n, !.member = a]
    BY <2>1
  <2> HIDE DEF f
  <2> QED BY <1>3, <2>1, <2>2 DEF FrameType
<1>7. stack' = Append(S, Frame(Cursor, a))
  BY <1>2, <1>5
<1> HIDE DEF f
<1>8. S \in Seq(FrameType) /\ Len(S) = Len(s) + 1
  BY <1>6
<1>9. e \in Nat /\ c.end = EndOf[<<e, t.left - 1>>]
  <2>1. e \in Nat
    BY <1>0, <1>3, EndAtFacts
  <2>2. t.left > 0
    BY <1>3
  <2>3. \A n \in Nat : n > 0 => EndOf[<<Cursor, n>>] = EndOf[<<e, n - 1>>]
    BY <1>0, <1>3, EndAtFacts
  <2> QED BY <1>3, <1>4, <2>1, <2>2, <2>3
<1>10. c.rest \in Seq(ListItem) /\ Preorder[<<e, t.left - 1, D>>] \in Seq(ListItem)
  BY <1>0, <1>2, <1>3, <1>9, PreorderType DEF Context
<1>11. rest \in Seq(ListItem)
  BY <1>10
<1> DEFINE M == [x \in Range(items) \cup {a} |-> IF x = a THEN e ELSE N[x]]
           x == [element |-> a, end |-> e, rest |-> rest]
<1>12. M \in [Range(items) \cup {a} -> Nat] /\ M[a] = e /\ \A y \in Range(items) : M[y] = N[y]
  BY <1>5, <1>9
<1>13. x \in Context /\ x.element = a /\ x.end = e /\ x.rest = rest
  BY <1>9, <1>11 DEF Context
<1> HIDE DEF M, x
<1>14. Await(EndOf, Preorder, M, s, c)
  BY <1>2, <1>3, <1>12, AwaitGrows
<1>15. Await(EndOf, Preorder, M, S, x)
  <2>1. Expects(EndOf, Preorder, M, f, Len(s) + 1, c, x)
    <3>1. x.end = M[x.element] /\ x.element = f.member
      BY <1>6, <1>12, <1>13
    <3>2. c.end = EndOf[<<x.end, f.left>>]
      BY <1>6, <1>9, <1>13
    <3>3. x.rest = Preorder[<<x.end, f.left, MaxDepth - (Len(s) + 1)>>] \o c.rest
      BY <1>6, <1>13
    <3> QED BY <1>2, <1>6, <3>1, <3>2, <3>3 DEF Expects
  <2> QED BY <1>6, <1>13, <1>14, <2>1, AwaitPush
<1>16. MaxDepth - Len(S) = D /\ D \in Nat
  BY <1>2, <1>8
<1>17. Same(Whole, Stated(items, data, N, Len(items))
                     \o (Part(Cursor, MaxDepth - Len(S), M[a]) \o x.rest))
  <2> DEFINE Y == Stated(items, data, N, Len(items))
             z == c.rest
             n == t.left
             o == Cursor
             W == Whole
  <2>1. Y \in Seq(ListItem)
    <3>1. Len(items) \in 0 .. Len(items)
      BY <1>0
    <3> QED BY <1>0, <3>1, StatedType
  <2>2. W \in Seq(ListItem)
    BY <1>0, WholeType
  <2>3. Same(W, Y \o (Preorder[<<o, n, D>>] \o z))
    BY <1>2, <1>4
  <2>4. n \in Nat /\ n # 0 /\ o \in Nat /\ D \in Nat /\ z \in Seq(ListItem) /\ SectionOK
    BY <1>0, <1>3, <1>10, <1>16
  <2>5. Same(W, Y \o (Part(o, D, EndAt(o)) \o (Preorder[<<EndAt(o), n - 1, D>>] \o z)))
    <3> HIDE DEF D, Y, z, n, o, W
    <3> QED BY <2>1, <2>2, <2>3, <2>4, SameSplit
  <2> QED BY <1>12, <1>13, <1>16, <2>5
<1>18. ASSUME NEW y \in Range(items), \A k \in 1 .. Len(S) : S[k].element # y
       PROVE  data[y].offset_to_next = N[y]
  <2>1. (\A k \in 1 .. Len(s) : s[k].element # y) /\ t.element # y
    <3>1. PICK g \in FrameType : g = f /\ g.element = t.element
      BY <1>6
    <3>2. Len(S) = Len(s) + 1 /\ S[Len(s) + 1] = g /\ \A k \in 1 .. Len(s) : S[k] = s[k]
      BY <3>1
    <3> HIDE DEF S
    <3>3. Len(s) + 1 \in 1 .. Len(S) /\ \A k \in 1 .. Len(s) : k \in 1 .. Len(S)
      BY <3>2
    <3>4. (\A k \in 1 .. Len(s) : s[k].element # y) /\ g.element # y
      BY <1>18, <3>2, <3>3
    <3> QED BY <3>1, <3>4
  <2>2. \A k \in 1 .. Len(Append(s, t)) : Append(s, t)[k].element # y
    BY <2>1, StackElements
  <2> QED BY <1>2, <2>2 DEF Told
<1>19. PICK b : b = data'
  OBVIOUS
<1>20. Ordered(EndOf, Preorder, Parts, Whole, M, Append(S, Frame(Cursor, a)),
               Append(items, a), b)
  <2>1. /\ \A y \in Range(items) : b[y] = data[y]
        /\ \A y \in Range(items) : M[y] = N[y]
    BY <1>5, <1>12, <1>19
  <2>2. MaxDepth - Len(S) \in Nat
    BY <1>16
  <2>3. \A y \in Range(items) : (\A k \in 1 .. Len(S) : S[k].element # y) =>
          data[y].offset_to_next = N[y]
    BY <1>18
  <2>4. x.end = EndAt(Cursor)
    BY <1>13
  <2>5. Readable(Stated(items, data, N, Len(items)))
    BY <1>2
  <2> HIDE DEF S, e, D, rest
  <2> QED BY <1>0, <1>3, <1>5, <1>8, <1>12, <1>13, <1>15, <1>17, <2>1, <2>2, <2>3, <2>4,
             <2>5, CalledOrder
<1> QED BY <1>0, <1>5, <1>7, <1>19, <1>20, OrderNext DEF Whole

\* What the call says of the section, when it fails and when it succeeds.
CauseInv ==
  /\ stage \in {"idle", "destroy"} /\ list_status = "MMDB_INVALID_DATA_ERROR" =>
       ~Sound(root, 1, MaxDepth)
  /\ stage = "idle" /\ list_status = "MMDB_SUCCESS" => Sound(root, 1, MaxDepth)
  /\ stage = "destroy" => list_status # "MMDB_SUCCESS"

\* A list that is made says what the format prescribes.
SaidInv ==
  stage = "idle" /\ list # NULL =>
    [k \in DOMAIN items |-> [offset |-> data[items[k]].offset, type |-> data[items[k]].type,
                             offset_to_next |-> data[items[k]].offset_to_next]]
      = Preorder[<<root, 1, MaxDepth>>]

\* What is prescribed does not change.
LEMMA WholeUnchanged ==
  ASSUME MemInv, UNCHANGED memoryVars, root' = root
  PROVE  /\ Preorder'[<<root', 1, MaxDepth>>] = Preorder[<<root, 1, MaxDepth>>]
         /\ Sound(root, 1, MaxDepth)' <=> Sound(root, 1, MaxDepth)
<1>1. Preorder' = Preorder
  BY MemoryIsSection, FormatUnchanged
<1>2. Preorder'[<<root', 1, MaxDepth>>] = Preorder[<<root, 1, MaxDepth>>]
  BY <1>1
<1> QED BY <1>2 DEF Sound, Readable, MaxDepth

\* A value that is refused cannot be read.
LEMMA RejectCause ==
  ASSUME MakeInv, OrderInv, RejectValue
  PROVE  ~Sound(root, 1, MaxDepth)
<1>0. MemInv /\ ListInv /\ SectionOK
  BY MemoryIsSection DEF MakeInv
<1>1. New /\ Rejected /\ stage = "decode" /\ stack # << >>
  BY DEF RejectValue, New
<1>1a. PICK s \in Seq(FrameType), t \in FrameType, N \in [Range(items) -> Nat],
            c \in Context : Called(s, t, N, c)
  BY <1>1, NewOrder
<1>2. /\ Top = t /\ stack = Append(s, t)
      /\ MaxDepth - Len(s) \in Nat
      /\ t.offset \in Nat /\ N[t.element] \in Nat
      /\ Same(Whole, Stated(items, data, N, Len(items) - 1)
                       \o (Part(t.offset, MaxDepth - Len(s), N[t.element]) \o c.rest))
  BY <1>1a DEF Called
<1> DEFINE o == t.offset
           D == MaxDepth - Len(s)
           p == Part(o, D, N[t.element])
           S == Stated(items, data, N, Len(items) - 1)
<1>3. \/ D = 0 \/ NoValue(o)
      \/ /\ TypeAt(o) \in Compound /\ ~Invalid(o)
         /\ \/ NextAt(o) > data_section_size
            \/ SizeAt(o) > (data_section_size - NextAt(o))
                             \div (IF TypeAt(o) = MAP THEN 2 ELSE 1)
  <2>1. CASE depth >= MAXIMUM_DATA_STRUCTURE_DEPTH
    <3>1. Len(stack) = Len(s) + 1 /\ Len(s) \in Nat /\ MaxDepth \in Nat
      BY <1>2, SectionAssumption DEF MaxDepth
    <3>2. Len(s) >= MaxDepth
      BY <2>1, <3>1 DEF depth, MaxDepth
    <3> QED BY <1>2, <3>1, <3>2
  <2>2. CASE \/ Invalid(Top.offset)
             \/ First.type = POINTER /\ (Invalid(First.pointer) \/ Second.type = POINTER)
    <3>1. o \in Nat /\ o = Top.offset
      BY <1>2
    <3>2. NoValue(o)
      BY <1>0, <1>1, <2>2, <3>1, NewValue
    <3> QED BY <3>2
  <2>3. CASE ~Invalid(Top.offset) /\ First.type \in Compound /\ NoRoom(First)
    <3>1. o \in Nat /\ o = Top.offset
      BY <1>2
    <3>2. First.type = TypeAt(o) /\ First.offset_to_next = NextAt(o)
          /\ (TypeAt(o) \in Compound => First.data_size = SizeAt(o))
      BY <1>0, <1>1, <2>3, <3>1, NewValue
    <3> QED BY <2>3, <3>1, <3>2 DEF NoRoom
  <2> QED BY <1>1, <2>1, <2>2, <2>3 DEF Rejected
<1>4. ~Readable(p)
  BY <1>0, <1>2, <1>3, RefusedPart
<1>5. p \in Seq(ListItem) /\ c.rest \in Seq(ListItem)
  BY <1>0, <1>2, PartType DEF Context
<1>6. S \in Seq(ListItem)
  <2>1. items \in Seq(Element) /\ data \in [Range(items) -> EntryType] /\ items # << >>
    BY <1>1 DEF MakeInv, ListInv, OwnInv
  <2>2. Len(items) - 1 \in 0 .. Len(items)
    BY <2>1
  <2> QED BY <2>1, <2>2, StatedType
<1>7. Same(Whole, S \o (p \o c.rest))
  BY <1>2
<1> HIDE DEF p, S
<1>8. p \o c.rest \in Seq(ListItem) /\ ~Readable(p \o c.rest)
  BY <1>4, <1>5, ReadableConcat
<1>9. ~Readable(S \o (p \o c.rest))
  BY <1>6, <1>8, ReadableConcat
<1>10. ~Readable(Whole)
  BY <1>7, <1>9 DEF Same
<1> QED BY <1>10 DEF Whole, Sound

\* The list that the recursion leaves.
LEMMA FinishSaid ==
  ASSUME MakeInv, OrderInv, Finish
  PROVE  /\ Sound(root, 1, MaxDepth)
         /\ [k \in DOMAIN items |-> [offset |-> data[items[k]].offset,
                                     type |-> data[items[k]].type,
                                     offset_to_next |-> data[items[k]].offset_to_next]]
              = Preorder[<<root, 1, MaxDepth>>]
<1>0. MemInv /\ ListInv /\ SectionOK /\ items \in Seq(Element)
      /\ data \in [Range(items) -> EntryType]
  BY MemoryIsSection DEF MakeInv, ListInv
<1>1. stage = "decode" /\ stack = << >>
  BY DEF Finish
<1>2. PICK N : Ordered(EndOf, Preorder, Parts, Whole, N, stack, items, data)
  BY <1>1 DEF OrderInv, Whole
<1>3. Len(items) - PendingIn(stack) = Len(items) /\ DOMAIN items = 1 .. Len(items)
  <2>1. PendingIn(<< >>) = 0
    BY DEF PendingIn
  <2>2. Len(items) \in Nat /\ DOMAIN items = 1 .. Len(items)
    BY <1>0
  <2> QED BY <1>1, <2>1, <2>2
<1> DEFINE S == Stated(items, data, N, Len(items))
<1>4. N \in [Range(items) -> Nat] /\ Told(N, stack, items, data) /\ Readable(S)
  BY <1>2, <1>3 DEF Ordered
<1>5. PICK r \in Seq(ListItem) :
        Remains(EndOf, Preorder, Parts, N, data, stack, r) /\ Same(Whole, S \o r)
  BY <1>2, <1>3 DEF Ordered
<1>6. r = << >>
  <2>1. \A u \in Seq(FrameType), t \in FrameType : Append(u, t) # << >>
    <3>1. TAKE u \in Seq(FrameType), t \in FrameType
    <3>2. Len(Append(u, t)) = Len(u) + 1 /\ Len(u) \in Nat
      OBVIOUS
    <3> QED BY <3>2
  <2> QED BY <1>1, <1>5, <2>1 DEF Remains
<1>7. S \in Seq(ListItem)
  <2>1. Len(items) \in 0 .. Len(items)
    BY <1>0
  <2> QED BY <1>0, <1>4, <2>1, StatedType
<1>8. S = [k \in DOMAIN items |-> [offset |-> data[items[k]].offset,
                                   type |-> data[items[k]].type,
                                   offset_to_next |-> data[items[k]].offset_to_next]]
  <2>1. \A k \in 1 .. Len(items) : items[k] \in Range(items)
    BY <1>3 DEF Range
  <2>2. \A k \in 1 .. Len(<< >>) : FALSE
    OBVIOUS
  <2>3. \A k \in 1 .. Len(items) : data[items[k]].offset_to_next = N[items[k]]
    BY <1>1, <1>4, <2>1, <2>2 DEF Told
  <2> QED BY <1>3, <2>3 DEF Stated
<1> HIDE DEF S
<1>9. S \o r = S
  BY <1>6, <1>7
<1>10. Whole = S /\ Readable(Whole)
  BY <1>4, <1>5, <1>9 DEF Same
<1> QED BY <1>8, <1>10 DEF Whole, Sound

ReadInv == OrderInv /\ CauseInv /\ SaidInv

\* Nothing of the list changes.
LEMMA ReadUnmoved ==
  ASSUME MemInv, ReadInv, UNCHANGED memoryVars,
         UNCHANGED <<stage, stack, data, root, list, list_status, items>>
  PROVE  ReadInv'
<1>1. OrderInv'
  <2>1. CASE stage = "decode"
    <3>1. PICK N : Ordered(EndOf, Preorder, Parts, Preorder[<<root, 1, MaxDepth>>], N,
                           stack, items, data)
      BY <2>1 DEF ReadInv, OrderInv
    <3>2. Ordered(EndOf, Preorder, Parts, Preorder[<<root, 1, MaxDepth>>], N,
                  stack', items', data')
      BY <3>1
    <3> QED BY <3>2, OrderNext
  <2>2. CASE stage # "decode"
    BY <2>2 DEF OrderInv
  <2> QED BY <2>1, <2>2
<1>2. /\ Preorder'[<<root', 1, MaxDepth>>] = Preorder[<<root, 1, MaxDepth>>]
      /\ Sound(root, 1, MaxDepth)' <=> Sound(root, 1, MaxDepth)
  BY WholeUnchanged
<1>3. CauseInv'
  BY <1>2 DEF ReadInv, CauseInv
<1>4. SaidInv'
  BY <1>2 DEF ReadInv, SaidInv, MaxDepth
<1> QED BY <1>1, <1>3, <1>4 DEF ReadInv

\* There is no list, and what was said of the section stays.
LEMMA ReadAfterwards ==
  ASSUME MemInv, CauseInv, UNCHANGED memoryVars, UNCHANGED <<root, list_status>>,
         stage \in {"idle", "destroy"}, stage' = "idle", list' = NULL
  PROVE  ReadInv'
<1>1. Sound(root, 1, MaxDepth)' <=> Sound(root, 1, MaxDepth)
  BY WholeUnchanged
<1>2. CauseInv'
  BY <1>1 DEF CauseInv
<1> QED BY <1>2 DEF ReadInv, OrderInv, SaidInv

\* Every step of the call.
LEMMA ReadHolds ==
  ASSUME MakeInv, ReadInv, ListStep, UNCHANGED memoryVars
  PROVE  ReadInv'
<1>0. MemInv /\ OrderInv /\ CauseInv
  BY DEF MakeInv, ReadInv
<1>1. ASSUME OrderInv', stage' = "decode" PROVE ReadInv'
  BY <1>1 DEF ReadInv, CauseInv, SaidInv
<1>2. CASE Finish
  <2>1. /\ stage' = "idle" /\ list_status' = "MMDB_SUCCESS"
        /\ UNCHANGED <<items, stack, data, root>>
    BY <1>2 DEF Finish, Link
  <2>2. /\ Preorder'[<<root', 1, MaxDepth>>] = Preorder[<<root, 1, MaxDepth>>]
        /\ Sound(root, 1, MaxDepth)' <=> Sound(root, 1, MaxDepth)
    BY <1>0, <2>1, WholeUnchanged
  <2>3. /\ Sound(root, 1, MaxDepth)
        /\ [k \in DOMAIN items |-> [offset |-> data[items[k]].offset,
                                    type |-> data[items[k]].type,
                                    offset_to_next |-> data[items[k]].offset_to_next]]
             = Preorder[<<root, 1, MaxDepth>>]
    BY <1>0, <1>2, FinishSaid
  <2>4. CauseInv'
    BY <2>1, <2>2, <2>3 DEF CauseInv
  <2>5. SaidInv'
    BY <2>1, <2>2, <2>3 DEF SaidInv, MaxDepth
  <2>6. OrderInv'
    BY <2>1 DEF OrderInv
  <2> QED BY <2>4, <2>5, <2>6 DEF ReadInv
<1>3. CASE GiveUp
  <2>1. /\ stage = "destroy" /\ stage' = "idle" /\ UNCHANGED <<root, list_status>>
        /\ list' = NULL
    BY <1>3 DEF GiveUp, MakeInv, OwnInv
  <2> QED BY <1>0, <2>1, ReadAfterwards
<1>4. CASE AllocFails
  <2>1. stage' = "destroy" /\ list_status' = "MMDB_OUT_OF_MEMORY_ERROR"
    BY <1>4 DEF AllocFails, Abort
  <2> QED BY <2>1 DEF ReadInv, OrderInv, CauseInv, SaidInv
<1>5. CASE RejectValue
  <2>1. stage' = "destroy" /\ list_status' = "MMDB_INVALID_DATA_ERROR" /\ root' = root
    BY <1>5 DEF RejectValue, Abort
  <2>2. ~Sound(root, 1, MaxDepth)
    BY <1>0, <1>5, RejectCause
  <2>3. Sound(root, 1, MaxDepth)' <=> Sound(root, 1, MaxDepth)
    BY <1>0, <2>1, WholeUnchanged
  <2> QED BY <2>1, <2>2, <2>3 DEF ReadInv, OrderInv, CauseInv, SaidInv
<1>6. CASE FirstElement
  <2>1. stage = "alloc" /\ (Alloc(<< >>, root) \/ AllocFails)
    BY <1>6 DEF FirstElement
  <2>2. CASE Alloc(<< >>, root)
    <3>1. OrderInv'
      BY <2>1, <2>2, FirstOrder
    <3>2. stage' = "decode"
      BY <2>2 DEF Alloc
    <3> QED BY <1>1, <3>1, <3>2
  <2> QED BY <1>4, <2>1, <2>2
<1>7. CASE NextMember
  <2>1. stage = "decode" /\ stack # << >> /\ Top.at = "members" /\ Top.left > 0
    BY <1>7 DEF NextMember
  <2>2. \/ Alloc(Replaced([Top EXCEPT !.left = @ - 1, !.member = answer']), Cursor)
        \/ AllocFails
    BY <1>7 DEF NextMember
  <2>3. CASE Alloc(Replaced([Top EXCEPT !.left = @ - 1, !.member = answer']), Cursor)
    <3>1. OrderInv'
      BY <1>0, <2>1, <2>3, MemberOrder
    <3>2. stage' = "decode"
      BY <2>3 DEF Alloc
    <3> QED BY <1>1, <3>1, <3>2
  <2> QED BY <1>4, <2>2, <2>3
<1>8. CASE SimpleValue \/ PointerToSimple \/ CompoundValue \/ PointerToCompound
             \/ PointerReturns \/ MembersReturn
  <2>1. stage' = "decode"
    BY <1>8 DEF SimpleValue, PointerToSimple, CompoundValue, PointerToCompound,
                PointerReturns, MembersReturn, New, Step
  <2>2. OrderInv'
    BY <1>0, <1>8, SimpleOrder, CompoundOrder, PointerOrder, ReturnsOrder
  <2> QED BY <1>1, <2>1, <2>2
<1> QED BY <1>2, <1>3, <1>5, <1>6, <1>7, <1>8 DEF ListStep

\* The call.
LEMMA CallReads ==
  ASSUME CallList
  PROVE  ReadInv'
<1>1. PICK o \in Roots : MMDB_get_entry_data_list(o)
  BY DEF CallList
<1>2. /\ list' = NULL
      /\ \/ stage' = "alloc" /\ list_status' = "none"
         \/ stage' = "idle" /\ list_status' = "MMDB_OUT_OF_MEMORY_ERROR"
  BY <1>1 DEF MMDB_get_entry_data_list
<1> QED BY <1>2 DEF ReadInv, OrderInv, CauseInv, SaidInv
-------------------------------------------------------------------------------
(***************************************************************************)
(* What a path lookup finds.                                               *)
(***************************************************************************)
\* The least of some numbers.
LEMMA LeastIsMin ==
  ASSUME NEW S \in SUBSET Nat, NEW m \in S, \A y \in S : m <= y
  PROVE  Min(S) = m
<1>1. \A x \in S : (\A y \in S : x <= y) => x = m
  OBVIOUS
<1>2. \E x \in S : \A y \in S : x <= y
  OBVIOUS
<1>3. Min(S) \in S /\ \A y \in S : Min(S) <= y
  BY <1>2 DEF Min
<1> QED BY <1>1, <1>3

\* The members that a path element can mean are numbered.
LEMMA ChoiceType ==
  ASSUME SectionOK, NEW v \in Nat, NEW s
  PROVE  Choice(v, s) \in SUBSET Nat
<1>1. SizeAt(v) \in Nat
  BY HeadFacts
<1>2. InMap(v, s) \in SUBSET Nat
  BY <1>1 DEF InMap
<1>3. InArray(v, strtol(s)) \in SUBSET Nat
  BY <1>1 DEF InArray
<1> QED BY <1>2, <1>3 DEF Choice

\* What a path element leads to is the place of a value, or none.
LEMMA IntoType ==
  ASSUME SectionOK, NEW v \in Nat, NEW s
  PROVE  Into(v, s) \in Nat
<1>1. Choice(v, s) \in SUBSET Nat
  BY ChoiceType
<1>2. CASE Choice(v, s) = {}
  BY <1>2, SectionAssumption DEF Into, Missing
<1>3. CASE Choice(v, s) # {}
  <2> DEFINE C == Choice(v, s)
  <2>1. PICK m \in C : \A y \in C : m <= y
    <3> HIDE DEF C
    <3> QED BY <1>1, <1>3, LeastNumber DEF C
  <2>2. Min(C) = m /\ m \in Nat
    <3> HIDE DEF C
    <3> QED BY <1>1, <2>1, LeastIsMin DEF C
  <2>3. NextAt(v) \in Nat
    BY MembersFacts
  <2>4. EndOf[<<NextAt(v), m>>] \in Nat
    BY <2>2, <2>3, EndOfType
  <2>5. Member(v, m) \in Nat
    BY <2>4, ResolvedFacts DEF Member
  <2> QED BY <1>3, <2>2, <2>5 DEF Into
<1> QED BY <1>2, <1>3

\* There is nothing in what is missing.
LEMMA NothingMissing ==
  ASSUME SectionOK, NEW s
  PROVE  Missing \in Nat /\ Invalid(Missing) /\ Into(Missing, s) = Missing
<1>1. U32 \in Nat /\ data_section_size \in Nat /\ data_section_size < U32
  BY SizeIsNat, SectionAssumption DEF SectionOK
<1>2. Missing \in Nat /\ Invalid(Missing)
  BY <1>1 DEF Missing, Invalid, HeadPast, Past, Minus
<1> QED BY <1>2 DEF Into, Choice

\* One step along a path.
SelectStep(f, o, p, k) == IF k = 0 THEN Resolved(o) ELSE Into(f[k - 1], p[k])

\* A selection takes one step after the other.
LEMMA SelectionRecurs ==
  ASSUME SectionOK, NEW o \in Nat, NEW p, Len(p) \in Nat
  PROVE  Selection(o, p) = [k \in 0 .. Len(p) |-> SelectStep(Selection(o, p), o, p, k)]
<1> DEFINE S == 0 .. Len(p)
           G == [f \in [S -> Nat] |-> [k \in S |-> SelectStep(f, o, p, k)]]
           a == [k \in S |-> k]
<1>1. a \in [S -> Nat] /\ \A k \in S : a[k] = k
  OBVIOUS
<1>2. \A k \in S : k \in Nat /\ (k # 0 => k - 1 \in S /\ k - 1 < k)
  OBVIOUS
<1>3. \A k \in S : k # 0 => Before(a, a, k - 1, k)
  <2> HIDE DEF a, S
  <2> QED BY <1>1, <1>2 DEF Before
<1> HIDE DEF S, a
<1>4. ASSUME NEW f \in [S -> Nat], NEW k \in S PROVE SelectStep(f, o, p, k) \in Nat
  <2>1. CASE k = 0
    BY <2>1, ResolvedFacts DEF SelectStep
  <2>2. CASE k # 0
    <3>1. f[k - 1] \in Nat
      BY <1>2, <2>2
    <3> QED BY <2>2, <3>1, IntoType DEF SelectStep
  <2> QED BY <2>1, <2>2
<1>5. G \in [[S -> Nat] -> [S -> Nat]]
      /\ \A f \in [S -> Nat] : G[f] = [k \in S |-> SelectStep(f, o, p, k)]
  BY <1>4
<1>6. ASSUME NEW f \in [S -> Nat], NEW g \in [S -> Nat], NEW k \in S,
             \A y \in S : Before(a, a, y, k) => f[y] = g[y]
      PROVE  SelectStep(f, o, p, k) = SelectStep(g, o, p, k)
  <2>1. k # 0 => f[k - 1] = g[k - 1]
    BY <1>2, <1>3, <1>6
  <2> QED BY <2>1 DEF SelectStep
<1>7. Recurses(a, a, S, Nat, G)
  <2> HIDE DEF G
  <2>1. \A f \in [S -> Nat], s \in S : G[f][s] = SelectStep(f, o, p, s)
    BY <1>5
  <2>2. G \in [[S -> Nat] -> [S -> Nat]]
    BY <1>5
  <2>3. ASSUME NEW f \in [S -> Nat], NEW g \in [S -> Nat], NEW k \in S,
               \A y \in S : Before(a, a, y, k) => f[y] = g[y]
        PROVE  G[f][k] = G[g][k]
    BY <1>6, <2>1, <2>3
  <2> QED BY <2>2, <2>3 DEF Recurses
<1> HIDE DEF G
<1>8. PICK f \in [S -> Nat] : f = G[f]
  <2>1. 0 \in Nat /\ a \in [S -> Nat]
    BY <1>1
  <2> QED BY <1>7, <2>1, RecursionHasSolution
<1>9. f = [k \in S |-> SelectStep(f, o, p, k)]
  BY <1>5, <1>8
<1> DEFINE F(h) == h = [k \in 0 .. Len(p) |-> IF k = 0 THEN Resolved(o) ELSE Into(h[k - 1], p[k])]
<1>10. F(f)
  BY <1>9, Zenon DEF SelectStep, S
<1>11. Selection(o, p) = CHOOSE h : F(h)
  BY Zenon DEF Selection
<1>12. F(Selection(o, p))
  BY <1>10, <1>11, Zenon
<1> QED BY <1>12, Zenon DEF SelectStep, S

\* f leads along p from the value at o.
Leads(f, o, p) ==
  /\ f \in [0 .. Len(p) -> Nat] /\ f[0] = Resolved(o)
  /\ \A k \in 1 .. Len(p) : f[k] = Into(f[k - 1], p[k])

\* A selection does.
LEMMA SelectionLeads ==
  ASSUME SectionOK, NEW o \in Nat, NEW p, Len(p) \in Nat
  PROVE  Leads(Selection(o, p), o, p)
<1> DEFINE f == Selection(o, p)
<1>1. f = [k \in 0 .. Len(p) |-> SelectStep(f, o, p, k)]
  BY SelectionRecurs
<1> HIDE DEF f
<1>2. \A k \in 0 .. Len(p) : f[k] = SelectStep(f, o, p, k)
  BY <1>1, Zenon
<1>3. f[0] = Resolved(o) /\ \A k \in 1 .. Len(p) : f[k] = Into(f[k - 1], p[k])
  <2>1. 0 \in 0 .. Len(p) /\ \A k \in 1 .. Len(p) : k \in 0 .. Len(p) /\ k # 0
    OBVIOUS
  <2> QED BY <1>2, <2>1 DEF SelectStep
<1>4. f \in [0 .. Len(p) -> Nat]
  <2> DEFINE T == {k \in 0 .. Len(p) : f[k] \notin Nat}
  <2>1. T = {}
    <3> SUFFICES ASSUME T # {} PROVE FALSE
      OBVIOUS
    <3>1. T \in SUBSET Nat
      OBVIOUS
    <3>2. PICK k \in T : \A m \in T : k <= m
      <4> HIDE DEF T
      <4> QED BY <3>1, LeastNumber
    <3>3. k \in 0 .. Len(p) /\ f[k] \notin Nat
      BY <3>2
    <3>4. CASE k = 0
      BY <1>3, <3>3, <3>4, ResolvedFacts
    <3>5. CASE k # 0
      <4>1. k - 1 \in 0 .. Len(p) /\ k \in 1 .. Len(p) /\ ~(k <= k - 1)
        BY <3>3, <3>5
      <4>2. f[k - 1] \in Nat
        BY <3>2, <4>1
      <4>3. Into(f[k - 1], p[k]) \in Nat
        BY <4>2, IntoType
      <4> QED BY <1>3, <3>3, <4>1, <4>3
    <3> QED BY <3>4, <3>5
  <2>2. \A k \in 0 .. Len(p) : f[k] \in Nat
    BY <2>1
  <2>3. \E D : f = [k \in 0 .. Len(p) |-> D[k]]
    <3> DEFINE D == [k \in 0 .. Len(p) |-> SelectStep(f, o, p, k)]
    <3>1. f = [k \in 0 .. Len(p) |-> D[k]]
      BY <1>1
    <3> QED BY <3>1
  <2> QED BY <2>2, <2>3
<1>5. Leads(f, o, p)
  BY <1>3, <1>4 DEF Leads
<1> QED BY <1>5 DEF f

AllLead == \A o \in Nat : \A p : Len(p) \in Nat => Leads(Selection(o, p), o, p)

\* Every one.
LEMMA SelectionsLead == SectionOK => AllLead
BY SelectionLeads DEF AllLead

\* Once a path has led nowhere it leads nowhere.
LEMMA LostForGood ==
  ASSUME SectionOK, NEW o \in Nat, NEW p, Len(p) \in Nat, NEW j \in 0 .. Len(p),
         Selection(o, p)[j] = Missing
  PROVE  Selected(o, p) = Missing
<1> DEFINE f == Selection(o, p)
           T == {k \in j .. Len(p) : f[k] # Missing}
<1>1. \A k \in 1 .. Len(p) : f[k] = Into(f[k - 1], p[k])
  BY SelectionLeads DEF Leads
<1>2. f[j] = Missing
  OBVIOUS
<1> HIDE DEF f
<1>3. T = {}
  <2> SUFFICES ASSUME T # {} PROVE FALSE
    OBVIOUS
  <2>1. T \in SUBSET Nat
    OBVIOUS
  <2>2. PICK k \in T : \A m \in T : k <= m
    <3> HIDE DEF T
    <3> QED BY <2>1, LeastNumber
  <2>3. k \in j .. Len(p) /\ f[k] # Missing
    BY <2>2
  <2>4. k # j
    BY <1>2, <2>3
  <2>5. k - 1 \in j .. Len(p) /\ k \in 1 .. Len(p) /\ ~(k <= k - 1)
    BY <2>3, <2>4
  <2>6. f[k - 1] = Missing
    BY <2>2, <2>5
  <2> QED BY <1>1, <2>3, <2>5, <2>6, NothingMissing
<1>4. f[Len(p)] = Missing
  BY <1>3
<1> QED BY <1>4 DEF f, Selected

\* Only one function leads along a path.
LEMMA OneLeads ==
  ASSUME NEW o, NEW p, Len(p) \in Nat, NEW f, NEW g, Leads(f, o, p), Leads(g, o, p)
  PROVE  f = g
<1> DEFINE T == {k \in 0 .. Len(p) : f[k] # g[k]}
<1>1. T = {}
  <2> SUFFICES ASSUME T # {} PROVE FALSE
    OBVIOUS
  <2>1. T \in SUBSET Nat
    OBVIOUS
  <2>2. PICK k \in T : \A m \in T : k <= m
    <3> HIDE DEF T
    <3> QED BY <2>1, LeastNumber
  <2>3. k \in 0 .. Len(p) /\ f[k] # g[k]
    BY <2>2
  <2>4. k # 0
    BY <2>3 DEF Leads
  <2>5. k - 1 \in 0 .. Len(p) /\ k \in 1 .. Len(p) /\ ~(k <= k - 1)
    BY <2>3, <2>4
  <2>6. f[k - 1] = g[k - 1]
    BY <2>2, <2>5
  <2> QED BY <2>3, <2>5, <2>6 DEF Leads
<1>2. \A k \in 0 .. Len(p) : f[k] = g[k]
  BY <1>1
<1> QED BY <1>2 DEF Leads

\* What a path means does not change.
LEMMA SelectionUnchanged ==
  ASSUME SectionOK, UNCHANGED memoryVars
  PROVE  /\ \A v, s : Choice(v, s)' = Choice(v, s)
         /\ \A v, k, s : HasKey(v, k, s)' <=> HasKey(v, k, s)
         /\ \A o \in Nat : \A p : Len(p) \in Nat => Selection(o, p)' = Selection(o, p)
<1>1. SectionOK'
  BY DEF SectionOK, memoryVars, data_section_size
<1>2. EndOf' = EndOf /\ \A o : mem(o)' = mem(o)
  BY EndsUnchanged, BytesUnchanged
<1>3. \A o : /\ NextAt(o)' = NextAt(o) /\ Resolved(o)' = Resolved(o)
             /\ (Invalid(o)' <=> Invalid(o))
  BY ValuesUnchanged
<1>4. \A o : TypeAt(o)' = TypeAt(o) /\ SizeAt(o)' = SizeAt(o) /\ BodyStart(o)' = BodyStart(o)
  BY HeadsUnchanged
<1>5. \A v, k : Member(v, k)' = Member(v, k)
  BY <1>2, <1>3 DEF Member
<1>6. \A v : StringAt(v)' = StringAt(v)
  BY <1>2, <1>4 DEF StringAt
<1>7. \A v, k, s : HasKey(v, k, s)' <=> HasKey(v, k, s)
  BY <1>4, <1>5, <1>6 DEF HasKey
<1>8. \A v, s : InMap(v, s)' = InMap(v, s)
  BY <1>4, <1>7 DEF InMap
<1>9. \A v, s : InArray(v, s)' = InArray(v, s)
  BY <1>4 DEF InArray
<1>10. \A v, s : Choice(v, s)' = Choice(v, s)
  BY <1>3, <1>4, <1>8, <1>9 DEF Choice
<1>11. \A v, s : Into(v, s)' = Into(v, s)
  BY <1>5, <1>10 DEF Into, Missing
<1>12. ASSUME NEW o \in Nat, NEW p, Len(p) \in Nat
       PROVE  Selection(o, p)' = Selection(o, p)
  <2>1. Leads(Selection(o, p), o, p)'
    <3>1. AllLead'
      BY <1>1, SelectionsLead, PTL
    <3> QED BY <1>12, <3>1 DEF AllLead
  <2>2. PICK f : f = Selection(o, p)'
    OBVIOUS
  <2>3. Leads(f, o, p)
    BY <1>3, <1>11, <2>1, <2>2 DEF Leads
  <2> QED BY <1>12, <2>2, <2>3, OneLeads, SelectionLeads
<1> QED BY <1>7, <1>10, <1>12

\* The entry data e is that of the value at v.
Describes(e, v) ==
  /\ e.offset = v /\ e.type = TypeAt(v)
  /\ e.type \in Compound \cup {UTF8_STRING, BYTES} => e.data_size = SizeAt(v)
  /\ e.type \in {UTF8_STRING, BYTES} => e.bytes = BodyStart(v)
  /\ e.type \in Compound => e.offset_to_next = NextAt(v)

\* A value without members ends by itself.
LEMMA SimpleEnd ==
  ASSUME SectionOK, NEW o \in Nat, ~Invalid(o), TypeAt(o) \notin Compound
  PROVE  EndAt(o) = NextAt(o)
<1>1. MembersAt(o) = 0 /\ NextAt(o) \in Nat
  BY MembersFacts
<1>2. EndAt(o) = EndOf[<<NextAt(o), MembersAt(o)>>]
  BY EndAtFacts
<1> QED BY <1>1, <1>2, EndOfNone

\* decode_one_follow yields the value that the format has at o, or fails for want of one.
LEMMA FollowedValue ==
  ASSUME MemInv, NEW o \in Nat, NEW e \in EntryType
  PROVE  /\ FollowFails(e, o) <=> NoValue(o)
         /\ ~NoValue(o) => /\ Describes(Followed(e, o), Resolved(o))
                           /\ TypeAt(Resolved(o)) \notin Compound =>
                                Followed(e, o).offset_to_next = EndAt(o)
<1>0. SectionOK
  BY MemoryIsSection
<1>1. CASE Invalid(o)
  BY <1>1 DEF FollowFails, NoValue
<1>2. CASE ~Invalid(o) /\ ~PointsAway(o)
  <2>1. Resolved(o) = o
    BY <1>2 DEF Resolved
  <2>2. ~FollowFails(e, o) /\ ~NoValue(o) /\ Followed(e, o) = Decoded(e, o)
    BY <1>2, <2>1 DEF FollowFails, NoValue, Followed
  <2>3. Describes(Decoded(e, o), o)
    BY <1>2, DecodedValue DEF Describes
  <2>4. TypeAt(o) \notin Compound => Decoded(e, o).offset_to_next = EndAt(o)
    BY <1>0, <1>2, DecodedValue, SimpleEnd
  <2> QED BY <2>1, <2>2, <2>3, <2>4
<1>3. CASE PointsAway(o)
  <2> DEFINE f == Decoded(e, o)
             v == Resolved(o)
             t == Decoded(f, v)
  <2>1. ~Invalid(o) /\ f.pointer = v /\ f \in EntryType /\ v \in Nat
        /\ f.offset_to_next = NextAt(o) /\ EndAt(o) = NextAt(o)
    BY <1>0, <1>3, DecodedValue, DecodedEntry, ResolvedFacts DEF PointsAway
  <2>2. t \in EntryType /\ (~Invalid(v) => t.type = TypeAt(v))
    <3> HIDE DEF f, v
    <3> QED BY <2>1, DecodedEntry
  <2>3. FollowFails(e, o) <=> NoValue(o)
    <3>1. FollowFails(e, o) <=> Invalid(v) \/ t.type = POINTER
      BY <1>3, <2>1 DEF FollowFails
    <3>2. NoValue(o) <=> Invalid(v) \/ PointsAway(v)
      BY <2>1 DEF NoValue
    <3> HIDE DEF t, v, f
    <3> QED BY <2>2, <3>1, <3>2 DEF PointsAway
  <2>4. ASSUME ~NoValue(o) PROVE Describes(Followed(e, o), v)
                                 /\ (TypeAt(v) \notin Compound =>
                                       Followed(e, o).offset_to_next = EndAt(o))
    <3>1. ~Invalid(v) /\ ~FollowFails(e, o)
      BY <2>3, <2>4 DEF NoValue
    <3>2. Followed(e, o) = IF t.type \in Compound THEN t
                           ELSE [t EXCEPT !.offset_to_next = f.offset_to_next]
      BY <1>3, <2>1, <3>1 DEF Followed
    <3>3. Describes(t, v)
      <4> HIDE DEF f, v
      <4> QED BY <2>1, <3>1, DecodedValue DEF Describes
    <3> HIDE DEF t, f, v
    <3>4. CASE t.type \in Compound
      BY <2>2, <3>1, <3>2, <3>3, <3>4
    <3>5. CASE t.type \notin Compound
      <4>1. Followed(e, o) = [t EXCEPT !.offset_to_next = NextAt(o)]
        BY <2>1, <3>2, <3>5
      <4>2. PICK q : q = [t EXCEPT !.offset_to_next = NextAt(o)]
        OBVIOUS
      <4>3. q.offset = t.offset /\ q.type = t.type /\ q.data_size = t.data_size
            /\ q.bytes = t.bytes /\ q.offset_to_next = NextAt(o)
        BY <2>2, <4>2 DEF EntryType
      <4>4. Describes(q, v)
        BY <3>3, <3>5, <4>3 DEF Describes
      <4> QED BY <2>1, <4>1, <4>2, <4>3, <4>4
    <3> QED BY <3>4, <3>5
  <2> QED BY <2>3, <2>4
<1> QED BY <1>1, <1>2, <1>3

\* n values at o, in a map from a key on: how they are known to be readable if all the
\* values from a on are, down to d levels; no key down to D levels is anything but a string.
Ahead(o, n, keyed, D, d, a) ==
  /\ OtherKeys[<<o, n, D>>] = {}
  /\ keyed => \A i \in Nat : 2 * i < n => KeyIsString(EndOf[<<o, 2 * i>>])
  /\ Sound(a, 1, MaxDepth) => d \in Nat /\ Sound(o, n, d)

\* A value that is not there is not readable, nor is one at level 0.
LEMMA NotSound ==
  ASSUME SectionOK, NEW o \in Nat, NEW n \in Nat, n # 0, NEW keyed, NEW D, NEW d, NEW a,
         Ahead(o, n, keyed, D, d, a), NoValue(o) \/ d = 0
  PROVE  ~Sound(a, 1, MaxDepth)
<1> SUFFICES ASSUME Sound(a, 1, MaxDepth) PROVE FALSE
  OBVIOUS
<1>1. d \in Nat /\ Sound(o, n, d)
  BY DEF Ahead
<1>2. ~NoValue(o) /\ d >= Levels(o) /\ Levels(o) \in 1 .. 2
  BY <1>1, SoundParts, ResolvedFacts
<1> QED BY <1>1, <1>2

\* One value is passed; so is a key and its value.
LEMMA PassOne ==
  ASSUME SectionOK, NEW o \in Nat, NEW n \in Nat, n # 0, NEW D \in Nat, D # 0, NEW d, NEW a,
         NEW keyed, Ahead(o, n, keyed, D, d, a), ~Invalid(o)
  PROVE  Ahead(EndAt(o), n - 1, FALSE, D, d, a)
<1>1. OtherKeys[<<EndAt(o), n - 1, D>>] = {}
  BY KeysClear DEF Ahead
<1>2. Sound(a, 1, MaxDepth) => d \in Nat /\ Sound(EndAt(o), n - 1, d)
  BY SoundParts DEF Ahead
<1> QED BY <1>1, <1>2 DEF Ahead

\* A key and its value are passed.
LEMMA PassTwo ==
  ASSUME SectionOK, NEW o \in Nat, NEW n \in Nat, n - 2 \in Nat, NEW D \in Nat, D # 0,
         NEW d, NEW a, Ahead(o, n, TRUE, D, d, a), ~Invalid(o), ~Invalid(EndAt(o))
  PROVE  Ahead(EndAt(EndAt(o)), n - 2, TRUE, D, d, a)
<1>1. n # 0 /\ n - 1 \in Nat /\ n - 1 # 0 /\ (n - 1) - 1 = n - 2
  OBVIOUS
<1>2. Ahead(EndAt(o), n - 1, FALSE, D, d, a)
  BY <1>1, PassOne
<1>3. EndAt(o) \in Nat /\ EndAt(EndAt(o)) \in Nat
  BY EndAtFacts
<1>4. Ahead(EndAt(EndAt(o)), (n - 1) - 1, FALSE, D, d, a)
  BY <1>1, <1>2, <1>3, PassOne
<1>5. ASSUME NEW i \in Nat, 2 * i < n - 2
      PROVE  KeyIsString(EndOf[<<EndAt(EndAt(o)), 2 * i>>])
  <2>1. /\ 2 * (i + 1) \in Nat /\ 2 * (i + 1) > 0 /\ 2 * (i + 1) < n /\ i + 1 \in Nat
        /\ 2 * (i + 1) - 1 \in Nat /\ 2 * (i + 1) - 1 > 0 /\ (2 * (i + 1) - 1) - 1 = 2 * i
    BY <1>5
  <2>2. EndOf[<<o, 2 * (i + 1)>>] = EndOf[<<EndAt(o), 2 * (i + 1) - 1>>]
    BY <2>1, EndAtFacts
  <2>3. EndOf[<<EndAt(o), 2 * (i + 1) - 1>>]
          = EndOf[<<EndAt(EndAt(o)), (2 * (i + 1) - 1) - 1>>]
    BY <1>3, <2>1, EndAtFacts
  <2>4. KeyIsString(EndOf[<<o, 2 * (i + 1)>>])
    BY <2>1 DEF Ahead
  <2> QED BY <2>1, <2>2, <2>3, <2>4
<1> QED BY <1>1, <1>4, <1>5 DEF Ahead

\* The members of a value.
LEMMA PassInto ==
  ASSUME SectionOK, NEW o \in Nat, NEW n \in Nat, n # 0, NEW D \in Nat, D # 0, NEW d, NEW a,
         NEW keyed, Ahead(o, n, keyed, D, d, a), ~NoValue(o)
  PROVE  Ahead(NextAt(Resolved(o)), MembersAt(Resolved(o)), TypeAt(Resolved(o)) = MAP,
               D - 1, d - Levels(o), a)
<1>1. ~Invalid(o) /\ ~Invalid(Resolved(o))
  BY DEF NoValue
<1> DEFINE v == Resolved(o)
<1>2. v \in Nat /\ Levels(o) \in 1 .. 2 /\ SizeAt(v) \in Nat
  BY ResolvedFacts, HeadFacts
<1>3. OtherKeys[<<NextAt(v), MembersAt(v), D - 1>>] = {} /\ \A k \in KeysOf(v) : KeyIsString(k)
  BY <1>1, KeysClear DEF Ahead
<1>4. ASSUME TypeAt(v) = MAP, NEW i \in Nat, 2 * i < MembersAt(v)
      PROVE  KeyIsString(EndOf[<<NextAt(v), 2 * i>>])
  <2>1. i \in 0 .. (SizeAt(v) - 1)
    <3>1. MembersAt(v) = 2 * SizeAt(v)
      BY <1>4 DEF MembersAt
    <3> HIDE DEF v
    <3> QED BY <1>2, <1>4, <3>1
  <2>2. EndOf[<<NextAt(v), 2 * i>>] \in KeysOf(v)
    BY <1>4, <2>1 DEF KeysOf
  <2> QED BY <1>3, <2>2
<1>5. ASSUME Sound(a, 1, MaxDepth)
      PROVE  d - Levels(o) \in Nat /\ Sound(NextAt(v), MembersAt(v), d - Levels(o))
  <2>1. d \in Nat /\ Sound(o, n, d)
    BY <1>5 DEF Ahead
  <2>2. d >= Levels(o) /\ Sound(NextAt(v), MembersAt(v), d - Levels(o))
    BY <2>1, SoundParts
  <2> QED BY <1>2, <2>1, <2>2
<1> QED BY <1>3, <1>4, <1>5 DEF Ahead

\* A key ends by itself.
LEMMA KeyEnds ==
  ASSUME SectionOK, NEW o \in Nat, NEW n \in Nat, n # 0, NEW D, NEW d, NEW a,
         Ahead(o, n, TRUE, D, d, a), ~Invalid(o)
  PROVE  EndAt(o) = NextAt(o) /\ KeyIsString(o)
<1>1. KeyIsString(o)
  <2>1. 0 \in Nat /\ 2 * 0 = 0 /\ 2 * 0 < n
    OBVIOUS
  <2>2. KeyIsString(EndOf[<<o, 2 * 0>>])
    BY <2>1 DEF Ahead
  <2> QED BY <2>1, <2>2, EndOfNone
<1>2. CASE PointsAway(o)
  BY <1>1, <1>2, ResolvedFacts
<1>3. CASE ~PointsAway(o)
  <2>1. Resolved(o) = o /\ ~NoValue(o)
    BY <1>3 DEF Resolved, NoValue
  <2>2. TypeAt(o) \notin Compound
    BY <1>1, <2>1 DEF KeyIsString, UTF8_STRING, Compound, MAP, ARRAY
  <2> QED BY <1>1, <2>2, SimpleEnd
<1> QED BY <1>2, <1>3

\* The values that a call of skip_map_or_array has still to pass.
Rem(f) == IF f.map THEN 2 * f.left ELSE f.left

\* The calls sk of skip_map_or_array, with o the place of the next value, get to z: b tells
\* where each finds the value that it passes next, or its caller goes on.
Trail(b, sk, z, o, D, d, a) ==
  /\ b \in [0 .. Len(sk) -> Nat] /\ b[Len(sk)] = o /\ b[0] = z
  /\ \A k \in 1 .. Len(sk) :
       /\ b[k - 1] = EndOf[<<b[k], Rem(sk[k])>>]
       /\ Ahead(b[k], Rem(sk[k]), sk[k].map, D - k, d - k, a)

GetsTo(sk, z, o, D, d, a) == \E b : Trail(b, sk, z, o, D, d, a)

\* Without a call nothing is left to pass.
LEMMA NoSkips ==
  ASSUME NEW o \in Nat, NEW z, NEW D, NEW d, NEW a
  PROVE  GetsTo(<< >>, z, o, D, d, a) <=> z = o
<1>1. ASSUME z = o PROVE GetsTo(<< >>, z, o, D, d, a)
  <2> DEFINE b == [k \in 0 .. 0 |-> o]
  <2>1. b \in [0 .. 0 -> Nat] /\ b[0] = o /\ Len(<< >>) = 0 /\ 1 .. 0 = {}
    OBVIOUS
  <2>2. Trail(b, << >>, z, o, D, d, a)
    BY <1>1, <2>1 DEF Trail
  <2> QED BY <2>2 DEF GetsTo
<1>2. ASSUME GetsTo(<< >>, z, o, D, d, a) PROVE z = o
  BY <1>2 DEF GetsTo, Trail
<1> QED BY <1>1, <1>2

\* The innermost call ends where its caller goes on.
LEMMA SkipsPop ==
  ASSUME NEW u \in Seq(SkipFrame), NEW f \in SkipFrame, NEW z, NEW o, NEW D, NEW d, NEW a,
         GetsTo(Append(u, f), z, o, D, d, a)
  PROVE  /\ GetsTo(u, z, EndOf[<<o, Rem(f)>>], D, d, a)
         /\ Ahead(o, Rem(f), f.map, D - (Len(u) + 1), d - (Len(u) + 1), a)
         /\ o \in Nat /\ z \in Nat
<1> DEFINE sk == Append(u, f)
           n == Len(u)
<1>1. Len(sk) = n + 1 /\ n \in Nat /\ sk[n + 1] = f /\ \A k \in 1 .. n : sk[k] = u[k]
  OBVIOUS
<1>2. PICK b : Trail(b, sk, z, o, D, d, a)
  BY DEF GetsTo
<1> HIDE DEF sk, n
<1>3. /\ b \in [0 .. (n + 1) -> Nat] /\ b[n + 1] = o /\ b[0] = z
      /\ \A k \in 1 .. (n + 1) : /\ b[k - 1] = EndOf[<<b[k], Rem(sk[k])>>]
                                 /\ Ahead(b[k], Rem(sk[k]), sk[k].map, D - k, d - k, a)
  BY <1>1, <1>2 DEF Trail
<1>4. /\ n + 1 \in 1 .. (n + 1) /\ (n + 1) - 1 = n /\ n \in 0 .. n
      /\ \A k \in 1 .. n : k \in 1 .. (n + 1) /\ k - 1 \in 0 .. n /\ k \in 0 .. n
      /\ \A k \in 0 .. n : k \in 0 .. (n + 1)
  BY <1>1
<1>5. b[n] = EndOf[<<o, Rem(f)>>] /\ Ahead(o, Rem(f), f.map, D - (n + 1), d - (n + 1), a)
  BY <1>1, <1>3, <1>4
<1> DEFINE c == [k \in 0 .. n |-> b[k]]
<1>6. c \in [0 .. n -> Nat] /\ c[n] = b[n] /\ c[0] = z
      /\ \A k \in 1 .. n : c[k] = b[k] /\ c[k - 1] = b[k - 1]
  BY <1>1, <1>3, <1>4
<1> HIDE DEF c
<1>7. \A k \in 1 .. n : /\ c[k - 1] = EndOf[<<c[k], Rem(u[k])>>]
                        /\ Ahead(c[k], Rem(u[k]), u[k].map, D - k, d - k, a)
  BY <1>1, <1>3, <1>4, <1>6
<1>8. Trail(c, u, z, EndOf[<<o, Rem(f)>>], D, d, a)
  BY <1>5, <1>6, <1>7 DEF Trail, n
<1>9. o \in Nat /\ z \in Nat
  BY <1>1, <1>3
<1> QED BY <1>5, <1>8, <1>9 DEF GetsTo, n

\* A call is made, to pass values that end where its caller goes on.
LEMMA SkipsPush ==
  ASSUME NEW u \in Seq(SkipFrame), NEW f \in SkipFrame, NEW z, NEW o \in Nat, NEW D, NEW d,
         NEW a, GetsTo(u, z, EndOf[<<o, Rem(f)>>], D, d, a),
         Ahead(o, Rem(f), f.map, D - (Len(u) + 1), d - (Len(u) + 1), a)
  PROVE  GetsTo(Append(u, f), z, o, D, d, a)
<1> DEFINE sk == Append(u, f)
           n == Len(u)
<1>1. Len(sk) = n + 1 /\ n \in Nat /\ sk[n + 1] = f /\ \A k \in 1 .. n : sk[k] = u[k]
  OBVIOUS
<1>2. PICK b : Trail(b, u, z, EndOf[<<o, Rem(f)>>], D, d, a)
  BY DEF GetsTo
<1> HIDE DEF sk
<1>3. /\ b \in [0 .. n -> Nat] /\ b[n] = EndOf[<<o, Rem(f)>>] /\ b[0] = z
      /\ \A k \in 1 .. n : /\ b[k - 1] = EndOf[<<b[k], Rem(u[k])>>]
                           /\ Ahead(b[k], Rem(u[k]), u[k].map, D - k, d - k, a)
  BY <1>2 DEF Trail
<1>4. Ahead(o, Rem(f), f.map, D - (n + 1), d - (n + 1), a)
  OBVIOUS
<1> HIDE DEF n
<1>5. /\ n + 1 \in 0 .. (n + 1) /\ (n + 1) - 1 = n /\ n \in 0 .. n /\ n # n + 1 /\ 0 # n + 1
      /\ \A k \in 1 .. n : k \in 0 .. n /\ k - 1 \in 0 .. n
      /\ \A k \in 0 .. n : k # n + 1 /\ k \in 0 .. (n + 1)
      /\ \A k \in 1 .. (n + 1) : k = n + 1 \/ k \in 1 .. n
      /\ \A k \in 0 .. (n + 1) : k = n + 1 \/ k \in 0 .. n
      /\ 0 \in 0 .. n
  BY <1>1
<1> DEFINE c == [k \in 0 .. (n + 1) |-> IF k = n + 1 THEN o ELSE b[k]]
<1>6. c \in [0 .. (n + 1) -> Nat]
  BY <1>3, <1>5
<1>7. c[n + 1] = o /\ \A k \in 0 .. n : c[k] = b[k]
  BY <1>5
<1> HIDE DEF c
<1>8. ASSUME NEW k \in 1 .. (n + 1)
      PROVE  /\ c[k - 1] = EndOf[<<c[k], Rem(sk[k])>>]
             /\ Ahead(c[k], Rem(sk[k]), sk[k].map, D - k, d - k, a)
  <2>1. CASE k = n + 1
    <3>1. c[k] = o /\ sk[k] = f /\ c[k - 1] = b[n]
      BY <1>1, <1>5, <1>7, <2>1
    <3> QED BY <1>3, <1>4, <2>1, <3>1
  <2>2. CASE k \in 1 .. n
    <3>1. c[k] = b[k] /\ c[k - 1] = b[k - 1] /\ sk[k] = u[k]
      BY <1>1, <1>5, <1>7, <2>2
    <3> QED BY <1>3, <2>2, <3>1
  <2> QED BY <1>5, <2>1, <2>2
<1>9. Trail(c, sk, z, o, D, d, a)
  BY <1>1, <1>3, <1>5, <1>6, <1>7, <1>8 DEF Trail
<1> QED BY <1>9 DEF GetsTo, sk

\* The value at q is passed: what skip_map_or_array is called for it, if it is.
LEMMA SkipsEnter ==
  ASSUME MemInv, NEW sk \in Seq(SkipFrame), NEW z, NEW q \in Nat, NEW n \in Nat, n # 0,
         NEW D \in Int, NEW d \in Int, NEW a, NEW keyed, NEW e \in EntryType,
         D - Len(sk) \in Nat, D - Len(sk) # 0, ~Invalid(q),
         Ahead(q, n, keyed, D - Len(sk), d - Len(sk), a),
         GetsTo(sk, z, EndAt(q), D, d, a)
  PROVE  GetsTo(Entered(sk, Decoded(e, q)), z, NextAt(q), D, d, a)
<1>0. SectionOK /\ Len(sk) \in Nat
  BY MemoryIsSection
<1>1. Decoded(e, q).type = TypeAt(q)
      /\ (TypeAt(q) \in Compound => Decoded(e, q).data_size = SizeAt(q))
  BY DecodedValue
<1>2. NextAt(q) \in Nat /\ SizeAt(q) \in Nat
  BY <1>0, MembersFacts, HeadFacts
<1>3. CASE TypeAt(q) \notin Compound
  BY <1>0, <1>1, <1>3, SimpleEnd DEF Entered
<1>4. CASE TypeAt(q) \in Compound
  <2> DEFINE f == [left |-> SizeAt(q), map |-> TypeAt(q) = MAP]
  <2>1. f \in SkipFrame /\ Rem(f) = MembersAt(q) /\ f.map = (TypeAt(q) = MAP)
    BY <1>2, <1>4 DEF SkipFrame, Rem, MembersAt, Compound
  <2>2. Entered(sk, Decoded(e, q)) = Append(sk, f)
    BY <1>1, <1>4 DEF Entered
  <2>3. Resolved(q) = q /\ ~NoValue(q) /\ Levels(q) = 1
    BY <1>4 DEF Resolved, NoValue, Levels, PointsAway, Compound, MAP, ARRAY, POINTER
  <2>4. Ahead(NextAt(q), MembersAt(q), TypeAt(q) = MAP, (D - Len(sk)) - 1, (d - Len(sk)) - 1, a)
    BY <1>0, <2>3, PassInto
  <2>5. (D - Len(sk)) - 1 = D - (Len(sk) + 1) /\ (d - Len(sk)) - 1 = d - (Len(sk) + 1)
    BY <1>0
  <2>6. EndAt(q) = EndOf[<<NextAt(q), MembersAt(q)>>]
    BY <1>0, EndAtFacts
  <2>7. Ahead(NextAt(q), Rem(f), f.map, D - (Len(sk) + 1), d - (Len(sk) + 1), a)
    <3> HIDE DEF f
    <3> QED BY <2>1, <2>4, <2>5
  <2>8. GetsTo(sk, z, EndOf[<<NextAt(q), Rem(f)>>], D, d, a)
    <3> HIDE DEF f
    <3> QED BY <2>1, <2>6
  <2> HIDE DEF f
  <2> QED BY <1>2, <2>1, <2>2, <2>7, <2>8, SkipsPush
<1> QED BY <1>3, <1>4

\* The first j elements of the path p lead from the value at o to the one at v, which
\* the caller's struct e describes.
Reached(o, p, j, v, e, D, d) ==
  /\ j \in 0 .. Len(p) /\ v \in Nat /\ v = Selection(o, p)[j] /\ ~Invalid(v)
  /\ Describes(e, v)
  /\ D \in Nat /\ D >= MaxDepth + (Len(p) - j) /\ d \in Int /\ d <= MaxDepth
  /\ Ahead(NextAt(v), MembersAt(v), TypeAt(v) = MAP, D, d, o)

\* q is what is left of the path p after j elements.
Rest(q, p, j) == Len(q) = Len(p) - j /\ \A k \in 1 .. Len(q) : q[k] = p[j + k]

\* lookup_path_in_array is past i members, or passing the last of them; it has m to pass
\* before the one that it looks for.
AmongElements(s, v, i, m, x, sk, D, d, o) ==
  /\ TypeAt(v) = ARRAY /\ i + m < SizeAt(v) /\ Choice(v, s) = {i + m}
  /\ GetsTo(sk, EndOf[<<NextAt(v), i>>], x, D, d, o)
  /\ Ahead(EndOf[<<NextAt(v), i>>], SizeAt(v) - i, FALSE, D, d, o)

\* lookup_path_in_map is past i keys and values; it has m to compare.
AmongKeys(s, v, i, m, x, sk, D, d, o) ==
  /\ TypeAt(v) = MAP /\ i + m = SizeAt(v) /\ \A k \in 0 .. (i - 1) : ~HasKey(v, k, s)
  /\ GetsTo(sk, EndOf[<<NextAt(v), 2 * i>>], x, D, d, o)
  /\ Ahead(EndOf[<<NextAt(v), 2 * i>>], 2 * m, TRUE, D, d, o)

\* Where a lookup of the path p from the value at o is: the loop l, q left of the path,
\* m rounds left, x the place of the next value, the calls sk of skip_map_or_array.
Searching(l, o, p, q, m, x, sk, e, j, v, D, d) ==
  /\ Reached(o, p, j, v, e, D, d) /\ Rest(q, p, j)
  /\ l \in {"path", "array", "map"}
  /\ l = "path" => sk = << >>
  /\ l # "path" => q # << >>
  /\ l = "array" => \E i \in Nat : AmongElements(p[j + 1], v, i, m, x, sk, D, d, o)
  /\ l = "map" => \E i \in Nat : AmongKeys(p[j + 1], v, i, m, x, sk, D, d, o)

AskedInv == /\ asked \in [start : Nat, path : Seq(Seq(Byte))] /\ path \in Seq(Seq(Byte))
            /\ lookup = "idle" => skips = << >>
            /\ lookup \in {"array", "map"} => path # << >>

\* A call under way.
LookInv ==
  lookup # "idle" /\ KeysAreStrings(asked.start, asked.path) =>
    \E j, v, D, d : Searching(lookup, asked.start, asked.path, path, left,
                              value.offset_to_next, skips, entry_data, j, v, D, d)

\* What a call that has ended says of the path p at o.
Outcome(o, p, e, r) ==
  /\ r = "MMDB_SUCCESS" => Selected(o, p) # Missing /\ Describes(e, Selected(o, p))
  /\ r = "MMDB_INVALID_DATA_ERROR" => ~Sound(o, 1, MaxDepth)
  /\ r \in {"MMDB_INVALID_LOOKUP_PATH_ERROR", "MMDB_LOOKUP_PATH_DOES_NOT_MATCH_DATA_ERROR"} =>
       Selected(o, p) = Missing /\ e = EmptyEntry

OutcomeInv ==
  lookup = "idle" /\ result # "none" /\ KeysAreStrings(asked.start, asked.path) =>
    Outcome(asked.start, asked.path, entry_data, result)

LostInv == AskedInv /\ LookInv /\ OutcomeInv

\* None of it changes unless the lookup goes on.
LEMMA AheadUnchanged ==
  ASSUME SectionOK, UNCHANGED memoryVars
  PROVE  /\ \A o, n, b, D, d, a : Ahead(o, n, b, D, d, a)' <=> Ahead(o, n, b, D, d, a)
         /\ \A sk, z, o, D, d, a : GetsTo(sk, z, o, D, d, a)' <=> GetsTo(sk, z, o, D, d, a)
         /\ \A e, v : Describes(e, v)' <=> Describes(e, v)
         /\ \A o, n, d : Sound(o, n, d)' <=> Sound(o, n, d)
<1>1. EndOf' = EndOf /\ Preorder' = Preorder
  BY FormatUnchanged
<1>2. OtherKeys' = OtherKeys /\ \A o : KeyIsString(o)' <=> KeyIsString(o)
  BY KeysUnchanged
<1>3. \A o, n, d : Sound(o, n, d)' <=> Sound(o, n, d)
  BY <1>1 DEF Sound, Readable, Unreadable, Nowhere
<1>4. ASSUME NEW o, NEW n, NEW b, NEW D, NEW d, NEW a
      PROVE  Ahead(o, n, b, D, d, a)' <=> Ahead(o, n, b, D, d, a)
  <2>1. (Sound(a, 1, MaxDepth) => d \in Nat /\ Sound(o, n, d))'
          <=> (Sound(a, 1, MaxDepth) => d \in Nat /\ Sound(o, n, d))
    BY <1>3 DEF MaxDepth
  <2>2. (OtherKeys[<<o, n, D>>] = {})' <=> OtherKeys[<<o, n, D>>] = {}
    BY <1>2
  <2>3. (\A i \in Nat : 2 * i < n => KeyIsString(EndOf[<<o, 2 * i>>]))'
          <=> (\A i \in Nat : 2 * i < n => KeyIsString(EndOf[<<o, 2 * i>>]))
    <3>1. \A i : KeyIsString(EndOf[<<o, 2 * i>>])' <=> KeyIsString(EndOf[<<o, 2 * i>>])
      BY <1>1, <1>2
    <3> QED BY <3>1
  <2> QED BY <2>1, <2>2, <2>3, Zenon DEF Ahead
<1>5. \A b, sk, z, o, D, d, a : Trail(b, sk, z, o, D, d, a)' <=> Trail(b, sk, z, o, D, d, a)
  BY <1>1, <1>4 DEF Trail, Rem
<1>6. \A sk, z, o, D, d, a : GetsTo(sk, z, o, D, d, a)' <=> GetsTo(sk, z, o, D, d, a)
  BY <1>5 DEF GetsTo
<1>7. \A e, v : Describes(e, v)' <=> Describes(e, v)
  <2>1. \A v : /\ TypeAt(v)' = TypeAt(v) /\ SizeAt(v)' = SizeAt(v)
               /\ BodyStart(v)' = BodyStart(v) /\ NextAt(v)' = NextAt(v)
    BY HeadsUnchanged, ValuesUnchanged
  <2> QED BY <2>1 DEF Describes
<1> QED BY <1>3, <1>4, <1>6, <1>7

\* What is left of a lookup.
LEMMA SearchUnchanged ==
  ASSUME SectionOK, UNCHANGED memoryVars
  PROVE  /\ \A o \in Nat : \A p : Len(p) \in Nat =>
              /\ KeysAreStrings(o, p)' <=> KeysAreStrings(o, p)
              /\ \A e, r : Outcome(o, p, e, r)' <=> Outcome(o, p, e, r)
              /\ \A l, q, m, x, sk, e, j, v, D, d :
                   Searching(l, o, p, q, m, x, sk, e, j, v, D, d)'
                     <=> Searching(l, o, p, q, m, x, sk, e, j, v, D, d)
<1>1. EndOf' = EndOf /\ OtherKeys' = OtherKeys
  BY FormatUnchanged, KeysUnchanged
<1>2. /\ \A o, n, b, D, d, a : Ahead(o, n, b, D, d, a)' <=> Ahead(o, n, b, D, d, a)
      /\ \A sk, z, o, D, d, a : GetsTo(sk, z, o, D, d, a)' <=> GetsTo(sk, z, o, D, d, a)
      /\ \A e, v : Describes(e, v)' <=> Describes(e, v)
      /\ \A o, n, d : Sound(o, n, d)' <=> Sound(o, n, d)
  BY AheadUnchanged
<1>3. \A v : /\ TypeAt(v)' = TypeAt(v) /\ SizeAt(v)' = SizeAt(v) /\ NextAt(v)' = NextAt(v)
             /\ MembersAt(v)' = MembersAt(v) /\ (Invalid(v)' <=> Invalid(v))
  BY HeadsUnchanged, ValuesUnchanged
<1>4. /\ \A v, s : Choice(v, s)' = Choice(v, s)
      /\ \A v, k, s : HasKey(v, k, s)' <=> HasKey(v, k, s)
      /\ \A o \in Nat : \A p : Len(p) \in Nat => Selection(o, p)' = Selection(o, p)
  BY SelectionUnchanged
<1> SUFFICES ASSUME NEW o \in Nat, NEW p, Len(p) \in Nat
             PROVE  /\ KeysAreStrings(o, p)' <=> KeysAreStrings(o, p)
                    /\ \A e, r : Outcome(o, p, e, r)' <=> Outcome(o, p, e, r)
                    /\ \A l, q, m, x, sk, e, j, v, D, d :
                         Searching(l, o, p, q, m, x, sk, e, j, v, D, d)'
                           <=> Searching(l, o, p, q, m, x, sk, e, j, v, D, d)
  OBVIOUS
<1>5. KeysAreStrings(o, p)' <=> KeysAreStrings(o, p)
  BY <1>1 DEF KeysAreStrings, MaxDepth
<1>6. Selection(o, p)' = Selection(o, p) /\ Selected(o, p)' = Selected(o, p)
  BY <1>4 DEF Selected
<1>7. \A e, r : Outcome(o, p, e, r)' <=> Outcome(o, p, e, r)
  BY <1>2, <1>6 DEF Outcome, Missing, MaxDepth, EmptyEntry
<1>8. \A j, v, e, D, d : Reached(o, p, j, v, e, D, d)' <=> Reached(o, p, j, v, e, D, d)
  BY <1>2, <1>3, <1>6 DEF Reached, MaxDepth, MAP
<1>9. \A v, i : EndOf[<<NextAt(v), i>>]' = EndOf[<<NextAt(v), i>>]
  BY <1>1, <1>3
<1>10. ASSUME NEW s, NEW v, NEW i, NEW m, NEW x, NEW sk, NEW D, NEW d
       PROVE  /\ AmongElements(s, v, i, m, x, sk, D, d, o)'
                   <=> AmongElements(s, v, i, m, x, sk, D, d, o)
              /\ AmongKeys(s, v, i, m, x, sk, D, d, o)'
                   <=> AmongKeys(s, v, i, m, x, sk, D, d, o)
  <2>1. AmongElements(s, v, i, m, x, sk, D, d, o)' <=> AmongElements(s, v, i, m, x, sk, D, d, o)
    BY <1>2, <1>3, <1>4, <1>9 DEF AmongElements, ARRAY
  <2>2. AmongKeys(s, v, i, m, x, sk, D, d, o)' <=> AmongKeys(s, v, i, m, x, sk, D, d, o)
    BY <1>2, <1>3, <1>4, <1>9 DEF AmongKeys, MAP
  <2> QED BY <2>1, <2>2
<1>11. ASSUME NEW l, NEW q, NEW m, NEW x, NEW sk, NEW e, NEW j, NEW v, NEW D, NEW d
       PROVE  Searching(l, o, p, q, m, x, sk, e, j, v, D, d)'
                <=> Searching(l, o, p, q, m, x, sk, e, j, v, D, d)
  BY <1>8, <1>10 DEF Searching, Rest
<1> QED BY <1>5, <1>7, <1>11

\* Nothing of a lookup changes.
LEMMA LookUnmoved ==
  ASSUME MemInv, LostInv, UNCHANGED memoryVars, UNCHANGED pathVars
  PROVE  LostInv'
<1>1. SectionOK /\ asked.start \in Nat /\ Len(asked.path) \in Nat
  BY MemoryIsSection DEF LostInv, AskedInv
<1>2. UNCHANGED <<lookup, asked, path, left, value, skips, entry_data, result>>
  BY DEF pathVars
<1> DEFINE o == asked.start
           p == asked.path
<1>3. /\ KeysAreStrings(o, p)' <=> KeysAreStrings(o, p)
      /\ \A e, r : Outcome(o, p, e, r)' <=> Outcome(o, p, e, r)
      /\ \A l, q, m, x, sk, e, j, v, D, d :
           Searching(l, o, p, q, m, x, sk, e, j, v, D, d)'
             <=> Searching(l, o, p, q, m, x, sk, e, j, v, D, d)
  BY <1>1, <1>2, SearchUnchanged
<1>4. AskedInv'
  BY <1>2 DEF LostInv, AskedInv
<1>5. LookInv'
  BY <1>2, <1>3 DEF LostInv, LookInv
<1>6. OutcomeInv'
  BY <1>2, <1>3 DEF LostInv, OutcomeInv
<1> QED BY <1>4, <1>5, <1>6 DEF LostInv

\* A lookup goes on.
LEMMA LookGoesOn ==
  ASSUME MemInv, UNCHANGED memoryVars, NEW o \in Nat, NEW p \in Seq(Seq(Byte)),
         asked' = [start |-> o, path |-> p], path' \in Seq(Seq(Byte)), lookup' # "idle",
         lookup' # "path" => path' # << >>,
         KeysAreStrings(o, p) =>
           \E j, v, D, d : Searching(lookup', o, p, path', left', value'.offset_to_next,
                                     skips', entry_data', j, v, D, d)
  PROVE  LostInv'
<1>1. SectionOK /\ Len(p) \in Nat
  BY MemoryIsSection
<1>2. /\ KeysAreStrings(o, p)' <=> KeysAreStrings(o, p)
      /\ \A l, q, m, x, sk, e, j, v, D, d :
           Searching(l, o, p, q, m, x, sk, e, j, v, D, d)'
             <=> Searching(l, o, p, q, m, x, sk, e, j, v, D, d)
  BY <1>1, SearchUnchanged
<1>3. asked.start' = o /\ asked.path' = p
  OBVIOUS
<1>4. AskedInv'
  BY DEF AskedInv
<1>5. LookInv'
  BY <1>2, <1>3 DEF LookInv
<1>6. OutcomeInv'
  BY DEF OutcomeInv
<1> QED BY <1>4, <1>5, <1>6 DEF LostInv

\* A lookup ends.
LEMMA LookEnds ==
  ASSUME MemInv, UNCHANGED memoryVars, NEW o \in Nat, NEW p \in Seq(Seq(Byte)),
         asked' = [start |-> o, path |-> p], path' \in Seq(Seq(Byte)), lookup' = "idle",
         skips' = << >>, KeysAreStrings(o, p) => Outcome(o, p, entry_data', result')
  PROVE  LostInv'
<1>1. SectionOK /\ Len(p) \in Nat
  BY MemoryIsSection
<1>2. /\ KeysAreStrings(o, p)' <=> KeysAreStrings(o, p)
      /\ \A e, r : Outcome(o, p, e, r)' <=> Outcome(o, p, e, r)
  BY <1>1, SearchUnchanged
<1>3. asked.start' = o /\ asked.path' = p
  OBVIOUS
<1>4. AskedInv'
  BY DEF AskedInv
<1>5. LookInv'
  BY DEF LookInv
<1>6. OutcomeInv'
  BY <1>2, <1>3 DEF OutcomeInv
<1> QED BY <1>4, <1>5, <1>6 DEF LostInv

\* The arguments of a call.
LEMMA AskedFacts ==
  ASSUME AskedInv
  PROVE  /\ asked.start \in Nat /\ asked.path \in Seq(Seq(Byte))
         /\ asked = [start |-> asked.start, path |-> asked.path]
         /\ path \in Seq(Seq(Byte)) /\ << >> \in Seq(Seq(Byte))
BY DEF AskedInv

\* A lookup fails: either the values are not readable, or there is no such value.
LEMMA LookFails ==
  ASSUME MemInv, UNCHANGED memoryVars, AskedInv, NEW st, Fail(st),
         \/ /\ st = "MMDB_INVALID_DATA_ERROR"
            /\ KeysAreStrings(asked.start, asked.path) => ~Sound(asked.start, 1, MaxDepth)
         \/ /\ st \in {"MMDB_INVALID_LOOKUP_PATH_ERROR",
                       "MMDB_LOOKUP_PATH_DOES_NOT_MATCH_DATA_ERROR"}
            /\ KeysAreStrings(asked.start, asked.path) =>
                 Selected(asked.start, asked.path) = Missing
  PROVE  LostInv'
<1> DEFINE o == asked.start
           p == asked.path
<1>1. o \in Nat /\ p \in Seq(Seq(Byte)) /\ asked = [start |-> o, path |-> p]
      /\ << >> \in Seq(Seq(Byte))
  BY AskedFacts
<1>2. asked' = asked /\ path' = << >> /\ lookup' = "idle" /\ result' = st
      /\ entry_data' = EmptyEntry /\ skips' = << >>
  BY DEF Fail, Return
<1>3. KeysAreStrings(o, p) => Outcome(o, p, entry_data', result')
  BY <1>2 DEF Outcome
<1>4. asked' = [start |-> o, path |-> p] /\ path' \in Seq(Seq(Byte))
  BY <1>1, <1>2
<1> HIDE DEF o, p
<1> QED BY <1>1, <1>2, <1>3, <1>4, LookEnds

\* The depths that the keys are known for suffice.
LEMMA DepthLeft ==
  ASSUME NEW o, NEW p \in Seq(Seq(Byte)), NEW j, NEW v, NEW e, NEW D, NEW d,
         Reached(o, p, j, v, e, D, d)
  PROVE  /\ D \in Nat /\ j \in Nat /\ Len(p) - j \in Nat /\ MaxDepth \in Nat /\ MaxDepth # 0
         /\ D >= MaxDepth /\ D # 0 /\ d \in Int /\ d <= MaxDepth
<1>1. MaxDepth \in Nat /\ MaxDepth # 0
  BY SectionAssumption DEF MaxDepth
<1> QED BY <1>1 DEF Reached

\* The first of the n values at x is the one that the path leads to next.
Facing(x, o, p, q, e, j, v, D, d, n) ==
  /\ Reached(o, p, j, v, e, D, d) /\ Rest(q, p, j) /\ n \in Nat /\ n # 0
  /\ \E keyed : Ahead(x, n, keyed, D, d, o)
  /\ Into(v, p[j + 1]) = Resolved(x)

\* It is reached.
LEMMA FoundLooks ==
  ASSUME MemInv, UNCHANGED memoryVars, AskedInv, path # << >>, skips = << >>,
         NEW x \in Nat, Found(x),
         KeysAreStrings(asked.start, asked.path) =>
           \E j, v, D, d, n :
             Facing(x, asked.start, asked.path, path, entry_data, j, v, D, d, n)
  PROVE  LostInv'
<1> DEFINE o == asked.start
           p == asked.path
           K == KeysAreStrings(o, p)
<1>1. o \in Nat /\ p \in Seq(Seq(Byte)) /\ asked = [start |-> o, path |-> p]
      /\ path \in Seq(Seq(Byte)) /\ SectionOK /\ Uninitialised \in EntryType
  BY AskedFacts, MemoryIsSection, PathAssumption
<1>2. FollowFails(Uninitialised, x) <=> NoValue(x)
  BY <1>1, FollowedValue
<1>3. CASE NoValue(x)
  <2>1. Fail("MMDB_INVALID_DATA_ERROR")
    BY <1>2, <1>3 DEF Found
  <2>2. K => ~Sound(o, 1, MaxDepth)
    BY <1>1, <1>3, NotSound DEF Facing
  <2> QED BY <2>1, <2>2, LookFails
<1>4. CASE ~NoValue(x)
  <2>1. /\ entry_data' = Followed(Uninitialised, x) /\ lookup' = "path" /\ path' = Tail(path)
        /\ asked' = asked /\ skips' = << >>
    BY <1>2, <1>4 DEF Found
  <2>2. Describes(entry_data', Resolved(x)) /\ Resolved(x) \in Nat /\ ~Invalid(Resolved(x))
        /\ Levels(x) \in 1 .. 2
    BY <1>1, <1>4, <2>1, FollowedValue, ResolvedFacts DEF NoValue
  <2>3. path' \in Seq(Seq(Byte)) /\ Len(path') = Len(path) - 1 /\ Len(path) \in Nat
        /\ \A k \in 1 .. Len(path') : path'[k] = path[k + 1]
    BY <1>1, <2>1
  <2>4. ASSUME K
        PROVE  \E j, v, D, d : Searching("path", o, p, path', left', value'.offset_to_next,
                                         << >>, entry_data', j, v, D, d)
    <3>0. PICK j, v, D, d, n : Facing(x, o, p, path, entry_data, j, v, D, d, n)
      BY <2>4
    <3>1. PICK keyed :
            /\ Reached(o, p, j, v, entry_data, D, d) /\ Rest(path, p, j) /\ n \in Nat /\ n # 0
            /\ Ahead(x, n, keyed, D, d, o) /\ Into(v, p[j + 1]) = Resolved(x)
      BY <3>0 DEF Facing
    <3>2. /\ D \in Nat /\ j \in Nat /\ Len(p) - j \in Nat /\ MaxDepth \in Nat
          /\ D >= MaxDepth /\ D # 0 /\ d \in Int /\ d <= MaxDepth
          /\ D >= MaxDepth + (Len(p) - j)
      BY <1>1, <3>1, DepthLeft DEF Reached
    <3>3. Len(path) # 0
      BY <1>1
    <3>4. /\ j + 1 \in 1 .. Len(p) /\ j + 1 \in 0 .. Len(p) /\ (j + 1) - 1 = j
          /\ Len(path') = Len(p) - (j + 1) /\ Len(p) \in Nat
      <4>1. Len(path) = Len(p) - j
        BY <3>1 DEF Rest
      <4>2. Len(p) \in Nat
        BY <1>1
      <4>3. Len(path') = Len(path) - 1 /\ Len(path) \in Nat
        BY <2>3
      <4> HIDE DEF p
      <4> QED BY <3>2, <3>3, <4>1, <4>2, <4>3
    <3>5. Resolved(x) = Selection(o, p)[j + 1]
      <4>1. Selection(o, p)[j] = v
        BY <3>1 DEF Reached
      <4>2. \A k \in 1 .. Len(p) : Selection(o, p)[k] = Into(Selection(o, p)[k - 1], p[k])
        BY <1>1, <3>4, SelectionLeads DEF Leads
      <4> QED BY <3>1, <3>4, <4>1, <4>2
    <3>6. Ahead(NextAt(Resolved(x)), MembersAt(Resolved(x)), TypeAt(Resolved(x)) = MAP,
                D - 1, d - Levels(x), o)
      BY <1>1, <1>4, <3>1, <3>2, PassInto
    <3>7. /\ D - 1 \in Nat /\ D - 1 >= MaxDepth + (Len(p) - (j + 1))
          /\ d - Levels(x) \in Int /\ d - Levels(x) <= MaxDepth
      BY <2>2, <3>2, <3>4
    <3>8. Reached(o, p, j + 1, Resolved(x), entry_data', D - 1, d - Levels(x))
      BY <2>2, <3>4, <3>5, <3>6, <3>7 DEF Reached
    <3>9. Rest(path', p, j + 1)
      <4>1. ASSUME NEW k \in 1 .. Len(path') PROVE path'[k] = p[(j + 1) + k]
        <5>1. k + 1 \in 1 .. Len(path) /\ (j + 1) + k = j + (k + 1)
          BY <2>3, <3>2
        <5>2. path'[k] = path[k + 1] /\ path[k + 1] = p[j + (k + 1)]
          BY <2>3, <3>1, <5>1 DEF Rest
        <5> QED BY <5>1, <5>2
      <4> QED BY <3>4, <4>1 DEF Rest
    <3>10. Searching("path", o, p, path', left', value'.offset_to_next, << >>, entry_data',
                     j + 1, Resolved(x), D - 1, d - Levels(x))
      BY <3>8, <3>9 DEF Searching
    <3> QED BY <3>10
  <2>5. asked' = [start |-> o, path |-> p] /\ lookup' # "idle" /\ lookup' = "path"
    BY <1>1, <2>1
  <2> HIDE DEF o, p, K
  <2> QED BY <1>1, <2>1, <2>3, <2>4, <2>5, LookGoesOn DEF K
<1> QED BY <1>3, <1>4

\* The call.
LEMMA CallLooks ==
  ASSUME MemInv, LostInv, CallPath
  PROVE  LostInv'
<1>1. PICK o \in Starts, p \in Paths : MMDB_get_value(o, p)
  BY DEF CallPath
<1>2. UNCHANGED memoryVars /\ o \in Nat /\ p \in Seq(Seq(Byte)) /\ SectionOK /\ AskedInv
      /\ Len(p) \in Nat
  BY MemoryIsSection, PathAssumption DEF CallPath, LostInv
<1>3. CASE PathOutOfMemory
  <2>1. /\ asked' = asked /\ path' = path /\ lookup' = "idle" /\ skips' = skips
        /\ lookup = "idle" /\ result' = "MMDB_OUT_OF_MEMORY_ERROR"
    BY <1>3 DEF PathOutOfMemory
  <2>2. /\ asked.start \in Nat /\ asked.path \in Seq(Seq(Byte)) /\ path' \in Seq(Seq(Byte))
        /\ asked' = [start |-> asked.start, path |-> asked.path] /\ skips' = << >>
    BY <1>2, <2>1, AskedFacts DEF AskedInv
  <2>3. Outcome(asked.start, asked.path, entry_data', result')
    BY <2>1 DEF Outcome
  <2> QED BY <1>2, <2>1, <2>2, <2>3, LookEnds
<1>4. CASE MMDB_aget_value(o, p)
  <2>1. /\ asked' = [start |-> o, path |-> p] /\ entry_data' = Followed(EmptyEntry, o)
        /\ lookup = "idle"
    BY <1>4 DEF MMDB_aget_value
  <2>2. skips = << >> /\ path \in Seq(Seq(Byte))
    BY <1>2, <2>1 DEF AskedInv
  <2>3. FollowFails(EmptyEntry, o) <=> NoValue(o)
    BY <1>2, FollowedValue, EmptyIsEntry
  <2>4. MaxDepth \in Nat /\ MaxDepth # 0
    BY SectionAssumption DEF MaxDepth
  <2>5. CASE NoValue(o)
    <3>1. lookup' = "idle" /\ result' = "MMDB_INVALID_DATA_ERROR" /\ path' = path
          /\ skips' = skips
      BY <1>4, <2>3, <2>5 DEF MMDB_aget_value
    <3>2. ~Sound(o, 1, MaxDepth)
      BY <1>2, <2>4, <2>5, SoundParts
    <3>3. Outcome(o, p, entry_data', result')
      BY <3>1, <3>2 DEF Outcome
    <3> QED BY <1>2, <2>1, <2>2, <3>1, <3>3, LookEnds
  <2>6. CASE ~NoValue(o)
    <3>1. lookup' = "path" /\ path' = p /\ skips' = << >>
      BY <1>4, <2>2, <2>3, <2>6 DEF MMDB_aget_value
    <3> DEFINE v == Resolved(o)
               D == MaxDepth + Len(p)
               d == MaxDepth - Levels(o)
    <3>2. Describes(entry_data', v) /\ v \in Nat /\ ~Invalid(v) /\ Levels(o) \in 1 .. 2
      BY <1>2, <2>1, <2>6, FollowedValue, EmptyIsEntry, ResolvedFacts DEF NoValue
    <3>3. ASSUME KeysAreStrings(o, p)
          PROVE  \E j, u, x, y : Searching("path", o, p, p, left', value'.offset_to_next,
                                           << >>, entry_data', j, u, x, y)
      <4>1. Ahead(o, 1, FALSE, MaxDepth + Len(p) + 1, MaxDepth, o)
        BY <2>4, <3>3 DEF KeysAreStrings, Ahead
      <4>2. /\ MaxDepth + Len(p) + 1 \in Nat /\ MaxDepth + Len(p) + 1 # 0
            /\ (MaxDepth + Len(p) + 1) - 1 = D
        BY <1>2, <2>4
      <4>3. Ahead(NextAt(v), MembersAt(v), TypeAt(v) = MAP, (MaxDepth + Len(p) + 1) - 1, d, o)
        <5>1. PICK n, E, b : /\ n = 1 /\ E = MaxDepth + Len(p) + 1 /\ b = FALSE
                             /\ Ahead(o, n, b, E, MaxDepth, o)
          BY <4>1
        <5>2. n \in Nat /\ n # 0 /\ E \in Nat /\ E # 0 /\ o \in Nat /\ SectionOK /\ ~NoValue(o)
          BY <1>2, <2>6, <4>2, <5>1
        <5>3. Ahead(NextAt(Resolved(o)), MembersAt(Resolved(o)), TypeAt(Resolved(o)) = MAP,
                    E - 1, MaxDepth - Levels(o), o)
          BY <5>1, <5>2, PassInto
        <5> QED BY <5>1, <5>3
      <4>4. v = Selection(o, p)[0]
        BY <1>2, SelectionLeads DEF Leads
      <4>5. /\ 0 \in 0 .. Len(p) /\ D \in Nat /\ D >= MaxDepth + (Len(p) - 0)
            /\ d \in Int /\ d <= MaxDepth
        BY <1>2, <2>4, <3>2
      <4>6. Reached(o, p, 0, v, entry_data', D, d)
        BY <3>2, <4>2, <4>3, <4>4, <4>5 DEF Reached
      <4>7. Rest(p, p, 0)
        BY <1>2 DEF Rest
      <4>8. Searching("path", o, p, p, left', value'.offset_to_next, << >>, entry_data',
                      0, v, D, d)
        BY <4>6, <4>7 DEF Searching
      <4> QED BY <4>8
    <3>4. lookup' # "idle" /\ path' \in Seq(Seq(Byte))
      BY <1>2, <3>1
    <3> QED BY <1>2, <2>1, <3>1, <3>3, <3>4, LookGoesOn
  <2> QED BY <2>5, <2>6
<1> QED BY <1>1, <1>3, <1>4 DEF MMDB_get_value

\* The next step along a path.
LEMMA NextElement ==
  ASSUME SectionOK, NEW o \in Nat, NEW p \in Seq(Seq(Byte)), NEW q \in Seq(Seq(Byte)), q # << >>,
         NEW j, NEW v, NEW e, NEW D, NEW d,
         Reached(o, p, j, v, e, D, d), Rest(q, p, j)
  PROVE  /\ j + 1 \in 1 .. Len(p) /\ Head(q) = p[j + 1] /\ p[j + 1] \in Seq(Byte)
         /\ Selection(o, p)[j + 1] = Into(v, p[j + 1]) /\ v \in Nat /\ ~Invalid(v)
<1>1. j \in 0 .. Len(p) /\ Selection(o, p)[j] = v /\ v \in Nat /\ ~Invalid(v)
  BY DEF Reached
<1>2. Len(q) = Len(p) - j /\ \A k \in 1 .. Len(q) : q[k] = p[j + k]
  BY DEF Rest
<1>3. Len(q) \in Nat /\ Len(q) # 0 /\ Len(p) \in Nat /\ Head(q) = q[1]
  OBVIOUS
<1>4. j + 1 \in 1 .. Len(p) /\ 1 \in 1 .. Len(q) /\ (j + 1) - 1 = j
  BY <1>1, <1>2, <1>3
<1>5. Head(q) = p[j + 1] /\ p[j + 1] \in Seq(Byte)
  BY <1>2, <1>3, <1>4
<1>6. \A k \in 1 .. Len(p) : Selection(o, p)[k] = Into(Selection(o, p)[k - 1], p[k])
  BY <1>3, SelectionLeads DEF Leads
<1>7. Selection(o, p)[j + 1] = Into(v, p[j + 1])
  BY <1>1, <1>4, <1>6
<1> QED BY <1>1, <1>4, <1>5, <1>7

\* The path leads nowhere.
LEMMA LeadsNowhere ==
  ASSUME SectionOK, NEW o \in Nat, NEW p \in Seq(Seq(Byte)), NEW q \in Seq(Seq(Byte)), q # << >>,
         NEW j, NEW v, NEW e, NEW D, NEW d,
         Reached(o, p, j, v, e, D, d), Rest(q, p, j), Choice(v, Head(q)) = {}
  PROVE  Selected(o, p) = Missing
<1>1. j + 1 \in 1 .. Len(p) /\ Head(q) = p[j + 1] /\ Selection(o, p)[j + 1] = Into(v, p[j + 1])
  BY NextElement
<1>2. Selection(o, p)[j + 1] = Missing
  BY <1>1 DEF Into
<1>3. j + 1 \in 0 .. Len(p) /\ Len(p) \in Nat
  BY <1>1
<1> QED BY <1>2, <1>3, LostForGood

\* The arguments of a call under way, and what it has found so far.
LEMMA UnderWay ==
  ASSUME MemInv, PathInv, LostInv, lookup # "idle"
  PROVE  /\ SectionOK /\ AskedInv /\ asked.start \in Nat /\ asked.path \in Seq(Seq(Byte))
         /\ asked = [start |-> asked.start, path |-> asked.path] /\ path \in Seq(Seq(Byte))
         /\ value.offset_to_next \in Nat /\ left \in Nat /\ value \in EntryType
         /\ entry_data \in EntryType /\ skips \in Seq(SkipFrame)
         /\ lookup # "path" => path # << >>
         /\ KeysAreStrings(asked.start, asked.path) =>
              \E j, v, D, d : Searching(lookup, asked.start, asked.path, path, left,
                                        value.offset_to_next, skips, entry_data, j, v, D, d)
<1>1. AskedInv
  BY DEF LostInv
<1>2. /\ KeysAreStrings(asked.start, asked.path) =>
           \E j, v, D, d : Searching(lookup, asked.start, asked.path, path, left,
                                     value.offset_to_next, skips, entry_data, j, v, D, d)
  BY DEF LostInv, LookInv
<1>3. /\ value \in EntryType /\ left \in Nat /\ entry_data \in EntryType
      /\ skips \in Seq(SkipFrame)
  BY DEF PathInv
<1>4. value.offset_to_next \in Nat /\ (lookup # "path" => path # << >>)
  BY <1>1, <1>3, EntryFields DEF PathInv, AskedInv
<1> QED BY <1>1, <1>2, <1>3, <1>4, MemoryIsSection, AskedFacts

\* The path is at its end.
LEMMA EndLooks ==
  ASSUME MemInv, PathInv, LostInv, UNCHANGED memoryVars, PathEnds
  PROVE  LostInv'
<1> DEFINE o == asked.start
           p == asked.path
<1>1. lookup = "path" /\ path = << >> /\ lookup # "idle"
  BY DEF PathEnds
<1>2. /\ lookup' = "idle" /\ result' = "MMDB_SUCCESS" /\ path' = << >> /\ skips' = << >>
      /\ asked' = asked /\ entry_data' = entry_data
  BY DEF PathEnds, Return
<1>3. /\ SectionOK /\ o \in Nat /\ p \in Seq(Seq(Byte)) /\ path \in Seq(Seq(Byte))
      /\ asked = [start |-> o, path |-> p]
      /\ KeysAreStrings(o, p) =>
           \E j, v, D, d : Searching(lookup, o, p, path, left, value.offset_to_next, skips,
                                     entry_data, j, v, D, d)
  BY <1>1, UnderWay
<1> HIDE DEF o, p
<1>4. ASSUME KeysAreStrings(o, p) PROVE Outcome(o, p, entry_data', result')
  <2>1. PICK j, v, D, d : Searching(lookup, o, p, path, left, value.offset_to_next, skips,
                                    entry_data, j, v, D, d)
    BY <1>3, <1>4
  <2>2. Reached(o, p, j, v, entry_data, D, d) /\ Rest(path, p, j)
    BY <2>1 DEF Searching
  <2>3. /\ j \in 0 .. Len(p) /\ v = Selection(o, p)[j] /\ ~Invalid(v) /\ v \in Nat
        /\ Describes(entry_data, v) /\ Len(path) = Len(p) - j
    BY <2>2 DEF Reached, Rest
  <2>4. j = Len(p)
    BY <1>1, <1>3, <2>3
  <2>5. Selected(o, p) = v /\ v # Missing
    BY <1>3, <2>3, <2>4, NothingMissing DEF Selected
  <2> QED BY <1>2, <2>3, <2>5 DEF Outcome
<1>5. asked' = [start |-> o, path |-> p] /\ path' \in Seq(Seq(Byte))
  BY <1>1, <1>2, <1>3
<1> QED BY <1>2, <1>3, <1>4, <1>5, LookEnds

\* There is nothing to look into.
LEMMA NoMembersLooks ==
  ASSUME MemInv, PathInv, LostInv, UNCHANGED memoryVars, NoMembers
  PROVE  LostInv'
<1> DEFINE o == asked.start
           p == asked.path
<1>1. /\ lookup = "path" /\ path # << >> /\ lookup # "idle" /\ entry_data.type \notin Compound
      /\ Fail("MMDB_LOOKUP_PATH_DOES_NOT_MATCH_DATA_ERROR")
  BY DEF NoMembers
<1>2. /\ SectionOK /\ AskedInv /\ o \in Nat /\ p \in Seq(Seq(Byte)) /\ path \in Seq(Seq(Byte))
      /\ KeysAreStrings(o, p) =>
           \E j, v, D, d : Searching(lookup, o, p, path, left, value.offset_to_next, skips,
                                     entry_data, j, v, D, d)
  BY <1>1, UnderWay
<1>3. ASSUME KeysAreStrings(o, p) PROVE Selected(o, p) = Missing
  <2> HIDE DEF o, p
  <2>1. PICK j, v, D, d : Searching(lookup, o, p, path, left, value.offset_to_next, skips,
                                    entry_data, j, v, D, d)
    BY <1>2, <1>3
  <2>2. Reached(o, p, j, v, entry_data, D, d) /\ Rest(path, p, j)
    BY <2>1 DEF Searching
  <2>3. entry_data.type = TypeAt(v)
    BY <2>2 DEF Reached, Describes
  <2>4. Choice(v, Head(path)) = {}
    BY <1>1, <2>3 DEF Choice, Compound
  <2> QED BY <1>1, <1>2, <2>2, <2>4, LeadsNowhere
<1> QED BY <1>1, <1>2, <1>3, LookFails

\* The index that lookup_path_in_array works out is the one that the element means.
LEMMA IndexChoice ==
  ASSUME SectionOK, NEW v \in Nat, ~Invalid(v), TypeAt(v) = ARRAY, NEW s, NEW index,
         index = ArrayIndex(s, SizeAt(v))
  PROVE  /\ index.status = "MMDB_SUCCESS" =>
              index.index \in 0 .. (SizeAt(v) - 1) /\ Choice(v, s) = {index.index}
         /\ index.status # "MMDB_SUCCESS" => Choice(v, s) = {}
<1> DEFINE parsed == strtol(s)
           n == SizeAt(v)
           at == IF parsed.value < 0 THEN parsed.value + n ELSE parsed.value
<1>1. n \in Nat
  BY HeadFacts
<1>2. Choice(v, s) = InArray(v, parsed)
  BY DEF Choice, ARRAY, MAP
<1>3. InArray(v, parsed) = {k \in 0 .. (n - 1) :
                              /\ ~parsed.junk /\ ~parsed.erange
                              /\ \/ k = parsed.value
                                 \/ parsed.value < 0 /\ k = parsed.value + n}
  BY DEF InArray
<1>4. index =
        IF parsed.erange THEN [status |-> "MMDB_INVALID_LOOKUP_PATH_ERROR", index |-> 0]
        ELSE IF parsed.junk \/ at \notin 0 .. (n - 1)
        THEN [status |-> "MMDB_LOOKUP_PATH_DOES_NOT_MATCH_DATA_ERROR", index |-> 0]
        ELSE [status |-> "MMDB_SUCCESS", index |-> at]
  BY DEF ArrayIndex
<1> HIDE DEF parsed, n
<1>5. \A k \in 0 .. (n - 1) :
        (k = parsed.value \/ (parsed.value < 0 /\ k = parsed.value + n)) <=> k = at
  <2>1. ASSUME NEW k \in 0 .. (n - 1)
        PROVE  (k = parsed.value \/ (parsed.value < 0 /\ k = parsed.value + n)) <=> k = at
    <3>1. CASE parsed.value < 0
      <4>1. k # parsed.value
        BY <1>1, <2>1, <3>1
      <4> QED BY <3>1, <4>1
    <3>2. CASE ~(parsed.value < 0)
      <4>1. at = parsed.value
        BY <3>2
      <4> HIDE DEF at
      <4> QED BY <3>2, <4>1, Zenon
    <3> QED BY <3>1, <3>2
  <2> QED BY <2>1
<1> HIDE DEF at
<1>6. CASE parsed.erange
  BY <1>2, <1>3, <1>4, <1>6
<1>7. CASE ~parsed.erange /\ (parsed.junk \/ at \notin 0 .. (n - 1))
  <2>1. index.status # "MMDB_SUCCESS"
    BY <1>4, <1>7
  <2>2. InArray(v, parsed) = {}
    <3>1. ASSUME NEW k \in InArray(v, parsed) PROVE FALSE
      <4>1. k \in 0 .. (n - 1) /\ ~parsed.junk
            /\ (k = parsed.value \/ (parsed.value < 0 /\ k = parsed.value + n))
        BY <1>3, <3>1
      <4>2. k = at
        BY <1>5, <4>1, Zenon
      <4> QED BY <1>7, <4>1, <4>2
    <3> QED BY <3>1
  <2> QED BY <1>2, <2>1, <2>2
<1>8. CASE ~parsed.erange /\ ~parsed.junk /\ at \in 0 .. (n - 1)
  <2>1. index.status = "MMDB_SUCCESS" /\ index.index = at
    BY <1>4, <1>8
  <2>2. InArray(v, parsed) = {at}
    BY <1>3, <1>5, <1>8
  <2> QED BY <1>2, <1>8, <2>1, <2>2 DEF n
<1> QED BY <1>6, <1>7, <1>8

\* An index that is none has one of two statuses.
LEMMA IndexStatus ==
  ASSUME NEW s, NEW n, ArrayIndex(s, n).status # "MMDB_SUCCESS"
  PROVE  ArrayIndex(s, n).status \in {"MMDB_INVALID_LOOKUP_PATH_ERROR",
                                      "MMDB_LOOKUP_PATH_DOES_NOT_MATCH_DATA_ERROR"}
<1> DEFINE parsed == strtol(s)
           at == IF parsed.value < 0 THEN parsed.value + n ELSE parsed.value
<1>1. ArrayIndex(s, n) =
        IF parsed.erange THEN [status |-> "MMDB_INVALID_LOOKUP_PATH_ERROR", index |-> 0]
        ELSE IF parsed.junk \/ at \notin 0 .. (n - 1)
        THEN [status |-> "MMDB_LOOKUP_PATH_DOES_NOT_MATCH_DATA_ERROR", index |-> 0]
        ELSE [status |-> "MMDB_SUCCESS", index |-> at]
  BY DEF ArrayIndex
<1> HIDE DEF parsed, at
<1> QED BY <1>1

\* The members of an array are gone through.
LEMMA IntoArrayLooks ==
  ASSUME MemInv, PathInv, LostInv, UNCHANGED memoryVars, IntoArray
  PROVE  LostInv'
<1> DEFINE o == asked.start
           p == asked.path
           index == ArrayIndex(Head(path), entry_data.data_size)
<1>1. lookup = "path" /\ path # << >> /\ lookup # "idle" /\ entry_data.type = ARRAY
  BY DEF IntoArray
<1>2. IF index.status # "MMDB_SUCCESS" THEN Fail(index.status)
      ELSE /\ lookup' = "array" /\ left' = index.index /\ value' = entry_data
           /\ UNCHANGED <<asked, path, skips, entry_data, result>>
  BY DEF IntoArray
<1>3. /\ SectionOK /\ AskedInv /\ o \in Nat /\ p \in Seq(Seq(Byte)) /\ path \in Seq(Seq(Byte))
      /\ asked = [start |-> o, path |-> p]
      /\ KeysAreStrings(o, p) =>
           \E j, v, D, d : Searching(lookup, o, p, path, left, value.offset_to_next, skips,
                                     entry_data, j, v, D, d)
  BY <1>1, UnderWay
<1>4. ASSUME NEW j, NEW v, NEW D, NEW d,
             Searching(lookup, o, p, path, left, value.offset_to_next, skips, entry_data,
                       j, v, D, d)
      PROVE  /\ Reached(o, p, j, v, entry_data, D, d) /\ Rest(path, p, j) /\ skips = << >>
             /\ v \in Nat /\ ~Invalid(v) /\ TypeAt(v) = ARRAY /\ entry_data.data_size = SizeAt(v)
             /\ entry_data.offset_to_next = NextAt(v) /\ Head(path) = p[j + 1]
  <2>1. Reached(o, p, j, v, entry_data, D, d) /\ Rest(path, p, j) /\ skips = << >>
    BY <1>1, <1>4 DEF Searching
  <2>2. v \in Nat /\ ~Invalid(v) /\ Describes(entry_data, v)
    BY <2>1 DEF Reached
  <2>3. TypeAt(v) = ARRAY /\ entry_data.data_size = SizeAt(v)
        /\ entry_data.offset_to_next = NextAt(v)
    BY <1>1, <2>2 DEF Describes, Compound
  <2>4. Head(path) = p[j + 1]
    <3> HIDE DEF o, p
    <3> QED BY <1>1, <1>3, <2>1, NextElement
  <2> QED BY <2>1, <2>2, <2>3, <2>4
<1>5. CASE index.status # "MMDB_SUCCESS"
  <2>1. /\ index.status \in {"MMDB_INVALID_LOOKUP_PATH_ERROR",
                             "MMDB_LOOKUP_PATH_DOES_NOT_MATCH_DATA_ERROR"}
        /\ Fail(index.status)
    BY <1>2, <1>5, IndexStatus
  <2>2. ASSUME KeysAreStrings(o, p) PROVE Selected(o, p) = Missing
    <3>1. PICK j, v, D, d : Searching(lookup, o, p, path, left, value.offset_to_next, skips,
                                      entry_data, j, v, D, d)
      BY <1>3, <2>2
    <3>2. /\ Reached(o, p, j, v, entry_data, D, d) /\ Rest(path, p, j)
          /\ v \in Nat /\ ~Invalid(v) /\ TypeAt(v) = ARRAY /\ entry_data.data_size = SizeAt(v)
      BY <1>4, <3>1
    <3>3. index = ArrayIndex(Head(path), SizeAt(v))
      BY <3>2
    <3> HIDE DEF o, p, index
    <3>4. Choice(v, Head(path)) = {}
      BY <1>3, <1>5, <3>2, <3>3, IndexChoice
    <3> QED BY <1>1, <1>3, <3>2, <3>4, LeadsNowhere
  <2> HIDE DEF index
  <2> QED BY <1>3, <2>1, <2>2, LookFails
<1>6. CASE index.status = "MMDB_SUCCESS"
  <2>1. /\ lookup' = "array" /\ left' = index.index /\ value' = entry_data /\ asked' = asked
        /\ path' = path /\ skips' = skips /\ entry_data' = entry_data
    BY <1>2, <1>6
  <2>2. ASSUME KeysAreStrings(o, p)
        PROVE  \E j, v, D, d : Searching(lookup', o, p, path', left', value'.offset_to_next,
                                         skips', entry_data', j, v, D, d)
    <3>1. PICK j, v, D, d : Searching(lookup, o, p, path, left, value.offset_to_next, skips,
                                      entry_data, j, v, D, d)
      BY <1>3, <2>2
    <3>2. /\ Reached(o, p, j, v, entry_data, D, d) /\ Rest(path, p, j) /\ skips = << >>
          /\ v \in Nat /\ ~Invalid(v) /\ TypeAt(v) = ARRAY /\ entry_data.data_size = SizeAt(v)
          /\ entry_data.offset_to_next = NextAt(v) /\ Head(path) = p[j + 1]
      BY <1>4, <3>1
    <3>3. index = ArrayIndex(p[j + 1], SizeAt(v))
      BY <3>2
    <3> HIDE DEF o, p, index
    <3>4. index.index \in 0 .. (SizeAt(v) - 1) /\ Choice(v, p[j + 1]) = {index.index}
      BY <1>3, <1>6, <3>2, <3>3, IndexChoice
    <3>5. SizeAt(v) \in Nat /\ NextAt(v) \in Nat /\ EndOf[<<NextAt(v), 0>>] = NextAt(v)
      BY <1>3, <3>2, HeadFacts, MembersFacts, EndOfNone
    <3>6. 0 + index.index = index.index /\ 0 + index.index < SizeAt(v) /\ 0 \in Nat
          /\ SizeAt(v) - 0 = SizeAt(v)
      BY <3>4, <3>5
    <3>7. GetsTo(<< >>, EndOf[<<NextAt(v), 0>>], NextAt(v), D, d, o)
      BY <3>5, NoSkips
    <3>8. Ahead(EndOf[<<NextAt(v), 0>>], SizeAt(v) - 0, FALSE, D, d, o)
      <4>1. Ahead(NextAt(v), MembersAt(v), TypeAt(v) = MAP, D, d, o)
        BY <3>2 DEF Reached
      <4>2. MembersAt(v) = SizeAt(v) /\ (TypeAt(v) = MAP) = FALSE
        BY <3>2 DEF MembersAt, MAP, ARRAY
      <4> QED BY <3>5, <3>6, <4>1, <4>2
    <3>9. AmongElements(p[j + 1], v, 0, index.index, NextAt(v), << >>, D, d, o)
      BY <3>2, <3>4, <3>6, <3>7, <3>8 DEF AmongElements
    <3>10. Searching("array", o, p, path, index.index, NextAt(v), << >>, entry_data, j, v, D, d)
      BY <1>1, <3>2, <3>6, <3>9 DEF Searching
    <3> QED BY <2>1, <3>2, <3>10
  <2>3. asked' = [start |-> o, path |-> p] /\ path' \in Seq(Seq(Byte)) /\ lookup' # "idle"
        /\ path' # << >>
    BY <1>1, <1>3, <2>1
  <2> HIDE DEF o, p
  <2> QED BY <1>3, <2>2, <2>3, LookGoesOn
<1> QED BY <1>5, <1>6

\* The keys of a map are gone through.
LEMMA IntoMapLooks ==
  ASSUME MemInv, PathInv, LostInv, UNCHANGED memoryVars, IntoMap
  PROVE  LostInv'
<1> DEFINE o == asked.start
           p == asked.path
<1>1. lookup = "path" /\ path # << >> /\ lookup # "idle" /\ entry_data.type = MAP
  BY DEF IntoMap
<1>2. /\ lookup' = "map" /\ left' = entry_data.data_size /\ value' = entry_data
      /\ asked' = asked /\ path' = path /\ skips' = skips /\ entry_data' = entry_data
  BY DEF IntoMap
<1>3. /\ SectionOK /\ o \in Nat /\ p \in Seq(Seq(Byte)) /\ path \in Seq(Seq(Byte))
      /\ asked = [start |-> o, path |-> p]
      /\ KeysAreStrings(o, p) =>
           \E j, v, D, d : Searching(lookup, o, p, path, left, value.offset_to_next, skips,
                                     entry_data, j, v, D, d)
  BY <1>1, UnderWay
<1> HIDE DEF o, p
<1>4. ASSUME KeysAreStrings(o, p)
      PROVE  \E j, v, D, d : Searching(lookup', o, p, path', left', value'.offset_to_next,
                                       skips', entry_data', j, v, D, d)
  <2>1. PICK j, v, D, d : Searching(lookup, o, p, path, left, value.offset_to_next, skips,
                                    entry_data, j, v, D, d)
    BY <1>3, <1>4
  <2>2. Reached(o, p, j, v, entry_data, D, d) /\ Rest(path, p, j) /\ skips = << >>
    BY <1>1, <2>1 DEF Searching
  <2>3. v \in Nat /\ ~Invalid(v) /\ Describes(entry_data, v)
    BY <2>2 DEF Reached
  <2>4. TypeAt(v) = MAP /\ entry_data.data_size = SizeAt(v)
        /\ entry_data.offset_to_next = NextAt(v)
    BY <1>1, <2>3 DEF Describes, Compound
  <2>5. SizeAt(v) \in Nat /\ NextAt(v) \in Nat /\ EndOf[<<NextAt(v), 0>>] = NextAt(v)
    BY <1>3, <2>3, HeadFacts, MembersFacts, EndOfNone
  <2>6. 0 + SizeAt(v) = SizeAt(v) /\ 0 \in Nat /\ 2 * 0 = 0 /\ 0 .. (0 - 1) = {}
    BY <2>5
  <2>7. GetsTo(<< >>, EndOf[<<NextAt(v), 2 * 0>>], NextAt(v), D, d, o)
    BY <2>5, <2>6, NoSkips
  <2>8. Ahead(EndOf[<<NextAt(v), 2 * 0>>], 2 * SizeAt(v), TRUE, D, d, o)
    <3>1. Ahead(NextAt(v), MembersAt(v), TypeAt(v) = MAP, D, d, o)
      BY <2>2 DEF Reached
    <3>2. MembersAt(v) = 2 * SizeAt(v) /\ (TypeAt(v) = MAP) = TRUE
      BY <2>4 DEF MembersAt
    <3> QED BY <2>5, <2>6, <3>1, <3>2
  <2>9. AmongKeys(p[j + 1], v, 0, SizeAt(v), NextAt(v), << >>, D, d, o)
    BY <2>4, <2>6, <2>7, <2>8 DEF AmongKeys
  <2>10. Searching("map", o, p, path, SizeAt(v), NextAt(v), << >>, entry_data, j, v, D, d)
    BY <1>1, <2>2, <2>6, <2>9 DEF Searching
  <2> QED BY <1>2, <2>2, <2>4, <2>10
<1>5. asked' = [start |-> o, path |-> p] /\ path' \in Seq(Seq(Byte)) /\ lookup' # "idle"
      /\ path' # << >>
  BY <1>1, <1>2, <1>3
<1> QED BY <1>3, <1>4, <1>5, LookGoesOn

\* One value more.
LEMMA OneMore ==
  ASSUME SectionOK, NEW o \in Nat, NEW n \in Nat
  PROVE  EndOf[<<o, n>>] \in Nat /\ EndOf[<<o, n + 1>>] = EndAt(EndOf[<<o, n>>])
<1>1. EndOf[<<o, n>>] \in Nat
  BY EndOfType
<1>2. 1 \in Nat
  OBVIOUS
<1>3. EndOf[<<o, n + 1>>] = EndOf[<<EndOf[<<o, n>>], 1>>]
  BY <1>2, EndChain
<1> QED BY <1>1, <1>3 DEF EndAt

\* A first call of skip_map_or_array, for the value at q.
LEMMA FirstSkip ==
  ASSUME MemInv, NEW q \in Nat, NEW n \in Nat, n # 0, NEW D \in Nat, D # 0, NEW d \in Int,
         NEW a, NEW keyed, NEW e \in EntryType, ~Invalid(q), Ahead(q, n, keyed, D, d, a)
  PROVE  GetsTo(Entered(<< >>, Decoded(e, q)), EndAt(q), NextAt(q), D, d, a)
<1>1. EndAt(q) \in Nat
  BY MemoryIsSection, EndAtFacts
<1>2. GetsTo(<< >>, EndAt(q), EndAt(q), D, d, a)
  BY <1>1, NoSkips
<1>3. PICK s : s = << >>
  OBVIOUS
<1>4. s \in Seq(SkipFrame) /\ D - Len(s) = D /\ d - Len(s) = d /\ D \in Int
  BY <1>3
<1>5. GetsTo(s, EndAt(q), EndAt(q), D, d, a) /\ Ahead(q, n, keyed, D - Len(s), d - Len(s), a)
      /\ D - Len(s) \in Nat /\ D - Len(s) # 0
  BY <1>2, <1>3, <1>4
<1>6. GetsTo(Entered(s, Decoded(e, q)), EndAt(q), NextAt(q), D, d, a)
  BY <1>4, <1>5, SkipsEnter
<1> QED BY <1>3, <1>6

\* An element of an array is passed, or is the one looked for.
LEMMA ElementLooks ==
  ASSUME MemInv, PathInv, LostInv, UNCHANGED memoryVars, PassElement \/ TakeElement
  PROVE  LostInv'
<1> DEFINE o == asked.start
           p == asked.path
           x == value.offset_to_next
<1>1. lookup = "array" /\ lookup # "idle" /\ skips = << >>
  BY DEF PassElement, TakeElement
<1>2. /\ SectionOK /\ AskedInv /\ o \in Nat /\ p \in Seq(Seq(Byte)) /\ path \in Seq(Seq(Byte))
      /\ asked = [start |-> o, path |-> p] /\ x \in Nat /\ left \in Nat /\ value \in EntryType
      /\ path # << >>
      /\ KeysAreStrings(o, p) =>
           \E j, v, D, d : Searching(lookup, o, p, path, left, x, skips, entry_data, j, v, D, d)
  BY <1>1, UnderWay
<1> HIDE DEF o, p, x
<1>3. ASSUME NEW j, NEW v, NEW D, NEW d,
             Searching(lookup, o, p, path, left, x, skips, entry_data, j, v, D, d)
      PROVE  /\ Reached(o, p, j, v, entry_data, D, d) /\ Rest(path, p, j) /\ path # << >>
             /\ v \in Nat /\ SizeAt(v) \in Nat /\ NextAt(v) \in Nat
             /\ D \in Nat /\ D # 0 /\ d \in Int
             /\ \E i \in Nat : /\ TypeAt(v) = ARRAY /\ i + left < SizeAt(v)
                               /\ Choice(v, p[j + 1]) = {i + left}
                               /\ x = EndOf[<<NextAt(v), i>>]
                               /\ Ahead(x, SizeAt(v) - i, FALSE, D, d, o)
  <2>1. /\ Reached(o, p, j, v, entry_data, D, d) /\ Rest(path, p, j) /\ path # << >>
        /\ \E i \in Nat : AmongElements(p[j + 1], v, i, left, x, << >>, D, d, o)
    BY <1>1, <1>3 DEF Searching
  <2>2. PICK i \in Nat : AmongElements(p[j + 1], v, i, left, x, << >>, D, d, o)
    BY <2>1
  <2>3. x = EndOf[<<NextAt(v), i>>]
    BY <1>2, <2>2, NoSkips DEF AmongElements
  <2>4. /\ TypeAt(v) = ARRAY /\ i + left < SizeAt(v) /\ Choice(v, p[j + 1]) = {i + left}
        /\ Ahead(x, SizeAt(v) - i, FALSE, D, d, o)
    BY <2>2, <2>3 DEF AmongElements
  <2>5. v \in Nat
    BY <2>1 DEF Reached
  <2>6. SizeAt(v) \in Nat /\ NextAt(v) \in Nat
    BY <1>2, <2>5, HeadFacts, MembersFacts
  <2>7. D \in Nat /\ D # 0 /\ d \in Int
    BY <1>2, <2>1, DepthLeft
  <2> QED BY <2>1, <2>3, <2>4, <2>5, <2>6, <2>7
<1>4. CASE left = 0
  <2>1. TakeElement /\ Found(x)
    BY <1>4 DEF PassElement, TakeElement, x
  <2>2. ASSUME KeysAreStrings(o, p)
        PROVE  \E j, v, D, d, n : Facing(x, o, p, path, entry_data, j, v, D, d, n)
    <3>1. PICK j, v, D, d : Searching(lookup, o, p, path, left, x, skips, entry_data, j, v, D, d)
      BY <1>2, <2>2
    <3>2. /\ Reached(o, p, j, v, entry_data, D, d) /\ Rest(path, p, j) /\ path # << >>
          /\ SizeAt(v) \in Nat
      BY <1>3, <3>1
    <3>3. PICK i \in Nat : /\ TypeAt(v) = ARRAY /\ i + left < SizeAt(v)
                           /\ Choice(v, p[j + 1]) = {i + left}
                           /\ x = EndOf[<<NextAt(v), i>>]
                           /\ Ahead(x, SizeAt(v) - i, FALSE, D, d, o)
      BY <1>3, <3>1
    <3>4. i + left = i /\ SizeAt(v) - i \in Nat /\ SizeAt(v) - i # 0
      BY <1>4, <3>2, <3>3
    <3>5. Min(Choice(v, p[j + 1])) = i
      <4>1. {i} \in SUBSET Nat /\ i \in {i} /\ \A y \in {i} : i <= y
        OBVIOUS
      <4>2. Min({i}) = i
        BY <4>1, LeastIsMin
      <4> QED BY <3>3, <3>4, <4>2
    <3>6. Into(v, p[j + 1]) = Resolved(x)
      BY <3>3, <3>4, <3>5 DEF Into, Member
    <3>7. Facing(x, o, p, path, entry_data, j, v, D, d, SizeAt(v) - i)
      BY <3>2, <3>3, <3>4, <3>6 DEF Facing
    <3> QED BY <3>7
  <2> QED BY <1>1, <1>2, <2>1, <2>2, FoundLooks DEF o, p
<1>5. CASE left # 0
  <2>1. PassElement
    BY <1>5 DEF TakeElement
  <2>2. CASE Invalid(x)
    <3>1. Fail("MMDB_INVALID_DATA_ERROR")
      BY <2>1, <2>2 DEF PassElement, x
    <3>2. ASSUME KeysAreStrings(o, p) PROVE ~Sound(o, 1, MaxDepth)
      <4>1. PICK j, v, D, d : Searching(lookup, o, p, path, left, x, skips, entry_data, j, v, D, d)
        BY <1>2, <3>2
      <4>2. PICK i \in Nat : i + left < SizeAt(v) /\ Ahead(x, SizeAt(v) - i, FALSE, D, d, o)
        BY <1>3, <4>1
      <4>3. SizeAt(v) - i \in Nat /\ SizeAt(v) - i # 0
        <5>1. SizeAt(v) \in Nat /\ i + left < SizeAt(v) /\ left \in Nat
          BY <1>2, <1>3, <4>1, <4>2
        <5> QED BY <5>1
      <4> QED BY <1>2, <2>2, <4>2, <4>3, NotSound DEF NoValue
    <3> QED BY <1>2, <3>1, <3>2, LookFails DEF o, p
  <2>3. CASE ~Invalid(x)
    <3>1. /\ value' = Decoded(value, x) /\ skips' = Entered(<< >>, value') /\ left' = left - 1
          /\ lookup' = "array" /\ asked' = asked /\ path' = path /\ entry_data' = entry_data
      BY <1>1, <2>1, <2>3 DEF PassElement, SkipValue, x
    <3>2. value'.offset_to_next = NextAt(x)
      BY <1>2, <2>3, <3>1, DecodedValue
    <3>3. ASSUME KeysAreStrings(o, p)
          PROVE  \E j, v, D, d : Searching(lookup', o, p, path', left', value'.offset_to_next,
                                           skips', entry_data', j, v, D, d)
      <4>1. PICK j, v, D, d : Searching(lookup, o, p, path, left, x, skips, entry_data, j, v, D, d)
        BY <1>2, <3>3
      <4>2. /\ Reached(o, p, j, v, entry_data, D, d) /\ Rest(path, p, j) /\ path # << >>
            /\ v \in Nat /\ SizeAt(v) \in Nat /\ NextAt(v) \in Nat
            /\ D \in Nat /\ D # 0 /\ d \in Int
        BY <1>3, <4>1
      <4>3. PICK i \in Nat : /\ TypeAt(v) = ARRAY /\ i + left < SizeAt(v)
                             /\ Choice(v, p[j + 1]) = {i + left}
                             /\ x = EndOf[<<NextAt(v), i>>]
                             /\ Ahead(x, SizeAt(v) - i, FALSE, D, d, o)
        BY <1>3, <4>1
      <4>4. /\ (i + 1) + (left - 1) = i + left /\ SizeAt(v) - i \in Nat /\ SizeAt(v) - i # 0
            /\ (SizeAt(v) - i) - 1 = SizeAt(v) - (i + 1) /\ i + 1 \in Nat
        <5>1. SizeAt(v) \in Nat /\ i + left < SizeAt(v) /\ left \in Nat /\ left # 0
          BY <1>2, <1>5, <4>2, <4>3
        <5> QED BY <5>1
      <4>5. EndOf[<<NextAt(v), i + 1>>] = EndAt(x)
        BY <1>2, <4>2, <4>3, OneMore
      <4>6. Ahead(EndAt(x), SizeAt(v) - (i + 1), FALSE, D, d, o)
        BY <1>2, <2>3, <4>2, <4>3, <4>4, PassOne
      <4>7. GetsTo(Entered(<< >>, value'), EndAt(x), NextAt(x), D, d, o)
        BY <1>2, <2>3, <3>1, <4>2, <4>3, <4>4, FirstSkip
      <4>8. AmongElements(p[j + 1], v, i + 1, left - 1, NextAt(x), Entered(<< >>, value'), D, d, o)
        BY <4>3, <4>4, <4>5, <4>6, <4>7 DEF AmongElements
      <4>9. Searching("array", o, p, path, left - 1, NextAt(x), Entered(<< >>, value'),
                      entry_data, j, v, D, d)
        BY <4>2, <4>4, <4>8 DEF Searching
      <4> QED BY <3>1, <3>2, <4>9
    <3>4. asked' = [start |-> o, path |-> p] /\ path' \in Seq(Seq(Byte)) /\ lookup' # "idle"
          /\ path' # << >>
      BY <1>2, <3>1
    <3> QED BY <1>2, <3>3, <3>4, LookGoesOn
  <2> QED BY <2>2, <2>3
<1> QED BY <1>4, <1>5

\* The comparison of a key with a path element is the format's.
LEMMA KeyMatches ==
  ASSUME SectionOK, NEW u \in Nat, NEW e, Describes(e, u), e.type = UTF8_STRING,
         NEW s \in Seq(Byte)
  PROVE  Matches(e, s) <=> StringAt(u) = s
<1> DEFINE n == SizeAt(u)
           b == BodyStart(u)
<1>1. e.data_size = n /\ e.bytes = b /\ n \in Nat /\ b \in Nat
  BY HeadFacts DEF Describes
<1>2. StringAt(u) = [k \in 1 .. n |-> mem(b + k - 1)]
  BY DEF StringAt
<1> HIDE DEF n, b
<1>3. Matches(e, s) <=> n = Len(s) /\ \A k \in 1 .. n : mem(b + k - 1) = s[k]
  BY <1>1 DEF Matches
<1>4. Len(s) \in Nat /\ s = [k \in 1 .. Len(s) |-> s[k]] /\ DOMAIN s = 1 .. Len(s)
  OBVIOUS
<1>5. ASSUME n = Len(s), \A k \in 1 .. n : mem(b + k - 1) = s[k]
      PROVE  StringAt(u) = s
  BY <1>2, <1>4, <1>5
<1>6. ASSUME StringAt(u) = s
      PROVE  n = Len(s) /\ \A k \in 1 .. n : mem(b + k - 1) = s[k]
  <2>1. DOMAIN StringAt(u) = 1 .. n /\ \A k \in 1 .. n : StringAt(u)[k] = mem(b + k - 1)
    BY <1>2
  <2>2. 1 .. n = 1 .. Len(s)
    BY <1>4, <1>6, <2>1
  <2>3. n = Len(s)
    BY <1>1, <1>4, <2>2
  <2> QED BY <1>6, <2>1, <2>3
<1> QED BY <1>3, <1>5, <1>6

\* The place of the i-th value of a map.
ValuePlace(v, i) == EndOf[<<NextAt(v), 2 * i + 1>>]

\* It comes after its key.
LEMMA ValueAfterKey ==
  ASSUME SectionOK, NEW v \in Nat, NEW i \in Nat, NEW x, x = EndOf[<<NextAt(v), 2 * i>>]
  PROVE  EndAt(x) = ValuePlace(v, i)
<1>1. 2 * i \in Nat /\ NextAt(v) \in Nat
  BY MembersFacts
<1>2. EndOf[<<NextAt(v), 2 * i + 1>>] = EndAt(EndOf[<<NextAt(v), 2 * i>>])
  BY <1>1, OneMore
<1> QED BY <1>2 DEF ValuePlace

\* The first equal key is the one that the path element means.
LEMMA FirstKey ==
  ASSUME SectionOK, NEW v \in Nat, ~Invalid(v), TypeAt(v) = MAP, NEW s, NEW i \in Nat,
         i < SizeAt(v), HasKey(v, i, s), \A k \in 0 .. (i - 1) : ~HasKey(v, k, s)
  PROVE  Into(v, s) = Resolved(ValuePlace(v, i))
<1> DEFINE C == {2 * k + 1 : k \in {l \in 0 .. (SizeAt(v) - 1) : HasKey(v, l, s)}}
<1>1. SizeAt(v) \in Nat
  BY HeadFacts
<1>2. Choice(v, s) = C
  BY DEF Choice, InMap
<1>3. i \in 0 .. (SizeAt(v) - 1)
  BY <1>1
<1>4. C \in SUBSET Nat
  BY <1>1
<1>5. 2 * i + 1 \in C
  BY <1>3
<1>6. ASSUME NEW y \in C PROVE 2 * i + 1 <= y
  <2>1. PICK k \in 0 .. (SizeAt(v) - 1) : HasKey(v, k, s) /\ y = 2 * k + 1
    BY <1>6
  <2>2. k \in Nat
    BY <1>1
  <2>3. ~(k < i)
    <3> SUFFICES ASSUME k < i PROVE FALSE
      OBVIOUS
    <3>1. k \in 0 .. (i - 1)
      BY <2>2
    <3> QED BY <2>1, <3>1
  <2> QED BY <2>1, <2>2, <2>3
<1> HIDE DEF C
<1>7. Min(C) = 2 * i + 1 /\ C # {}
  BY <1>4, <1>5, <1>6, LeastIsMin
<1> QED BY <1>2, <1>7 DEF Into, Member, ValuePlace

\* Where the loop of lookup_path_in_map is.
AtKey(o, p, q, m, x, e, j, v, D, d, i) ==
  /\ Reached(o, p, j, v, e, D, d) /\ Rest(q, p, j) /\ q # << >>
  /\ v \in Nat /\ ~Invalid(v) /\ SizeAt(v) \in Nat /\ NextAt(v) \in Nat
  /\ D \in Nat /\ D # 0 /\ d \in Int /\ i \in Nat /\ p[j + 1] \in Seq(Byte)
  /\ Head(q) = p[j + 1]
  /\ TypeAt(v) = MAP /\ i + m = SizeAt(v) /\ \A k \in 0 .. (i - 1) : ~HasKey(v, k, p[j + 1])
  /\ x = EndOf[<<NextAt(v), 2 * i>>] /\ Ahead(x, 2 * m, TRUE, D, d, o)

\* It is at a key, or at the end of them.
LEMMA SearchAtKey ==
  ASSUME SectionOK, NEW o \in Nat, NEW p \in Seq(Seq(Byte)), NEW q \in Seq(Seq(Byte)),
         NEW m, NEW x \in Nat, NEW e, NEW j, NEW v, NEW D, NEW d,
         Searching("map", o, p, q, m, x, << >>, e, j, v, D, d)
  PROVE  \E i \in Nat : AtKey(o, p, q, m, x, e, j, v, D, d, i)
<1>1. /\ Reached(o, p, j, v, e, D, d) /\ Rest(q, p, j) /\ q # << >>
      /\ \E i \in Nat : AmongKeys(p[j + 1], v, i, m, x, << >>, D, d, o)
  BY DEF Searching
<1>2. PICK i \in Nat : AmongKeys(p[j + 1], v, i, m, x, << >>, D, d, o)
  BY <1>1
<1>3. x = EndOf[<<NextAt(v), 2 * i>>]
  BY <1>2, NoSkips DEF AmongKeys
<1>4. /\ TypeAt(v) = MAP /\ i + m = SizeAt(v) /\ \A k \in 0 .. (i - 1) : ~HasKey(v, k, p[j + 1])
      /\ Ahead(x, 2 * m, TRUE, D, d, o)
  BY <1>2, <1>3 DEF AmongKeys
<1>5. v \in Nat /\ ~Invalid(v) /\ Head(q) = p[j + 1] /\ p[j + 1] \in Seq(Byte)
  BY <1>1, NextElement
<1>6. SizeAt(v) \in Nat /\ NextAt(v) \in Nat
  BY <1>5, HeadFacts, MembersFacts
<1>7. D \in Nat /\ D # 0 /\ d \in Int
  BY <1>1, DepthLeft
<1>8. AtKey(o, p, q, m, x, e, j, v, D, d, i)
  BY <1>1, <1>3, <1>4, <1>5, <1>6, <1>7 DEF AtKey
<1> QED BY <1>8

\* What there is at a key.
LEMMA KeyFacts ==
  ASSUME SectionOK, NEW o \in Nat, NEW p \in Seq(Seq(Byte)), NEW q, NEW m \in Nat, m # 0,
         NEW x \in Nat, NEW e, NEW j, NEW v, NEW D, NEW d, NEW i \in Nat,
         AtKey(o, p, q, m, x, e, j, v, D, d, i)
  PROVE  /\ NoValue(x) => ~Sound(o, 1, MaxDepth)
         /\ KeyIsString(x)
         /\ EndAt(x) \in Nat
         /\ ~Invalid(x) => (\E n \in Nat : n # 0 /\ Ahead(EndAt(x), n, FALSE, D, d, o))
         /\ i < SizeAt(v)
<1>1. 2 * m \in Nat /\ 2 * m # 0 /\ 2 * m - 1 \in Nat /\ 2 * m - 1 # 0
  OBVIOUS
<1>2. Ahead(x, 2 * m, TRUE, D, d, o) /\ D \in Nat /\ D # 0
  BY DEF AtKey
<1>3. NoValue(x) => ~Sound(o, 1, MaxDepth)
  BY <1>1, <1>2, NotSound
<1>4. KeyIsString(x)
  <2>1. CASE Invalid(x)
    BY <2>1 DEF KeyIsString, NoValue
  <2>2. CASE ~Invalid(x)
    BY <1>1, <1>2, <2>2, KeyEnds
  <2> QED BY <2>1, <2>2
<1>5. ~Invalid(x) => Ahead(EndAt(x), 2 * m - 1, FALSE, D, d, o)
  <2> DEFINE n == 2 * m
  <2>1. n \in Nat /\ n # 0 /\ Ahead(x, n, TRUE, D, d, o)
    BY <1>1, <1>2
  <2> HIDE DEF n
  <2>2. ~Invalid(x) => Ahead(EndAt(x), n - 1, FALSE, D, d, o)
    BY <1>2, <2>1, PassOne
  <2> QED BY <2>2 DEF n
<1>6. x = EndOf[<<NextAt(v), 2 * i>>] /\ i \in Nat /\ NextAt(v) \in Nat /\ SizeAt(v) \in Nat
      /\ i + m = SizeAt(v)
  BY DEF AtKey
<1>7. 2 * i \in Nat /\ i < SizeAt(v)
  BY <1>6
<1>8. EndAt(x) \in Nat
  BY EndAtFacts
<1> QED BY <1>1, <1>3, <1>4, <1>5, <1>7, <1>8

\* A key that is not the one looked for is passed, and its value.
LEMMA PassKey ==
  ASSUME MemInv, NEW o \in Nat, NEW p \in Seq(Seq(Byte)), NEW q, NEW m \in Nat, m # 0,
         NEW x \in Nat, NEW e, NEW j, NEW v, NEW D, NEW d, NEW i \in Nat, NEW t \in EntryType,
         AtKey(o, p, q, m, x, e, j, v, D, d, i), ~HasKey(v, i, p[j + 1]),
         ~Invalid(x), ~Invalid(EndAt(x))
  PROVE  Searching("map", o, p, q, m - 1, NextAt(EndAt(x)),
                   Entered(<< >>, Decoded(t, EndAt(x))), e, j, v, D, d)
<1> DEFINE y == EndAt(x)
           sk == Entered(<< >>, Decoded(t, y))
<1>0. SectionOK
  BY MemoryIsSection
<1>1. /\ \E n \in Nat : n # 0 /\ Ahead(y, n, FALSE, D, d, o)
      /\ y = ValuePlace(v, i) /\ y \in Nat
  <2>1. \E n \in Nat : n # 0 /\ Ahead(y, n, FALSE, D, d, o)
    BY <1>0, KeyFacts
  <2>2. y = ValuePlace(v, i)
    <3>1. v \in Nat /\ x = EndOf[<<NextAt(v), 2 * i>>]
      BY DEF AtKey
    <3> QED BY <1>0, <3>1, ValueAfterKey
  <2>3. y \in Nat
    BY <1>0, EndAtFacts
  <2> QED BY <2>1, <2>2, <2>3
<1>2. /\ Reached(o, p, j, v, e, D, d) /\ Rest(q, p, j) /\ q # << >>
      /\ v \in Nat /\ NextAt(v) \in Nat /\ D \in Nat /\ D # 0 /\ d \in Int /\ i \in Nat
      /\ TypeAt(v) = MAP /\ i + m = SizeAt(v) /\ \A k \in 0 .. (i - 1) : ~HasKey(v, k, p[j + 1])
      /\ Ahead(x, 2 * m, TRUE, D, d, o)
  BY DEF AtKey
<1>3. /\ 2 * m \in Nat /\ 2 * m - 2 \in Nat /\ 2 * m - 2 = 2 * (m - 1)
      /\ (2 * i + 1) + 1 = 2 * (i + 1) /\ 2 * i + 1 \in Nat /\ i + 1 \in Nat
      /\ (i + 1) + (m - 1) = i + m /\ (i + 1) - 1 = i
  BY <1>2
<1>4. GetsTo(sk, EndAt(y), NextAt(y), D, d, o)
  <2> HIDE DEF y
  <2>1. ~Invalid(y)
    BY DEF y
  <2>2. PICK n \in Nat : n # 0 /\ Ahead(y, n, FALSE, D, d, o)
    BY <1>1
  <2>4. y \in Nat /\ D \in Nat /\ D # 0 /\ d \in Int
    BY <1>1, <1>2
  <2> QED BY <2>1, <2>2, <2>4, FirstSkip
<1>5. EndAt(y) = EndOf[<<NextAt(v), 2 * (i + 1)>>]
  <2> HIDE DEF y
  <2>1. EndOf[<<NextAt(v), (2 * i + 1) + 1>>] = EndAt(EndOf[<<NextAt(v), 2 * i + 1>>])
    BY <1>0, <1>2, <1>3, OneMore
  <2> QED BY <1>1, <1>3, <2>1 DEF ValuePlace
<1>6. Ahead(EndAt(y), 2 * (m - 1), TRUE, D, d, o)
  <2>1. PICK n : n = 2 * m
    OBVIOUS
  <2>2. n \in Nat /\ n - 2 \in Nat /\ Ahead(x, n, TRUE, D, d, o)
    BY <1>2, <1>3, <2>1
  <2>3. Ahead(EndAt(EndAt(x)), n - 2, TRUE, D, d, o)
    BY <1>0, <1>2, <2>2, PassTwo
  <2> QED BY <1>3, <2>1, <2>3
<1>7. \A k \in 0 .. ((i + 1) - 1) : ~HasKey(v, k, p[j + 1])
  <2>1. \A k \in 0 .. ((i + 1) - 1) : k = i \/ k \in 0 .. (i - 1)
    BY <1>2
  <2> QED BY <1>2, <2>1
<1> HIDE DEF y, sk
<1>8. AmongKeys(p[j + 1], v, i + 1, m - 1, NextAt(y), sk, D, d, o)
  BY <1>2, <1>3, <1>4, <1>5, <1>6, <1>7 DEF AmongKeys
<1>9. Searching("map", o, p, q, m - 1, NextAt(y), sk, e, j, v, D, d)
  BY <1>2, <1>3, <1>8 DEF Searching
<1> QED BY <1>9 DEF y, sk

\* A key is compared, or refused; or there are none left.
LEMMA KeyLooks ==
  ASSUME MemInv, PathInv, LostInv, UNCHANGED memoryVars, KeyIsInvalid \/ CompareKey \/ NoKeyLeft
  PROVE  LostInv'
<1> DEFINE o == asked.start
           p == asked.path
           x == value.offset_to_next
           At(j, v, D, d, i) == AtKey(o, p, path, left, x, entry_data, j, v, D, d, i)
           key == Followed(Uninitialised, x)
<1>1. lookup = "map" /\ lookup # "idle" /\ skips = << >>
  BY DEF KeyIsInvalid, CompareKey, NoKeyLeft
<1>2. /\ SectionOK /\ AskedInv /\ o \in Nat /\ p \in Seq(Seq(Byte)) /\ path \in Seq(Seq(Byte))
      /\ asked = [start |-> o, path |-> p] /\ x \in Nat /\ left \in Nat /\ path # << >>
      /\ KeysAreStrings(o, p) =>
           \E j, v, D, d : Searching(lookup, o, p, path, left, x, skips, entry_data, j, v, D, d)
  BY <1>1, UnderWay
<1>3. Uninitialised \in EntryType
  BY PathAssumption
<1>4. /\ FollowFails(Uninitialised, x) <=> NoValue(x)
      /\ ~NoValue(x) => /\ Describes(key, Resolved(x))
                        /\ TypeAt(Resolved(x)) \notin Compound => key.offset_to_next = EndAt(x)
  BY <1>2, <1>3, FollowedValue
<1>5. CASE NoKeyLeft
  <2>1. left = 0 /\ Fail("MMDB_LOOKUP_PATH_DOES_NOT_MATCH_DATA_ERROR")
    BY <1>5 DEF NoKeyLeft
  <2>2. ASSUME KeysAreStrings(o, p) PROVE Selected(o, p) = Missing
    <3> HIDE DEF o, p, x
    <3>1. PICK j, v, D, d : Searching("map", o, p, path, left, x, << >>, entry_data, j, v, D, d)
      BY <1>1, <1>2, <2>2
    <3>2. PICK i \in Nat : At(j, v, D, d, i)
      BY <1>2, <3>1, SearchAtKey
    <3>3. /\ Reached(o, p, j, v, entry_data, D, d) /\ Rest(path, p, j) /\ Head(path) = p[j + 1]
          /\ TypeAt(v) = MAP /\ i + left = SizeAt(v) /\ i \in Nat
          /\ \A k \in 0 .. (i - 1) : ~HasKey(v, k, p[j + 1])
      BY <3>2 DEF AtKey
    <3>4. i = SizeAt(v)
      BY <2>1, <3>3
    <3>5. InMap(v, p[j + 1]) = {}
      BY <3>3, <3>4 DEF InMap
    <3>6. Choice(v, Head(path)) = {}
      BY <3>3, <3>5 DEF Choice
    <3> QED BY <1>2, <3>3, <3>6, LeadsNowhere
  <2> QED BY <1>2, <2>1, <2>2, LookFails
<1>6. CASE KeyIsInvalid
  <2>1. /\ left > 0 /\ Fail("MMDB_INVALID_DATA_ERROR")
        /\ FollowFails(Uninitialised, x) \/ key.type # UTF8_STRING
    BY <1>6 DEF KeyIsInvalid
  <2>2. ASSUME KeysAreStrings(o, p) PROVE ~Sound(o, 1, MaxDepth)
    <3> HIDE DEF o, p, x, key
    <3>1. PICK j, v, D, d : Searching("map", o, p, path, left, x, << >>, entry_data, j, v, D, d)
      BY <1>1, <1>2, <2>2
    <3>2. PICK i \in Nat : At(j, v, D, d, i)
      BY <1>2, <3>1, SearchAtKey
    <3>3. KeyIsString(x) /\ (NoValue(x) => ~Sound(o, 1, MaxDepth))
      <4>1. left # 0
        BY <1>2, <2>1
      <4> QED BY <1>2, <3>2, <4>1, KeyFacts
    <3>4. NoValue(x)
      BY <1>4, <2>1, <3>3 DEF KeyIsString, Describes
    <3> QED BY <3>3, <3>4
  <2> QED BY <1>2, <2>1, <2>2, LookFails
<1>7. CASE CompareKey
  <2>1. /\ left > 0 /\ ~FollowFails(Uninitialised, x) /\ key.type = UTF8_STRING
        /\ IF Matches(key, Head(path)) THEN Found(key.offset_to_next)
           ELSE IF Invalid(key.offset_to_next) THEN Fail("MMDB_INVALID_DATA_ERROR")
           ELSE SkipValue(Uninitialised, key.offset_to_next)
    BY <1>7 DEF CompareKey
  <2>2. ~NoValue(x) /\ ~Invalid(x) /\ Describes(key, Resolved(x))
    BY <1>4, <2>1 DEF NoValue
  <2>3. key.offset_to_next = EndAt(x)
    <3>1. TypeAt(Resolved(x)) = UTF8_STRING
      BY <2>1, <2>2 DEF Describes
    <3>2. TypeAt(Resolved(x)) \notin Compound
      BY <3>1 DEF Compound, UTF8_STRING, MAP, ARRAY
    <3> QED BY <1>4, <2>2, <3>2
  <2>4. left # 0 /\ EndAt(x) \in Nat
    <3> HIDE DEF x
    <3>1. left # 0
      BY <1>2, <2>1
    <3> QED BY <1>2, <3>1, EndAtFacts
  <2>5. ASSUME KeysAreStrings(o, p)
        PROVE  \E j, v, D, d : \E i \in Nat :
                  At(j, v, D, d, i) /\ (Matches(key, Head(path)) <=> HasKey(v, i, p[j + 1]))
    <3> HIDE DEF o, p, x, key
    <3>1. PICK j, v, D, d : Searching("map", o, p, path, left, x, << >>, entry_data, j, v, D, d)
      BY <1>1, <1>2, <2>5
    <3>2. PICK i \in Nat : At(j, v, D, d, i)
      BY <1>2, <3>1, SearchAtKey
    <3>3. Head(path) = p[j + 1] /\ p[j + 1] \in Seq(Byte)
      BY <3>2 DEF AtKey
    <3>4. Member(v, 2 * i) = Resolved(x) /\ Resolved(x) \in Nat
      BY <1>2, <3>2, ResolvedFacts DEF AtKey, Member
    <3>5. TypeAt(Resolved(x)) = UTF8_STRING
      BY <2>1, <2>2 DEF Describes
    <3>6. HasKey(v, i, p[j + 1]) <=> StringAt(Resolved(x)) = p[j + 1]
      BY <3>4, <3>5 DEF HasKey
    <3>7. Matches(key, p[j + 1]) <=> StringAt(Resolved(x)) = p[j + 1]
      BY <1>2, <2>1, <2>2, <3>3, <3>4, KeyMatches
    <3> QED BY <3>2, <3>3, <3>6, <3>7
  <2> HIDE DEF key, x, o, p
  <2>6. CASE Matches(key, Head(path))
    <3>1. Found(EndAt(x))
      BY <2>1, <2>3, <2>6
    <3>2. ASSUME KeysAreStrings(o, p)
          PROVE  \E j, v, D, d, n : Facing(EndAt(x), o, p, path, entry_data, j, v, D, d, n)
      <4>1. PICK j, v, D, d : \E i \in Nat : At(j, v, D, d, i) /\ HasKey(v, i, p[j + 1])
        BY <2>5, <2>6, <3>2
      <4>0. PICK i \in Nat : At(j, v, D, d, i) /\ HasKey(v, i, p[j + 1])
        BY <4>1
      <4>2. /\ \E n \in Nat : n # 0 /\ Ahead(EndAt(x), n, FALSE, D, d, o)
            /\ i < SizeAt(v) /\ EndAt(x) = ValuePlace(v, i)
        <5>1. \E n \in Nat : n # 0 /\ Ahead(EndAt(x), n, FALSE, D, d, o)
          BY <1>2, <2>2, <2>4, <4>0, KeyFacts
        <5>2. i < SizeAt(v)
          BY <1>2, <2>4, <4>0, KeyFacts
        <5>3. EndAt(x) = ValuePlace(v, i)
          <6>1. v \in Nat /\ x = EndOf[<<NextAt(v), 2 * i>>]
            BY <4>0 DEF AtKey
          <6> QED BY <1>2, <6>1, ValueAfterKey
        <5> QED BY <5>1, <5>2, <5>3
      <4>3. /\ Reached(o, p, j, v, entry_data, D, d) /\ Rest(path, p, j) /\ v \in Nat
            /\ ~Invalid(v) /\ TypeAt(v) = MAP /\ i \in Nat
            /\ \A k \in 0 .. (i - 1) : ~HasKey(v, k, p[j + 1])
        BY <4>0 DEF AtKey
      <4>4. Into(v, p[j + 1]) = Resolved(EndAt(x))
        BY <1>2, <4>0, <4>2, <4>3, FirstKey
      <4>5. PICK n \in Nat : n # 0 /\ Ahead(EndAt(x), n, FALSE, D, d, o)
        BY <4>2
      <4>6. Facing(EndAt(x), o, p, path, entry_data, j, v, D, d, n)
        BY <4>3, <4>4, <4>5 DEF Facing
      <4> QED BY <4>6
    <3> QED BY <1>1, <1>2, <2>4, <3>1, <3>2, FoundLooks DEF o, p
  <2>7. CASE ~Matches(key, Head(path)) /\ Invalid(EndAt(x))
    <3>1. Fail("MMDB_INVALID_DATA_ERROR")
      BY <2>1, <2>3, <2>7
    <3>2. ASSUME KeysAreStrings(o, p) PROVE ~Sound(o, 1, MaxDepth)
      <4>1. PICK j, v, D, d : \E i \in Nat : At(j, v, D, d, i)
        BY <2>5, <3>2
      <4>0. PICK i \in Nat : At(j, v, D, d, i)
        BY <4>1
      <4>2. PICK n \in Nat : n # 0 /\ Ahead(EndAt(x), n, FALSE, D, d, o)
        BY <1>2, <2>2, <2>4, <4>0, KeyFacts
      <4>3. NoValue(EndAt(x))
        BY <2>7 DEF NoValue
      <4> QED BY <1>2, <2>4, <4>2, <4>3, NotSound
    <3> QED BY <1>2, <3>1, <3>2, LookFails DEF o, p
  <2>8. CASE ~Matches(key, Head(path)) /\ ~Invalid(EndAt(x))
    <3>1. SkipValue(Uninitialised, EndAt(x))
      BY <2>1, <2>3, <2>8
    <3>2. /\ value' = Decoded(Uninitialised, EndAt(x)) /\ skips' = Entered(<< >>, value')
          /\ left' = left - 1 /\ lookup' = "map" /\ asked' = asked /\ path' = path
          /\ entry_data' = entry_data
      BY <1>1, <3>1 DEF SkipValue
    <3>3. value'.offset_to_next = NextAt(EndAt(x))
      BY <1>3, <2>4, <2>8, <3>2, DecodedValue
    <3>4. ASSUME KeysAreStrings(o, p)
          PROVE  \E j, v, D, d : Searching(lookup', o, p, path', left', value'.offset_to_next,
                                           skips', entry_data', j, v, D, d)
      <4>1. PICK j, v, D, d : \E i \in Nat : At(j, v, D, d, i) /\ ~HasKey(v, i, p[j + 1])
        BY <2>5, <2>8, <3>4
      <4>0. PICK i \in Nat : At(j, v, D, d, i) /\ ~HasKey(v, i, p[j + 1])
        BY <4>1
      <4>2. Searching("map", o, p, path, left - 1, NextAt(EndAt(x)),
                      Entered(<< >>, Decoded(Uninitialised, EndAt(x))), entry_data, j, v, D, d)
        BY <1>2, <1>3, <2>2, <2>4, <2>8, <4>0, PassKey
      <4> QED BY <3>2, <3>3, <4>2
    <3>5. asked' = [start |-> o, path |-> p] /\ path' \in Seq(Seq(Byte)) /\ lookup' # "idle"
          /\ path' # << >>
      BY <1>2, <3>2
    <3> QED BY <1>2, <3>4, <3>5, LookGoesOn
  <2> QED BY <2>6, <2>7, <2>8
<1> QED BY <1>5, <1>6, <1>7

\* Calls of skip_map_or_array are only made in the loops.
LEMMA SearchSkips ==
  ASSUME NEW l, NEW o, NEW p, NEW q, NEW m, NEW x, NEW sk, sk # << >>, NEW e, NEW j, NEW v,
         NEW D, NEW d, Searching(l, o, p, q, m, x, sk, e, j, v, D, d)
  PROVE  l # "path" /\ \E z : GetsTo(sk, z, x, D, d, o)
<1>1. l \in {"array", "map"}
  BY DEF Searching
<1>2. CASE l = "array"
  BY <1>2 DEF Searching, AmongElements
<1>3. CASE l = "map"
  BY <1>3 DEF Searching, AmongKeys
<1> QED BY <1>1, <1>2, <1>3

\* The loops go on if all the calls still get where they have to.
LEMMA SearchGoesOn ==
  ASSUME NEW l, l # "path", NEW o, NEW p, NEW q, NEW m, NEW x, NEW sk, NEW e, NEW j, NEW v,
         NEW D, NEW d, Searching(l, o, p, q, m, x, sk, e, j, v, D, d), NEW y, NEW tk,
         \A z : GetsTo(sk, z, x, D, d, o) => GetsTo(tk, z, y, D, d, o)
  PROVE  Searching(l, o, p, q, m, y, tk, e, j, v, D, d)
<1>1. \A s, i : AmongElements(s, v, i, m, x, sk, D, d, o)
                  => AmongElements(s, v, i, m, y, tk, D, d, o)
  BY DEF AmongElements
<1>2. \A s, i : AmongKeys(s, v, i, m, x, sk, D, d, o) => AmongKeys(s, v, i, m, y, tk, D, d, o)
  BY DEF AmongKeys
<1>3. /\ Reached(o, p, j, v, e, D, d) /\ Rest(q, p, j) /\ l \in {"path", "array", "map"}
      /\ q # << >>
      /\ l = "array" => \E i \in Nat : AmongElements(p[j + 1], v, i, m, x, sk, D, d, o)
      /\ l = "map" => \E i \in Nat : AmongKeys(p[j + 1], v, i, m, x, sk, D, d, o)
  BY DEF Searching
<1>4. /\ l = "array" => \E i \in Nat : AmongElements(p[j + 1], v, i, m, y, tk, D, d, o)
      /\ l = "map" => \E i \in Nat : AmongKeys(p[j + 1], v, i, m, y, tk, D, d, o)
  BY <1>1, <1>2, <1>3
<1> QED BY <1>3, <1>4 DEF Searching

\* skip_map_or_array returns.
LEMMA ReturnsLooks ==
  ASSUME MemInv, PathInv, LostInv, UNCHANGED memoryVars, SkipReturns
  PROVE  LostInv'
<1> DEFINE o == asked.start
           p == asked.path
           x == value.offset_to_next
           f == skips[Len(skips)]
<1>1. /\ skips # << >> /\ f.left = 0 /\ skips' = Front(skips) /\ lookup' = lookup
      /\ asked' = asked /\ path' = path /\ left' = left /\ value' = value
      /\ entry_data' = entry_data
  BY DEF SkipReturns
<1>2. lookup # "idle"
  BY <1>1 DEF LostInv, AskedInv
<1>3. /\ SectionOK /\ o \in Nat /\ p \in Seq(Seq(Byte)) /\ path \in Seq(Seq(Byte))
      /\ asked = [start |-> o, path |-> p] /\ x \in Nat /\ skips \in Seq(SkipFrame)
      /\ lookup # "path" => path # << >>
      /\ KeysAreStrings(o, p) =>
           \E j, v, D, d : Searching(lookup, o, p, path, left, x, skips, entry_data, j, v, D, d)
  BY <1>2, UnderWay
<1> HIDE DEF o, p, x, f
<1>4. /\ skips = Append(Front(skips), f) /\ Front(skips) \in Seq(SkipFrame) /\ f \in SkipFrame
  BY <1>1, <1>3, TopAndBelow DEF f
<1>5. Rem(f) = 0 /\ EndOf[<<x, 0>>] = x
  BY <1>1, <1>3, EndOfNone DEF Rem
<1>6. ASSUME KeysAreStrings(o, p)
      PROVE  \E j, v, D, d : Searching(lookup', o, p, path', left', value'.offset_to_next,
                                       skips', entry_data', j, v, D, d)
  <2>1. PICK j, v, D, d : Searching(lookup, o, p, path, left, x, skips, entry_data, j, v, D, d)
    BY <1>3, <1>6
  <2>2. lookup # "path"
    BY <1>1, <2>1, SearchSkips
  <2>3. ASSUME NEW z, GetsTo(skips, z, x, D, d, o)
        PROVE  GetsTo(Front(skips), z, x, D, d, o)
    <3>1. GetsTo(Append(Front(skips), f), z, x, D, d, o)
      BY <1>4, <2>3
    <3>2. GetsTo(Front(skips), z, EndOf[<<x, Rem(f)>>], D, d, o)
      BY <1>4, <3>1, SkipsPop
    <3> QED BY <1>5, <3>2
  <2>4. Searching(lookup, o, p, path, left, x, Front(skips), entry_data, j, v, D, d)
    BY <2>1, <2>2, <2>3, SearchGoesOn
  <2>5. value'.offset_to_next = x
    BY <1>1 DEF x
  <2> QED BY <1>1, <2>4, <2>5
<1>7. /\ asked' = [start |-> o, path |-> p] /\ path' \in Seq(Seq(Byte)) /\ lookup' # "idle"
      /\ lookup' # "path" => path' # << >>
  BY <1>1, <1>2, <1>3
<1> QED BY <1>3, <1>6, <1>7, LookGoesOn

\* One round of skip_map_or_array at x, with f its call: y is the place of the value that
\* it passes, the key of the value before it if it is a map's.
Round(f, x, y) == IF f.map THEN y = NextAt(x) ELSE y = x

\* What is known of the value.
LEMMA RoundFacts ==
  ASSUME SectionOK, NEW f \in SkipFrame, f.left > 0, NEW x \in Nat, NEW D \in Nat, D # 0,
         NEW d, NEW a, Ahead(x, Rem(f), f.map, D, d, a), NEW y, Round(f, x, y)
  PROVE  /\ f.map /\ Invalid(x) => ~Sound(a, 1, MaxDepth)
         /\ ~(f.map /\ Invalid(x)) => /\ y \in Nat
                                      /\ Invalid(y) => ~Sound(a, 1, MaxDepth)
                                      /\ \E n \in Nat : n # 0 /\ \E keyed : Ahead(y, n, keyed, D, d, a)
<1> DEFINE n == Rem(f)
<1>0. f.left \in Nat /\ f.left # 0 /\ f.map \in BOOLEAN
  BY DEF SkipFrame
<1>1. n \in Nat /\ n # 0
  BY <1>0 DEF Rem
<1> HIDE DEF n
<1>2. Ahead(x, n, f.map, D, d, a)
  BY DEF n
<1>3. Invalid(x) => ~Sound(a, 1, MaxDepth)
  BY <1>1, <1>2, NotSound DEF NoValue
<1>4. CASE ~f.map
  <2>1. y = x
    BY <1>4 DEF Round
  <2> QED BY <1>1, <1>2, <1>3, <1>4, <2>1
<1>5. CASE f.map /\ Invalid(x)
  BY <1>3, <1>5
<1>6. CASE f.map /\ ~Invalid(x)
  <2>1. n = 2 * f.left
    BY <1>6 DEF Rem, n
  <2>2. n - 1 \in Nat /\ n - 1 # 0
    BY <1>0, <2>1
  <2>3. Ahead(x, n, TRUE, D, d, a)
    BY <1>0, <1>2, <1>6
  <2>4. EndAt(x) = NextAt(x) /\ EndAt(x) \in Nat
    BY <1>1, <1>6, <2>3, KeyEnds, EndAtFacts
  <2>5. y = EndAt(x) /\ y \in Nat
    BY <1>6, <2>4 DEF Round
  <2>6. Ahead(EndAt(x), n - 1, FALSE, D, d, a)
    BY <1>1, <1>6, <2>3, PassOne
  <2>7. PICK k : k = n - 1
    OBVIOUS
  <2>8. k \in Nat /\ k # 0 /\ Ahead(y, k, FALSE, D, d, a)
    BY <2>2, <2>5, <2>6, <2>7
  <2>9. Invalid(y) => ~Sound(a, 1, MaxDepth)
    BY <2>5, <2>8, NotSound DEF NoValue
  <2> QED BY <1>6, <2>5, <2>8, <2>9
<1> QED BY <1>4, <1>5, <1>6

\* The call after it.
OneLess(f) == [f EXCEPT !.left = @ - 1]

\* What is left after it.
LEMMA RoundGoesOn ==
  ASSUME SectionOK, NEW f \in SkipFrame, f.left > 0, NEW x \in Nat, NEW D \in Nat, D # 0,
         NEW d, NEW a, Ahead(x, Rem(f), f.map, D, d, a), NEW y, Round(f, x, y),
         ~(f.map /\ Invalid(x)), ~Invalid(y)
  PROVE  /\ OneLess(f) \in SkipFrame
         /\ EndOf[<<x, Rem(f)>>] = EndOf[<<EndAt(y), Rem(OneLess(f))>>]
         /\ Ahead(EndAt(y), Rem(OneLess(f)), OneLess(f).map, D, d, a)
<1> DEFINE g == OneLess(f)
<1>0. f.left \in Nat /\ f.left # 0 /\ f.map \in BOOLEAN
  BY DEF SkipFrame
<1>1. g \in SkipFrame /\ g.map = f.map /\ g.left = f.left - 1
  BY <1>0 DEF SkipFrame, OneLess
<1> HIDE DEF g
<1>2. CASE ~f.map
  <2> DEFINE n == Rem(f)
  <2>1. y = x
    BY <1>2 DEF Round
  <2>2. n \in Nat /\ n # 0 /\ Rem(g) = n - 1 /\ n > 0
    BY <1>0, <1>1, <1>2 DEF Rem
  <2> HIDE DEF n
  <2>3. EndOf[<<x, n>>] = EndOf[<<EndAt(x), n - 1>>]
    BY <2>2, EndAtFacts
  <2>4. Ahead(EndAt(x), n - 1, FALSE, D, d, a)
    <3>1. Ahead(x, n, f.map, D, d, a)
      BY DEF n
    <3> QED BY <2>1, <2>2, <3>1, PassOne
  <2>5. g.map = FALSE
    BY <1>0, <1>1, <1>2
  <2>6. EndOf[<<x, n>>] = EndOf[<<EndAt(y), Rem(g)>>] /\ Ahead(EndAt(y), Rem(g), g.map, D, d, a)
    BY <2>1, <2>2, <2>3, <2>4, <2>5
  <2> QED BY <1>1, <2>6 DEF n, g
<1>3. CASE f.map
  <2> DEFINE n == Rem(f)
  <2>0. Ahead(x, n, TRUE, D, d, a)
    BY <1>0, <1>3
  <2>1. n = 2 * f.left /\ Rem(g) = 2 * (f.left - 1)
    BY <1>1, <1>3 DEF Rem
  <2> HIDE DEF n
  <2>2. n \in Nat /\ n # 0 /\ n > 0 /\ n - 1 \in Nat /\ n - 1 > 0 /\ n - 2 \in Nat
        /\ (n - 1) - 1 = n - 2 /\ Rem(g) = n - 2
    BY <1>0, <2>1
  <2>3. ~Invalid(x)
    BY <1>3
  <2>4. y = EndAt(x) /\ y \in Nat
    <3>1. EndAt(x) = NextAt(x)
      BY <2>0, <2>2, <2>3, KeyEnds
    <3> QED BY <1>3, <3>1, EndAtFacts DEF Round
  <2>5. EndOf[<<x, n>>] = EndOf[<<y, n - 1>>]
    BY <2>2, <2>4, EndAtFacts
  <2>6. EndOf[<<y, n - 1>>] = EndOf[<<EndAt(y), (n - 1) - 1>>]
    BY <2>2, <2>4, EndAtFacts
  <2>7. Ahead(EndAt(EndAt(x)), n - 2, TRUE, D, d, a)
    BY <2>0, <2>2, <2>3, <2>4, PassTwo
  <2>8. g.map = TRUE
    BY <1>0, <1>1, <1>3
  <2>9. EndOf[<<x, n>>] = EndOf[<<EndAt(y), Rem(g)>>] /\ Ahead(EndAt(y), Rem(g), g.map, D, d, a)
    BY <2>2, <2>4, <2>5, <2>6, <2>7, <2>8
  <2> QED BY <1>1, <2>9 DEF n, g
<1> QED BY <1>2, <1>3

\* What a round says of the calls.
LEMMA RoundSkips ==
  ASSUME MemInv, NEW u \in Seq(SkipFrame), NEW f \in SkipFrame, f.left > 0, NEW x \in Nat,
         NEW z, NEW D \in Nat, D >= MaxDepth, NEW d \in Int, NEW a,
         GetsTo(Append(u, f), z, x, D, d, a), Len(u) + 1 < MaxDepth,
         NEW y, Round(f, x, y), ~(f.map /\ Invalid(x)), ~Invalid(y), NEW t \in EntryType
  PROVE  GetsTo(Entered(Append(u, OneLess(f)), Decoded(t, y)), z, NextAt(y), D, d, a)
<1> DEFINE g == OneLess(f)
           sk == Append(u, g)
<1>0. SectionOK
  BY MemoryIsSection
<1>1. /\ GetsTo(u, z, EndOf[<<x, Rem(f)>>], D, d, a)
      /\ Ahead(x, Rem(f), f.map, D - (Len(u) + 1), d - (Len(u) + 1), a)
  BY SkipsPop
<1>2. MaxDepth \in Nat
  BY SectionAssumption DEF MaxDepth
<1> DEFINE E == D - (Len(u) + 1)
           c == d - (Len(u) + 1)
<1>3. E \in Nat /\ E # 0 /\ c \in Int
  BY <1>2
<1>4. Ahead(x, Rem(f), f.map, E, c, a)
  BY <1>1
<1> HIDE DEF E, c, g
<1>5. /\ y \in Nat /\ \E n \in Nat : n # 0 /\ \E keyed : Ahead(y, n, keyed, E, c, a)
  BY <1>0, <1>3, <1>4, RoundFacts
<1>6. /\ g \in SkipFrame /\ EndOf[<<x, Rem(f)>>] = EndOf[<<EndAt(y), Rem(g)>>]
      /\ Ahead(EndAt(y), Rem(g), g.map, E, c, a)
  BY <1>0, <1>3, <1>4, RoundGoesOn DEF g
<1>7. EndAt(y) \in Nat
  BY <1>0, <1>5, EndAtFacts
<1>8. GetsTo(sk, z, EndAt(y), D, d, a)
  <2>1. GetsTo(u, z, EndOf[<<EndAt(y), Rem(g)>>], D, d, a)
    BY <1>1, <1>6
  <2>2. Ahead(EndAt(y), Rem(g), g.map, D - (Len(u) + 1), d - (Len(u) + 1), a)
    BY <1>6 DEF E, c
  <2> QED BY <1>6, <1>7, <2>1, <2>2, SkipsPush
<1>9. sk \in Seq(SkipFrame) /\ Len(sk) = Len(u) + 1
  BY <1>6
<1> HIDE DEF sk
<1>10. D - Len(sk) = E /\ d - Len(sk) = c /\ D \in Int
  BY <1>9 DEF E, c
<1>11. PICK n \in Nat : n # 0 /\ \E keyed : Ahead(y, n, keyed, E, c, a)
  BY <1>5
<1>12. PICK keyed : Ahead(y, n, keyed, D - Len(sk), d - Len(sk), a)
  BY <1>10, <1>11
<1>13. D - Len(sk) \in Nat /\ D - Len(sk) # 0
  BY <1>3, <1>10
<1>14. GetsTo(Entered(sk, Decoded(t, y)), z, NextAt(y), D, d, a)
  BY <1>5, <1>8, <1>9, <1>10, <1>11, <1>12, <1>13, SkipsEnter
<1> QED BY <1>14 DEF sk, g

\* A member is passed in skip_map_or_array.
LEMMA MemberLooks ==
  ASSUME MemInv, PathInv, LostInv, UNCHANGED memoryVars, SkipMember
  PROVE  LostInv'
<1> DEFINE o == asked.start
           p == asked.path
           x == value.offset_to_next
           n == Len(skips)
           f == skips[n]
           u == Front(skips)
<1>1. skips # << >> /\ f.left > 0
  BY DEF SkipMember
<1>2. PICK keyed \in {IF f.map THEN Decoded(value, x) ELSE value} :
        IF \/ f.map /\ Invalid(x)
           \/ Invalid(keyed.offset_to_next)
           \/ n >= MAXIMUM_DATA_STRUCTURE_DEPTH
        THEN Fail("MMDB_INVALID_DATA_ERROR")
        ELSE /\ value' = Decoded(keyed, keyed.offset_to_next)
             /\ skips' = Entered([skips EXCEPT ![n].left = @ - 1], value')
             /\ UNCHANGED <<lookup, asked, path, left, entry_data, result>>
  BY DEF SkipMember
<1>3. lookup # "idle"
  BY <1>1 DEF LostInv, AskedInv
<1>4. /\ SectionOK /\ AskedInv /\ o \in Nat /\ p \in Seq(Seq(Byte)) /\ path \in Seq(Seq(Byte))
      /\ asked = [start |-> o, path |-> p] /\ x \in Nat /\ skips \in Seq(SkipFrame)
      /\ value \in EntryType /\ (lookup # "path" => path # << >>)
      /\ KeysAreStrings(o, p) =>
           \E j, v, D, d : Searching(lookup, o, p, path, left, x, skips, entry_data, j, v, D, d)
  BY <1>3, UnderWay
<1> DEFINE y == keyed.offset_to_next
<1>5. keyed \in EntryType /\ y \in Nat
  <2>1. keyed \in EntryType
    BY <1>2, <1>4, DecodedEntry
  <2> QED BY <2>1, EntryFields
<1>6. ~(f.map /\ Invalid(x)) => Round(f, x, y)
  <2>1. CASE f.map
    <3>1. ~Invalid(x) => Decoded(value, x).offset_to_next = NextAt(x)
      BY <1>4, DecodedValue
    <3> QED BY <1>2, <2>1, <3>1 DEF Round
  <2>2. CASE ~f.map
    BY <1>2, <2>2 DEF Round
  <2> QED BY <2>1, <2>2
<1>7. /\ skips = Append(u, f) /\ u \in Seq(SkipFrame) /\ f \in SkipFrame /\ n = Len(u) + 1
      /\ \A g : [skips EXCEPT ![n] = g] = Append(u, g)
  BY <1>1, <1>4, TopAndBelow
<1>8. [skips EXCEPT ![n].left = @ - 1] = Append(u, OneLess(f))
  <2>1. [skips EXCEPT ![n].left = @ - 1] = [skips EXCEPT ![n] = [skips[n] EXCEPT !.left = @ - 1]]
    BY <1>1, <1>4
  <2> QED BY <1>7, <2>1 DEF OneLess
<1>9. MaxDepth = MAXIMUM_DATA_STRUCTURE_DEPTH /\ MaxDepth \in Nat /\ Len(u) \in Nat
  BY <1>7, SectionAssumption DEF MaxDepth
<1> HIDE DEF o, p, x, f, u, y
<1>10. ASSUME NEW j, NEW v, NEW D, NEW d,
              Searching(lookup, o, p, path, left, x, skips, entry_data, j, v, D, d)
       PROVE  /\ lookup # "path" /\ D \in Nat /\ D >= MaxDepth /\ d \in Int /\ d <= MaxDepth
              /\ \E z : GetsTo(Append(u, f), z, x, D, d, o)
  <2>1. lookup # "path" /\ \E z : GetsTo(skips, z, x, D, d, o)
    BY <1>1, <1>10, SearchSkips
  <2>2. Reached(o, p, j, v, entry_data, D, d)
    BY <1>10 DEF Searching
  <2>3. D \in Nat /\ D >= MaxDepth /\ d \in Int /\ d <= MaxDepth
    BY <1>4, <2>2, DepthLeft
  <2> QED BY <1>7, <2>1, <2>3
<1>11. CASE (f.map /\ Invalid(x)) \/ Invalid(y) \/ n >= MAXIMUM_DATA_STRUCTURE_DEPTH
  <2>1. Fail("MMDB_INVALID_DATA_ERROR")
    BY <1>2, <1>11 DEF y
  <2>2. ASSUME KeysAreStrings(o, p) PROVE ~Sound(o, 1, MaxDepth)
    <3>1. PICK j, v, D, d : Searching(lookup, o, p, path, left, x, skips, entry_data, j, v, D, d)
      BY <1>4, <2>2
    <3>2. /\ D \in Nat /\ D >= MaxDepth /\ d \in Int /\ d <= MaxDepth
          /\ \E z : GetsTo(Append(u, f), z, x, D, d, o)
      BY <1>10, <3>1
    <3>3. Ahead(x, Rem(f), f.map, D - (Len(u) + 1), d - (Len(u) + 1), o)
      BY <1>7, <3>2, SkipsPop
    <3>4. Rem(f) \in Nat /\ Rem(f) # 0
      BY <1>1, <1>7 DEF Rem, SkipFrame
    <3> DEFINE E == D - (Len(u) + 1)
               c == d - (Len(u) + 1)
    <3>5. CASE n >= MAXIMUM_DATA_STRUCTURE_DEPTH
      <4>1. c \in Int /\ c <= 0
        BY <1>7, <1>9, <3>2, <3>5
      <4>2. Ahead(x, Rem(f), f.map, E, c, o)
        BY <3>3
      <4> HIDE DEF E, c
      <4>3. CASE c = 0
        BY <1>4, <3>4, <4>2, <4>3, NotSound
      <4>4. CASE c # 0
        <5>1. c \notin Nat
          BY <4>1, <4>4
        <5> QED BY <4>2, <5>1 DEF Ahead
      <4> QED BY <4>3, <4>4
    <3>6. CASE ~(n >= MAXIMUM_DATA_STRUCTURE_DEPTH)
      <4>1. E \in Nat /\ E # 0
        <5>1. n < MaxDepth /\ n \in Nat
          BY <1>7, <1>9, <3>6
        <5> QED BY <1>7, <1>9, <3>2, <5>1
      <4>2. Ahead(x, Rem(f), f.map, E, c, o)
        BY <3>3
      <4> HIDE DEF E, c
      <4>3. CASE f.map /\ Invalid(x)
        <5>1. PICK r : Round(f, x, r)
          BY DEF Round
        <5> QED BY <1>1, <1>4, <1>7, <4>1, <4>2, <4>3, <5>1, RoundFacts
      <4>4. CASE ~(f.map /\ Invalid(x)) /\ Invalid(y)
        BY <1>1, <1>4, <1>6, <1>7, <4>1, <4>2, <4>4, RoundFacts
      <4> QED BY <1>11, <3>6, <4>3, <4>4
    <3> QED BY <3>5, <3>6
  <2> QED BY <1>4, <2>1, <2>2, LookFails DEF o, p
<1>12. CASE ~(f.map /\ Invalid(x)) /\ ~Invalid(y) /\ ~(n >= MAXIMUM_DATA_STRUCTURE_DEPTH)
  <2>1. /\ value' = Decoded(keyed, y) /\ lookup' = lookup /\ asked' = asked /\ path' = path
        /\ left' = left /\ entry_data' = entry_data
        /\ skips' = Entered(Append(u, OneLess(f)), value')
    BY <1>2, <1>8, <1>12 DEF y
  <2>2. value'.offset_to_next = NextAt(y)
    BY <1>5, <1>12, <2>1, DecodedValue
  <2>3. Len(u) + 1 < MaxDepth
    BY <1>7, <1>9, <1>12
  <2>4. ASSUME KeysAreStrings(o, p)
        PROVE  \E j, v, D, d : Searching(lookup', o, p, path', left', value'.offset_to_next,
                                         skips', entry_data', j, v, D, d)
    <3>1. PICK j, v, D, d : Searching(lookup, o, p, path, left, x, skips, entry_data, j, v, D, d)
      BY <1>4, <2>4
    <3>2. lookup # "path" /\ D \in Nat /\ D >= MaxDepth /\ d \in Int
      BY <1>10, <3>1
    <3>3. ASSUME NEW z, GetsTo(skips, z, x, D, d, o)
          PROVE  GetsTo(skips', z, NextAt(y), D, d, o)
      <4>1. GetsTo(Append(u, f), z, x, D, d, o)
        BY <1>7, <3>3
      <4>2. GetsTo(Entered(Append(u, OneLess(f)), Decoded(keyed, y)), z,
                   NextAt(y), D, d, o)
        BY <1>1, <1>4, <1>5, <1>6, <1>7, <1>12, <2>3, <3>2, <4>1, RoundSkips
      <4> QED BY <2>1, <4>2
    <3>4. PICK tk : tk = skips'
      OBVIOUS
    <3>5. \A z : GetsTo(skips, z, x, D, d, o) => GetsTo(tk, z, NextAt(y), D, d, o)
      BY <3>3, <3>4
    <3>6. Searching(lookup, o, p, path, left, NextAt(y), tk, entry_data, j, v, D, d)
      BY <3>1, <3>2, <3>5, SearchGoesOn
    <3> QED BY <2>1, <2>2, <3>4, <3>6
  <2>5. /\ asked' = [start |-> o, path |-> p] /\ path' \in Seq(Seq(Byte)) /\ lookup' # "idle"
        /\ lookup' # "path" => path' # << >>
    BY <1>3, <1>4, <2>1
  <2> QED BY <1>4, <2>4, <2>5, LookGoesOn
<1> QED BY <1>11, <1>12

\* Every step of a path lookup.
LEMMA StepLooks ==
  ASSUME MemInv, PathInv, LostInv, UNCHANGED memoryVars, PathStep
  PROVE  LostInv'
<1>1. CASE PathEnds
  BY <1>1, EndLooks
<1>2. CASE NoMembers
  BY <1>2, NoMembersLooks
<1>3. CASE IntoArray
  BY <1>3, IntoArrayLooks
<1>4. CASE IntoMap
  BY <1>4, IntoMapLooks
<1>5. CASE PassElement \/ TakeElement
  BY <1>5, ElementLooks
<1>6. CASE KeyIsInvalid \/ CompareKey \/ NoKeyLeft
  BY <1>6, KeyLooks
<1>7. CASE SkipMember
  BY <1>7, MemberLooks
<1>8. CASE SkipReturns
  BY <1>8, ReturnsLooks
<1> QED BY <1>1, <1>2, <1>3, <1>4, <1>5, <1>6, <1>7, <1>8 DEF PathStep

-------------------------------------------------------------------------------

IInv == /\ MemInv /\ PathInv /\ ListInv /\ OwnInv /\ OwedInv /\ MadeInv /\ DumpInv
        /\ BoundInv /\ ReadInv /\ LostInv

\* Nothing has been called yet.
LEMMA InitHolds == Init => IInv
<1> SUFFICES ASSUME Init PROVE IInv
  OBVIOUS
<1> USE DEF Init
<1>1. MemInv
  BY DEF MemInv
<1>2. PathInv
  <2>1. /\ lookup = "idle" /\ left = 0 /\ value = EmptyEntry /\ skips = << >>
        /\ entry_data = EmptyEntry /\ result = "none"
    BY DEF PathInit
  <2>2. skips \in Seq(SkipFrame) /\ Len(skips) <= MaxDepth
    BY <2>1, SectionAssumption DEF MaxDepth
  <2> QED BY <2>1, <2>2, EmptyIsEntry DEF PathInv, Status
<1>3. /\ stage = "idle" /\ stack = << >> /\ data = << >> /\ root = 0 /\ list = NULL
      /\ list_status = "none" /\ open = FALSE /\ items = << >>
  BY DEF ListInit, ArenaInit
<1>4. dump = "idle" /\ current = NULL /\ dump_status = "none"
  BY DEF DumpInit
<1>5. ListInv
  <2>1. items \in Seq(Element) /\ Len(items) = 0 /\ Range(items) = {}
    BY <1>3 DEF Range
  <2>2. data \in [Range(items) -> EntryType]
    BY <1>3, <2>1
  <2>3. StackOK(stack, Range(items), items[Len(items)])
    BY <1>3 DEF StackOK
  <2> QED BY <1>3, <2>1, <2>2, <2>3 DEF ListInv, Status
<1>6. OwnInv
  BY <1>3, <1>4 DEF OwnInv
<1>7. OwedInv /\ MadeInv
  BY <1>3 DEF OwedInv, MadeInv
<1>8. DumpInv
  BY <1>4 DEF DumpInv, Status
<1>9. BoundInv
  <2>1. Len(items) = 0 /\ data_section_size \in Nat
    BY <1>1, <1>3, MemoryIsSection, SizeIsNat
  <2> QED BY <1>3, <2>1 DEF BoundInv, Bound
<1>10. ReadInv
  BY <1>3 DEF ReadInv, OrderInv, CauseInv, SaidInv
<1>11. LostInv
  <2>1. /\ lookup = "idle" /\ asked = [start |-> 0, path |-> << >>] /\ path = << >>
        /\ skips = << >> /\ result = "none"
    BY DEF PathInit
  <2>2. << >> \in Seq(Seq(Byte)) /\ 0 \in Nat
    OBVIOUS
  <2> QED BY <2>1, <2>2 DEF LostInv, AskedInv, LookInv, OutcomeInv
<1> QED BY <1>1, <1>2, <1>5, <1>6, <1>7, <1>8, <1>9, <1>10, <1>11 DEF IInv

\* What another client's step leaves alone.
LEMMA Unmoved ==
  ASSUME IInv, UNCHANGED memoryVars
  PROVE  /\ MemInv'
         /\ UNCHANGED pathVars => PathInv' /\ LostInv'
         /\ UNCHANGED <<listVars, arenaVars>> =>
              ListInv' /\ OwedInv' /\ MadeInv' /\ BoundInv' /\ ReadInv'
         /\ UNCHANGED <<listVars, arenaVars, dumpVars>> => OwnInv' /\ DumpInv'
         /\ UNCHANGED dumpVars /\ dump = "idle" => DumpInv'
<1>1. MemInv'
  BY DEF IInv, MemInv, memoryVars
<1>2. ASSUME UNCHANGED pathVars PROVE PathInv' /\ LostInv'
  <2>1. PathInv'
    BY <1>2 DEF IInv, PathInv, pathVars
  <2>2. LostInv'
    BY <1>2, LookUnmoved DEF IInv
  <2> QED BY <2>1, <2>2
<1>3. ASSUME UNCHANGED <<listVars, arenaVars>>
      PROVE  ListInv' /\ OwedInv' /\ MadeInv' /\ BoundInv' /\ ReadInv'
  <2>1. UNCHANGED <<stage, stack, data, root, list, list_status, items>>
    BY <1>3 DEF listVars, arenaVars
  <2>2. ListInv'
    BY <2>1 DEF IInv, ListInv
  <2>3. OwedInv'
    BY <2>1 DEF IInv, OwedInv, PendingIn
  <2>4. MadeInv'
    BY <2>1 DEF IInv, MadeInv
  <2>5. BoundInv'
    BY <2>1
       DEF IInv, BoundInv, NoPointers, Bound, Progress, Top, data_section_size, memoryVars
  <2>6. ReadInv'
    BY <2>1, ReadUnmoved DEF IInv
  <2> QED BY <2>2, <2>3, <2>4, <2>5, <2>6
<1>4. ASSUME UNCHANGED <<listVars, arenaVars, dumpVars>> PROVE OwnInv' /\ DumpInv'
  <2>1. UNCHANGED <<stage, stack, data, root, list, list_status, open, items, links,
                    dump, current, nest, dumped, dump_status>>
    BY <1>4 DEF listVars, arenaVars, dumpVars
  <2>2. OwnInv'
    BY <2>1 DEF IInv, OwnInv
  <2>3. DumpInv'
    BY <2>1 DEF IInv, DumpInv, DumpAt, DumpOwes
  <2> QED BY <2>2, <2>3
<1>5. ASSUME UNCHANGED dumpVars, dump = "idle" PROVE DumpInv'
  BY <1>5 DEF IInv, DumpInv, dumpVars
<1> QED BY <1>1, <1>2, <1>3, <1>4, <1>5

\* Every step preserves the invariant.
LEMMA NextHolds == IInv /\ [Next]_vars => IInv'
<1> SUFFICES ASSUME IInv, [Next]_vars PROVE IInv'
  OBVIOUS
<1>1. CASE UNCHANGED vars
  <2>1. UNCHANGED <<memoryVars, pathVars, listVars, arenaVars, dumpVars>>
    BY <1>1 DEF vars, memoryVars
  <2> QED BY <2>1, Unmoved DEF IInv
<1>2. CASE CallPath \/ (PathStep /\ UNCHANGED <<memoryVars, listVars, arenaVars, dumpVars>>)
  <2>1. UNCHANGED <<memoryVars, listVars, arenaVars, dumpVars>>
    BY <1>2 DEF CallPath
  <2>2. PathInv'
    BY <1>2, PathCallHolds, PathStepHolds DEF IInv
  <2>3. LostInv'
    BY <1>2, <2>1, CallLooks, StepLooks DEF IInv
  <2> QED BY <2>1, <2>2, <2>3, Unmoved DEF IInv
<1>3. CASE CallList \/ (ListStep /\ UNCHANGED <<memoryVars, pathVars, dumpVars>>)
  <2>1. UNCHANGED <<memoryVars, pathVars, dumpVars>>
    BY <1>3 DEF CallList
  <2>2. MakeInv
    BY DEF IInv, MakeInv
  <2>3. MakeInv' /\ MadeInv'
    BY <1>3, <2>1, <2>2, CallListHolds, ListStepHolds
  <2>4. dump = "idle"
    <3>1. CASE stage # "idle"
      BY <3>1 DEF IInv, OwnInv
    <3>2. CASE stage = "idle"
      <4>1. ~open
        BY <1>3, <3>2 DEF CallList, MMDB_get_entry_data_list, Create, ListStep, FirstElement,
          RejectValue, SimpleValue, CompoundValue, PointerToSimple, PointerToCompound, New,
          PointerReturns, NextMember, MembersReturn, Finish, GiveUp
      <4> QED BY <4>1 DEF IInv, OwnInv
    <3> QED BY <3>1, <3>2
  <2>5. DumpInv' /\ PathInv' /\ LostInv'
    BY <2>1, <2>4, Unmoved
  <2>6. BoundInv'
    <3>1. CASE CallList
      <4>1. items' = << >> /\ stage' # "decode"
        BY <3>1 DEF CallList, MMDB_get_entry_data_list, Create, IInv, OwnInv
      <4> QED BY <2>3, <4>1, EmptyBound
    <3>2. CASE ListStep
      BY <2>1, <2>2, <2>3, <3>2, BoundHolds DEF IInv
    <3> QED BY <1>3, <3>1, <3>2
  <2>7. ReadInv'
    BY <1>3, <2>1, <2>2, CallReads, ReadHolds DEF IInv
  <2> QED BY <2>3, <2>5, <2>6, <2>7 DEF IInv, MakeInv
<1>4. CASE CallFree
  <2>1. /\ UNCHANGED <<memoryVars, pathVars, dumpVars>> /\ dump = "idle"
        /\ MMDB_free_entry_data_list /\ UNCHANGED dump
    BY <1>4 DEF CallFree, dumpVars
  <2>2. MakeInv
    BY DEF IInv, MakeInv
  <2>3. MakeInv'
    BY <2>1, <2>2, DiscardHolds
  <2>4. MadeInv'
    BY <2>1 DEF MadeInv, MMDB_free_entry_data_list
  <2>5. DumpInv' /\ PathInv' /\ LostInv'
    BY <2>1, Unmoved
  <2>6. BoundInv'
    BY <2>1, <2>3, EmptyBound DEF MMDB_free_entry_data_list, Discard
  <2>7. ReadInv'
    <3>1. /\ UNCHANGED <<root, list_status>> /\ stage' = "idle" /\ list' = NULL
          /\ stage \in {"idle", "destroy"}
      BY <2>1 DEF MMDB_free_entry_data_list, Discard
    <3> QED BY <2>1, <3>1, ReadAfterwards DEF IInv, ReadInv
  <2> QED BY <2>3, <2>4, <2>5, <2>6, <2>7 DEF IInv, MakeInv
<1>5. CASE CallDump \/ (DumpStep /\ UNCHANGED <<memoryVars, pathVars, listVars, arenaVars>>)
  <2>1. UNCHANGED <<memoryVars, pathVars, listVars, arenaVars>>
    BY <1>5 DEF CallDump
  <2>2. UNCHANGED <<items, data, stage, list, open, links, list_status, stack>>
    BY <2>1 DEF listVars, arenaVars
  <2>3. stage = "idle" /\ list # NULL
    <3>1. CASE CallDump
      BY <3>1 DEF CallDump, MMDB_dump_entry_data_list
    <3>2. CASE DumpStep
      <4>1. dump # "idle"
        BY <3>2 DEF DumpStep, DumpCompound, DumpSimple, DumpUnknown, DumpElement, DumpKey,
          DumpKeyIsNoString, DumpOutOfMemory, DumpLoopEnds, DumpEnds, Looping
      <4> QED BY <4>1 DEF IInv, OwnInv
    <3> QED BY <1>5, <3>1, <3>2
  <2>4. Listed /\ items # << >> /\ list = items[1] /\ open
    BY <2>3 DEF Listed, IInv, OwnInv
  <2>5. DumpInv'
    BY <1>5, <2>2, <2>4, DumpCallHolds, DumpStepHolds DEF CallDump, IInv
  <2>6. OwnInv'
    BY <2>2, <2>3, <2>4 DEF IInv, OwnInv
  <2> QED BY <2>1, <2>5, <2>6, Unmoved DEF IInv
<1> QED BY <1>1, <1>2, <1>3, <1>4, <1>5 DEF Next, Running

\* The invariant of all calls.
THEOREM EntriesInvariant == Spec => []IInv
BY InitHolds, NextHolds, PTL DEF Spec

\* Type correctness, and the bound on both recursions: neither
\* get_entry_data_list nor skip_map_or_array nests deeper than
\* MAXIMUM_DATA_STRUCTURE_DEPTH calls that decode anything.
THEOREM EntriesTypeCorrect == Spec => []TypeOK
<1>1. IInv => TypeOK
  <2> SUFFICES ASSUME IInv PROVE TypeOK
    OBVIOUS
  <2>1. PathInv /\ ListInv /\ DumpInv
    BY DEF IInv
  <2>2. \A k \in DOMAIN skips : skips[k].left \in Nat
    <3>1. skips \in Seq(SkipFrame)
      BY <2>1 DEF PathInv
    <3>2. \A k \in DOMAIN skips : skips[k] \in SkipFrame
      BY <3>1
    <3> QED BY <3>2, RestOfType
  <2>3. DOMAIN data = Range(items) /\ \A e \in DOMAIN data : data[e] \in EntryType
    BY <2>1 DEF ListInv
  <2>4. /\ Len(stack) <= MaxDepth + 1
        /\ \A k \in DOMAIN stack : {stack[k].element, stack[k].member} \subseteq Range(items)
    <3> DEFINE I == Range(items)
               e == items[Len(items)]
    <3>1. StackOK(stack, I, e)
      BY <2>1 DEF ListInv
    <3> HIDE DEF I, e
    <3>2. CASE stack = << >>
      BY <3>2, SectionAssumption DEF MaxDepth
    <3>3. CASE stack # << >>
      <4>1. PICK u \in Seq(FrameType), t \in FrameType :
              /\ stack = Append(u, t) /\ Settled(u, I) /\ Len(u) <= MaxDepth
              /\ Waits(t, Len(u) + 1, I) \/ IsNew(t, I, e)
        BY <3>1, <3>3 DEF StackOK
      <4>2. /\ Len(stack) = Len(u) + 1 /\ Len(u) \in Nat /\ stack[Len(u) + 1] = t
            /\ DOMAIN stack = 1 .. (Len(u) + 1) /\ \A k \in 1 .. Len(u) : stack[k] = u[k]
        BY <4>1
      <4>3. t.element \in I /\ t.member \in I
        BY <4>1 DEF Waits, IsNew
      <4>4. \A k \in 1 .. Len(u) : u[k].element \in I /\ u[k].member \in I
        BY <4>1 DEF Settled, Waits
      <4>5. \A n \in Nat : \A k \in 1 .. (n + 1) : k = n + 1 \/ k \in 1 .. n
        OBVIOUS
      <4>6. \A k \in DOMAIN stack : stack[k].element \in I /\ stack[k].member \in I
        BY <4>2, <4>3, <4>4, <4>5
      <4>7. Len(stack) <= MaxDepth + 1
        BY <4>1, <4>2, SectionAssumption DEF MaxDepth
      <4> QED BY <4>6, <4>7 DEF I
    <3> QED BY <3>2, <3>3
  <2> QED BY <2>1, <2>2, <2>3, <2>4 DEF TypeOK, PathInv, ListInv, DumpInv
<1> QED BY <1>1, EntriesInvariant, PTL

\* No way out of MMDB_get_entry_data_list but a success leaves a pool, and
\* MMDB_free_entry_data_list leaves none.
THEOREM PoolNeverLeaks == Spec => []NothingLeaks
<1>1. IInv => NothingLeaks
  BY DEF IInv, OwnInv, NothingLeaks
<1> QED BY <1>1, EntriesInvariant, PTL

\* "Each array element needs at least 1 byte": without pointers, a list is no
\* longer than the bytes it is read from, but for one element.
THEOREM AllocationHasABound == Spec => []AllocationIsBounded
<1>1. IInv => AllocationIsBounded
  BY DEF IInv, BoundInv, NoPointers, Bound, AllocationIsBounded
<1> QED BY <1>1, EntriesInvariant, PTL

\* A list that MMDB_get_entry_data_list returns holds the values of the tree at its
\* root, each map and array before its members and every pointer replaced by what
\* it points to, and is linked in that order.
THEOREM ListsArePreorder == Spec => []ListIsPreorder
<1>1. IInv => ListIsPreorder
  BY DEF IInv, ReadInv, SaidInv, OwnInv, ListIsPreorder
<1> QED BY <1>1, EntriesInvariant, PTL

\* MMDB_get_entry_data_list succeeds only on a tree that is sound and no deeper
\* than the limit, and rejects as invalid only one that is not.
THEOREM ListsFailForCause == Spec => []ListFailsForCause
<1>1. IInv => ListFailsForCause
  BY DEF IInv, ReadInv, CauseInv, ListFailsForCause
<1> QED BY <1>1, EntriesInvariant, PTL

\* What a path lookup returns is what the path selects in the format: the first
\* equal key, an index counted from either end.  It says "does not match" only if
\* there is no such value, zeroing the caller's struct, and "invalid data" only of
\* a value that is not well formed.
THEOREM PathsFindTheValue == Spec => []PathFindsTheValue
<1>1. IInv => PathFindsTheValue
  <2> DEFINE o == asked.start
             p == asked.path
             v == Selected(o, p)
  <2> SUFFICES ASSUME IInv, lookup = "idle", KeysAreStrings(o, p),
                      result \notin {"none", "MMDB_OUT_OF_MEMORY_ERROR"}
               PROVE  PathFindsTheValue
    BY DEF PathFindsTheValue
  <2>1. Outcome(o, p, entry_data, result) /\ result \in Status
    BY DEF IInv, LostInv, OutcomeInv, PathInv
  <2> HIDE DEF o, p
  <2>2. /\ result = "MMDB_SUCCESS" => v # Missing /\ Describes(entry_data, v)
        /\ result = "MMDB_INVALID_DATA_ERROR" => ~Sound(o, 1, MaxDepth)
        /\ result \notin {"MMDB_SUCCESS", "MMDB_INVALID_DATA_ERROR"} =>
             v = Missing /\ entry_data = EmptyEntry
    BY <2>1 DEF Outcome, Status
  <2> HIDE DEF v
  <2>3. CASE result = "MMDB_SUCCESS"
    BY <2>2, <2>3 DEF PathFindsTheValue, Describes, v, o, p
  <2>4. CASE result = "MMDB_INVALID_DATA_ERROR"
    BY <2>2, <2>4 DEF PathFindsTheValue, v, o, p
  <2>5. CASE result \notin {"MMDB_SUCCESS", "MMDB_INVALID_DATA_ERROR"}
    BY <2>2, <2>5 DEF PathFindsTheValue, v, o, p
  <2> QED BY <2>3, <2>4, <2>5
<1> QED BY <1>1, EntriesInvariant, PTL

\* MMDB_dump_entry_data_list goes through the list from end to end, whatever the
\* section the list comes from.
THEOREM DumpGoesThroughTheList == Spec => []DumpFollowsList
<1>1. IInv => DumpFollowsList
  BY DumpIsComplete DEF IInv, DumpFollowsList
<1> QED BY <1>1, EntriesInvariant, PTL

===============================================================================
