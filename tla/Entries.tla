-------------------------------- MODULE Entries --------------------------------
(***************************************************************************)
(* Clients of one database: one looks values up by path, another turns     *)
(* entries into lists, dumps them and frees them, call after call.  Both   *)
(* only read the section and share nothing else, so that a behaviour has   *)
(* one of the two.  What they see is compared with the reference reading   *)
(* of the file format in Format.                                           *)
(***************************************************************************)
EXTENDS Format, Path, Dump

vars == <<section, beyond, pathVars, listVars, arenaVars, dumpVars>>

Init == /\ section \in Sections /\ beyond \in Beyond
        /\ PathInit /\ ListInit /\ DumpInit

CallPath == /\ stage = "idle" /\ list_status = "none"
            /\ \E o \in Starts, p \in Paths : MMDB_get_value(o, p)
            /\ UNCHANGED <<memoryVars, listVars, arenaVars, dumpVars>>

CallList == /\ lookup = "idle" /\ result = "none"
            /\ \E o \in Roots : MMDB_get_entry_data_list(o)
            /\ UNCHANGED <<memoryVars, pathVars, dumpVars>>

CallDump == /\ MMDB_dump_entry_data_list
            /\ UNCHANGED <<memoryVars, pathVars, listVars, arenaVars>>

CallFree == /\ dump = "idle"
            /\ MMDB_free_entry_data_list
            /\ UNCHANGED <<memoryVars, pathVars, dumpVars>>

Running == \/ PathStep /\ UNCHANGED <<memoryVars, listVars, arenaVars, dumpVars>>
           \/ ListStep /\ UNCHANGED <<memoryVars, pathVars, dumpVars>>
           \/ DumpStep /\ UNCHANGED <<memoryVars, pathVars, listVars, arenaVars>>

Next == CallPath \/ CallList \/ CallDump \/ CallFree \/ Running

\* A call runs to its end; nothing says that a client makes one.
Spec == Init /\ [][Next]_vars /\ WF_vars(Running)
-------------------------------------------------------------------------------
\* The value at v: its k-th member, from 0; a string's bytes; a map's keys.
Member(v, k) == Resolved(EndOf[<<NextAt(v), k>>])
StringAt(o) == [k \in 1 .. SizeAt(o) |-> mem(BodyStart(o) + k - 1)]
HasKey(v, k, s) ==
  \E key \in {Member(v, 2 * k)} : TypeAt(key) = UTF8_STRING /\ StringAt(key) = s

\* The members of the value at v that the path element s can mean.
InMap(v, s) == {2 * k + 1 : k \in {j \in 0 .. (SizeAt(v) - 1) : HasKey(v, j, s)}}
InArray(v, index) == {k \in 0 .. (SizeAt(v) - 1) :
                       /\ ~index.junk /\ ~index.erange
                       /\ \/ k = index.value
                          \/ index.value < 0 /\ k = index.value + SizeAt(v)}
Choice(v, s) == IF Invalid(v) THEN {} ELSE IF TypeAt(v) = MAP THEN InMap(v, s)
                ELSE IF TypeAt(v) = ARRAY THEN InArray(v, strtol(s)) ELSE {}

Missing == U32 + 1

Into(v, s) == IF Choice(v, s) = {} THEN Missing ELSE Member(v, Min(Choice(v, s)))

\* The values that the path p selects one after the other, from the one at o.
Selection(o, p) ==
  LET at[k \in 0 .. Len(p)] == IF k = 0 THEN Resolved(o) ELSE Into(at[k - 1], p[k])
  IN at

Selected(o, p) == Selection(o, p)[Len(p)]

\* The keys of all maps are strings, as far as a lookup of p at o can get.
KeysAreStrings(o, p) == OtherKeys[<<o, 1, MaxDepth + Len(p) + 1>>] = {}
-------------------------------------------------------------------------------
Status == {"none", "MMDB_SUCCESS", "MMDB_INVALID_DATA_ERROR", "MMDB_OUT_OF_MEMORY_ERROR",
           "MMDB_INVALID_LOOKUP_PATH_ERROR", "MMDB_LOOKUP_PATH_DOES_NOT_MATCH_DATA_ERROR"}

\* Type correctness, and the bound on both recursions: whatever the pointers of
\* the file, cycles included, neither get_entry_data_list nor skip_map_or_array
\* nests deeper than MAXIMUM_DATA_STRUCTURE_DEPTH calls that decode anything.
TypeOK ==
  /\ lookup \in {"idle", "path", "array", "map"}
  /\ left \in Nat /\ value \in EntryType /\ entry_data \in EntryType
  /\ Len(skips) <= MaxDepth
  /\ \A k \in DOMAIN skips : skips[k].left \in Nat
  /\ result \in Status
  /\ stage \in {"idle", "alloc", "decode", "destroy"}
  /\ DOMAIN data = Range(items) /\ \A e \in DOMAIN data : data[e] \in EntryType
  /\ Len(stack) <= MaxDepth + 1
  /\ \A k \in DOMAIN stack : {stack[k].element, stack[k].member} \subseteq Range(items)
  /\ list \in Element \cup {NULL} /\ list_status \in Status
  /\ dump \in {"idle", "value", "loop"} /\ current \in Element \cup {NULL}
  /\ dump_status \in Status

\* MMDB_get_entry_data_list makes the list the format prescribes: every value
\* once for every place it is reached from, in the order of the file, pointers
\* replaced by their targets, and each knows where in the file it ends.
ListIsPreorder ==
  stage = "idle" /\ list # NULL =>
    /\ [k \in DOMAIN items |-> [offset |-> data[items[k]].offset,
                                type |-> data[items[k]].type,
                                offset_to_next |-> data[items[k]].offset_to_next]]
         = Preorder[<<root, 1, MaxDepth>>]
    /\ list = items[1] /\ links = ListOf(items)

\* It succeeds exactly on what can be read within the depth limit, memory
\* permitting: the check of the number of members against the bytes that are
\* left refuses nothing that is well formed.
ListFailsForCause ==
  stage = "idle" =>
    /\ list_status = "MMDB_SUCCESS" => Sound(root, 1, MaxDepth)
    /\ list_status = "MMDB_INVALID_DATA_ERROR" => ~Sound(root, 1, MaxDepth)

\* Of every way out of MMDB_get_entry_data_list only a success leaves a pool,
\* and the caller then has its list; MMDB_free_entry_data_list leaves none, and
\* a dump only looks at a list that is still there.
NothingLeaks ==
  /\ stage = "idle" => (open <=> list # NULL)
  /\ open => stage # "idle" \/ list_status = "MMDB_SUCCESS"
  /\ ~open => items = << >> /\ dump = "idle"

\* "Each array element needs at least 1 byte": without pointers, no claim of a
\* size by the file makes the list longer than the bytes it is read from, but for
\* one element, which is allocated before decode_one finds that the section has
\* come to its end.
AllocationIsBounded ==
  (\A k \in DOMAIN section : section[k] \div 32 # POINTER) =>
    Len(items) <= 1 + (IF root < data_section_size THEN data_section_size - root ELSE 0)

\* What a path lookup returns is what the path selects in the format: the first
\* equal key, an index counted from either end, whatever lies in between.  It
\* says "does not match" only if there is no such value, zeroing the caller's
\* struct, and "invalid data" only of a value that is not well formed.
PathFindsTheValue ==
  lookup = "idle" /\ result \notin {"none", "MMDB_OUT_OF_MEMORY_ERROR"}
    /\ KeysAreStrings(asked.start, asked.path) =>
    LET v == Selected(asked.start, asked.path)
    IN CASE result = "MMDB_SUCCESS" ->
              /\ v # Missing
              /\ entry_data.offset = v /\ entry_data.type = TypeAt(v)
              /\ entry_data.type \in Compound \cup {UTF8_STRING, BYTES} =>
                   entry_data.data_size = SizeAt(v)
              /\ entry_data.type \in {UTF8_STRING, BYTES} => entry_data.bytes = BodyStart(v)
         [] result = "MMDB_INVALID_DATA_ERROR" -> ~Sound(asked.start, 1, MaxDepth)
         [] OTHER -> v = Missing /\ entry_data = EmptyEntry

\* A dump goes through the list from end to end, each element once, although it
\* trusts the sizes alone for the nesting: it never takes NULL for a value
\* (dump_entry_data_list does not look), no loop stops for want of elements, and
\* none is left over.
DumpFollowsList ==
  dump # "idle" =>
    /\ dumped = SubSeq(items, 1, Len(dumped))
    /\ current = IF Len(dumped) < Len(items) THEN items[Len(dumped) + 1] ELSE NULL
    /\ dump = "value" => current # NULL
    /\ dump = "loop" /\ current = NULL => \A k \in DOMAIN nest : nest[k].left = 0
    /\ dump = "loop" /\ nest = << >> => current = NULL

\* Every call ends: pointers that form cycles, sizes the file does not back up
\* and failing allocations included.
EveryCallReturns ==
  /\ lookup # "idle" ~> lookup = "idle"
  /\ stage # "idle" ~> stage = "idle"
  /\ dump # "idle" ~> dump = "idle"

===============================================================================
