--------------------------------- MODULE Dump ---------------------------------
(***************************************************************************)
(* MMDB_dump_entry_data_list (src/maxminddb.c): the list that EntryList    *)
(* made is printed, its nesting recovered from the sizes of the maps and   *)
(* arrays alone.  What is printed is left out, which elements are printed  *)
(* is `dumped'.                                                            *)
(***************************************************************************)
EXTENDS EntryList

VARIABLES dump,         \* "idle", "value" or "loop"
          current,      \* the parameter entry_data_list, where the dump is
          nest,         \* the loops of the maps and arrays around it
          dumped,       \* the elements printed
          dump_status   \* the status returned last

dumpVars == <<dump, current, nest, dumped, dump_status>>

UINT128 == 10
Printable == {UTF8_STRING, DOUBLE, BYTES, BOOLEAN_TYPE, FLOAT} \cup DOMAIN MaxBytes

\* Types printed by way of a string that is allocated (a UINT128 in builds
\* where it is an array of bytes).
Copied == {UTF8_STRING, BYTES, UINT128}

\* e->next
next(e) == IF \E p \in links : p[1] = e
           THEN (CHOOSE p \in links : p[1] = e)[2] ELSE NULL

Inner == nest[Len(nest)]
Counted == [nest EXCEPT ![Len(nest)].left = @ - 1]

DumpInit == /\ dump = "idle" /\ current = NULL /\ nest = << >>
            /\ dumped = << >> /\ dump_status = "none"

DumpReturns(status) ==
  /\ dump' = "idle" /\ dump_status' = status
  /\ current' = NULL /\ nest' = << >>

\* The innermost loop has a member to go and an element to take for it.
Looping == dump = "loop" /\ nest # << >> /\ Inner.left > 0 /\ current # NULL

MMDB_dump_entry_data_list ==
  /\ dump = "idle" /\ stage = "idle" /\ list # NULL
  /\ dump' = "value" /\ current' = list
  /\ nest' = << >> /\ dumped' = << >> /\ dump_status' = "none"

\* The element is printed and the dump goes on with the next one.
Printed == dumped' = Append(dumped, current) /\ current' = next(current)

\* Mutant: the loop runs once too often.
DumpCompoundOnceMore ==
  LET e == data[current]
  IN /\ dump = "value" /\ e.type \in Compound
     /\ nest' = Append(nest, [left |-> e.data_size + 1, map |-> e.type = MAP])
     /\ dump' = "loop"
     /\ Printed
     /\ UNCHANGED dump_status

DumpCompound ==
  LET e == data[current]
  IN /\ dump = "value" /\ e.type \in Compound
     /\ nest' = Append(nest, [left |-> e.data_size, map |-> e.type = MAP])
     /\ dump' = "loop"
     /\ Printed
     /\ UNCHANGED dump_status

DumpSimple ==
  /\ dump = "value" /\ data[current].type \in Printable
  /\ dump' = "loop"
  /\ Printed
  /\ UNCHANGED <<nest, dump_status>>

DumpUnknown ==
  /\ dump = "value" /\ data[current].type \notin Printable \cup Compound
  /\ DumpReturns("MMDB_INVALID_DATA_ERROR")
  /\ UNCHANGED dumped

\* One round of the loop of an array, or of a map: its key, and then its value.
DumpElement ==
  /\ Looping /\ ~Inner.map
  /\ nest' = Counted /\ dump' = "value"
  /\ UNCHANGED <<current, dumped, dump_status>>

DumpKey ==
  /\ Looping /\ Inner.map
  /\ data[current].type = UTF8_STRING
  /\ nest' = Counted /\ dump' = "value"
  /\ Printed
  /\ UNCHANGED dump_status

DumpKeyIsNoString ==
  /\ Looping /\ Inner.map
  /\ data[current].type # UTF8_STRING
  /\ DumpReturns("MMDB_INVALID_DATA_ERROR")
  /\ UNCHANGED dumped

\* mmdb_strndup or bytes_to_hex fails, for a value or for a key.
DumpOutOfMemory ==
  /\ \/ dump = "value" /\ data[current].type \in Copied
     \/ Looping /\ Inner.map /\ data[current].type = UTF8_STRING
  /\ DumpReturns("MMDB_OUT_OF_MEMORY_ERROR")
  /\ UNCHANGED dumped

DumpLoopEnds ==
  /\ dump = "loop" /\ nest # << >>
  /\ Inner.left = 0 \/ current = NULL
  /\ nest' = Front(nest)
  /\ UNCHANGED <<dump, current, dumped, dump_status>>

DumpEnds ==
  /\ dump = "loop" /\ nest = << >>
  /\ DumpReturns("MMDB_SUCCESS")
  /\ UNCHANGED dumped

DumpStep == \/ DumpCompound \/ DumpSimple \/ DumpUnknown \/ DumpElement \/ DumpKey
            \/ DumpKeyIsNoString \/ DumpOutOfMemory \/ DumpLoopEnds \/ DumpEnds

===============================================================================
