------------------------------- MODULE EntryList -------------------------------
(***************************************************************************)
(* MMDB_get_entry_data_list (src/maxminddb.c): a value and everything in   *)
(* it, pointers followed, as one list.  Its elements come from a pool, of  *)
(* which only the promise is used here: EntryArena, which DataPool is      *)
(* shown to implement.                                                     *)
(*                                                                         *)
(* get_entry_data_list's recursion is `stack', one frame per call.  A      *)
(* frame that is not new waits for its members or for its pointer's        *)
(* target.  The keys and the values of a map are treated alike in the      *)
(* code, so that a map of n entries is 2n members.                         *)
(***************************************************************************)
EXTENDS Decoding, EntryArena, SequencesExt

CONSTANT Roots          \* offsets of entries: MMDB_entry_s.offset

ASSUME ListAssumption == Roots \subseteq Nat /\ NULL \notin Element

VARIABLES stage,        \* "idle", "alloc", "decode", "destroy"
          stack,        \* the recursion, innermost call last
          data,         \* the entry_data of every element of the pool
          root,         \* the offset asked for
          list,         \* the caller's *entry_data_list
          list_status   \* the status returned last

listVars == <<stage, stack, data, root, list, list_status>>

\* A call of get_entry_data_list(offset, e), and what it waits for.
Frame(o, e) == [at |-> "new", offset |-> o, element |-> e, left |-> 0, member |-> e]

Top == stack[Len(stack)]
depth == Len(stack) - 1
Replaced(f) == [stack EXCEPT ![Len(stack)] = f]

ListInit ==
  /\ ArenaInit
  /\ stage = "idle" /\ stack = << >> /\ data = << >> /\ root = 0
  /\ list = NULL /\ list_status = "none"
-------------------------------------------------------------------------------
\* The call starts: *entry_data_list is NULL, and there is a pool or no memory.
\* MMDB_get_metadata_as_entry_data_list is this call with offset 0, the section
\* being the metadata.
MMDB_get_entry_data_list(o) ==
  /\ stage = "idle" /\ list = NULL
  /\ Create
  /\ root' = o
  /\ list' = NULL
  /\ IF open' THEN stage' = "alloc" /\ list_status' = "none"
     ELSE stage' = "idle" /\ list_status' = "MMDB_OUT_OF_MEMORY_ERROR"
  /\ UNCHANGED <<stack, data>>

\* data_pool_alloc for the value at o succeeds, and get_entry_data_list is
\* called.  (Free elements are alike: which one it is does not matter.)
Alloc(frames, o) ==
  /\ HandOut
  /\ answer' = CHOOSE e \in Element : \A k \in DOMAIN items : items[k] # e
  /\ data' = [e \in DOMAIN data \cup {answer'} |->
                IF e = answer' THEN EmptyEntry ELSE data[e]]
  /\ stack' = Append(frames, Frame(o, answer'))
  /\ stage' = "decode"
  /\ UNCHANGED <<root, list, list_status>>

\* An error: every call on the stack returns it, and the pool will be destroyed.
Abort(status) ==
  /\ stage' = "destroy" /\ list_status' = status /\ stack' = << >>
  /\ UNCHANGED <<data, root, list>>

AllocFails == Refuse /\ Abort("MMDB_OUT_OF_MEMORY_ERROR")

\* The element for the value itself.
FirstElement ==
  /\ stage = "alloc"
  /\ Alloc(<< >>, root) \/ AllocFails
-------------------------------------------------------------------------------
\* The members of the compound value e: their number, and the check that each
\* has a byte of the section to itself.
Members(e) == IF e.type = MAP THEN 2 * e.data_size ELSE e.data_size

\* Mutant: it asks for a byte too many.
NoRoomOffByOne(e) ==
  e.data_size >= (data_section_size - e.offset_to_next)
                   \div (IF e.type = MAP THEN 2 ELSE 1)

NoRoom(e) ==
  \/ e.offset_to_next > data_section_size
  \/ e.data_size > (data_section_size - e.offset_to_next)
                     \div (IF e.type = MAP THEN 2 ELSE 1)

\* A call of get_entry_data_list that has just been made.
New == stage = "decode" /\ stack # << >> /\ Top.at = "new"

\* What it decodes at its offset, and at the pointer it finds there.
First == Decoded(data[Top.element], Top.offset)
Second == Decoded(First, First.pointer)

\* Mutant: nothing bounds the recursion.
RejectedUnbounded ==
  \/ Invalid(Top.offset)
  \/ First.type = POINTER /\ (Invalid(First.pointer) \/ Second.type = POINTER)
  \/ First.type \in Compound /\ NoRoom(First)

\* It is too deep, there is no value at its offset, the value is a pointer to
\* none or to another pointer, or it has more members than there is room for.
Rejected ==
  \/ depth >= MAXIMUM_DATA_STRUCTURE_DEPTH
  \/ Invalid(Top.offset)
  \/ First.type = POINTER /\ (Invalid(First.pointer) \/ Second.type = POINTER)
  \/ First.type \in Compound /\ NoRoom(First)

\* The element's entry data becomes e, and the calls on the stack s.
Step(e, s) ==
  /\ data' = [data EXCEPT ![Top.element] = e]
  /\ stack' = s
  /\ UNCHANGED <<stage, root, list, list_status>>
  /\ UNCHANGED arenaVars

RejectValue ==
  /\ New /\ Rejected
  /\ Abort("MMDB_INVALID_DATA_ERROR")
  /\ UNCHANGED arenaVars

SimpleValue ==
  /\ New /\ ~Rejected
  /\ First.type \notin Compound \cup {POINTER}
  /\ Step(First, Front(stack))

CompoundValue ==
  /\ New /\ ~Rejected
  /\ First.type \in Compound
  /\ Step(First, Replaced([Top EXCEPT !.at = "members", !.left = Members(First)]))

\* Mutant: the value after a pointer is taken to be the one after its target.
PointerToSimpleForgetsNext ==
  /\ New /\ ~Rejected
  /\ First.type = POINTER /\ Second.type \notin Compound
  /\ Step(Second, Front(stack))

PointerToSimple ==
  /\ New /\ ~Rejected
  /\ First.type = POINTER /\ Second.type \notin Compound
  /\ Step([Second EXCEPT !.offset_to_next = First.offset_to_next], Front(stack))

\* The target's call uses the same element; this one keeps next_offset.
PointerToCompound ==
  /\ New /\ ~Rejected
  /\ First.type = POINTER /\ Second.type \in Compound
  /\ Step(Second, Append(Replaced([Top EXCEPT !.at = "pointer",
                                              !.offset = First.offset_to_next]),
                         Frame(First.pointer, Top.element)))

PointerReturns ==
  /\ stage = "decode" /\ stack # << >> /\ Top.at = "pointer"
  /\ Step([data[Top.element] EXCEPT !.offset_to_next = Top.offset], Front(stack))

\* Where the next member is: after the last one, or after the head.
Cursor == data[Top.member].offset_to_next

\* Mutant: every member is read where the first one is.
NextMemberInPlace ==
  /\ stage = "decode" /\ stack # << >> /\ Top.at = "members" /\ Top.left > 0
  /\ \/ Alloc(Replaced([Top EXCEPT !.left = @ - 1]), Cursor)
     \/ AllocFails

NextMember ==
  /\ stage = "decode" /\ stack # << >> /\ Top.at = "members" /\ Top.left > 0
  /\ \/ Alloc(Replaced([Top EXCEPT !.left = @ - 1, !.member = answer']), Cursor)
     \/ AllocFails

MembersReturn ==
  /\ stage = "decode" /\ stack # << >> /\ Top.at = "members" /\ Top.left = 0
  /\ Step([data[Top.element] EXCEPT !.offset_to_next = Cursor], Front(stack))
-------------------------------------------------------------------------------
\* The recursion has returned MMDB_SUCCESS: data_pool_to_list.
Finish ==
  /\ stage = "decode" /\ stack = << >>
  /\ Link
  /\ list' = answer'
  /\ stage' = "idle" /\ list_status' = "MMDB_SUCCESS"
  /\ UNCHANGED <<stack, data, root>>

\* Mutant: the pool is left alone when decoding fails.
GiveUpKeepingPool ==
  /\ stage = "destroy"
  /\ stage' = "idle"
  /\ UNCHANGED <<stack, data, root, list, list_status>>
  /\ UNCHANGED arenaVars

\* It has not: data_pool_destroy.
GiveUp ==
  /\ stage = "destroy"
  /\ Discard
  /\ stage' = "idle" /\ data' = << >>
  /\ UNCHANGED <<stack, root, list, list_status>>

\* (On a NULL list it does nothing.)
MMDB_free_entry_data_list ==
  /\ stage = "idle" /\ list # NULL
  /\ Discard
  /\ list' = NULL /\ data' = << >>
  /\ UNCHANGED <<stage, stack, root, list_status>>

ListStep == \/ FirstElement \/ RejectValue \/ SimpleValue \/ CompoundValue
            \/ PointerToSimple \/ PointerToCompound \/ PointerReturns
            \/ NextMember \/ MembersReturn \/ Finish \/ GiveUp

===============================================================================
