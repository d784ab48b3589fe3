------------------------------ MODULE EntryArena ------------------------------
(***************************************************************************)
(* What a pool of list elements promises its client, and nothing about how *)
(* it keeps the promise: every element it hands out is new, handing out    *)
(* may fail without consequence, and linking makes the elements handed out *)
(* so far one list in the order in which they were handed out.  DataPool   *)
(* (data-pool.c) is shown to implement this specification.                 *)
(***************************************************************************)
EXTENDS Naturals, Sequences

CONSTANTS Element,      \* the addresses an element can have
          NULL          \* the null pointer

VARIABLES open,         \* the arena exists
          items,        \* the elements handed out, in order
          links,        \* the pairs <<e, f>> such that e's next field is f
          answer        \* what the last call returned: an element or NULL

arenaVars == <<open, items, links, answer>>

\* The list that holds the elements of s in order, as its next fields.
ListOf(s) == {<<s[k], s[k + 1]>> : k \in 1 .. (Len(s) - 1)}

ArenaInit == /\ open = FALSE
             /\ items = << >>
             /\ links = {}
             /\ answer = NULL

\* Creating the arena may fail; then there is none.
Create == /\ ~open
          /\ open' \in BOOLEAN
          /\ answer' = NULL
          /\ UNCHANGED <<items, links>>

\* A new element: one that is not in use, and that no list reaches.
HandOut == /\ open
           /\ answer' \in Element
           /\ \A k \in 1 .. Len(items) : items[k] # answer'
           /\ items' = Append(items, answer')
           /\ UNCHANGED <<open, links>>

\* No element to be had: the caller is told so and nothing else changes.
Refuse == /\ answer' = NULL
          /\ UNCHANGED <<open, items, links>>

\* The list of everything handed out so far; its head is the first element.
Link == /\ open
        /\ items # << >>
        /\ links' = ListOf(items)
        /\ answer' = items[1]
        /\ UNCHANGED <<open, items>>

Discard == /\ open
           /\ open' = FALSE
           /\ items' = << >>
           /\ links' = {}
           /\ answer' = NULL

ArenaNext == Create \/ HandOut \/ Refuse \/ Link \/ Discard

ArenaSpec == ArenaInit /\ [][ArenaNext]_arenaVars

===============================================================================
