------------------------------- MODULE MCEntries -------------------------------
(* Short sections made of whole values and of values cut off.                *)
EXTENDS Entries

\* A map of one and of two entries, an array of two, the strings "a" and "b", a
\* number, pointers to the first value and to a later one.
Tokens == {<<225>>, <<226>>, <<2, 4>>, <<65, 97>>, <<65, 98>>, <<160>>,
           <<32, 0>>, <<32, 3>>}

Composed == {FlattenSeq(t) : t \in [1 .. 3 -> Tokens]}

\* Deeper and longer ones: an array in a map in an array, a map behind a
\* pointer, a map that holds itself, a map whose key is a map, an array whose
\* first element points nowhere, an unknown type, bytes, and sizes the section
\* does not back up.
Special ==
  {<<2, 4, 225, 65, 97, 2, 4, 160, 160, 65, 98>>,
   <<226, 65, 97, 32, 7, 65, 98, 225, 65, 98, 65, 97>>,
   <<226, 65, 98, 226, 65, 97, 160, 65, 98, 160, 65, 97, 65, 97>>,
   <<225, 65, 97, 32, 0>>,
   <<225, 225, 65, 97, 160, 160>>, <<225, 225, 160, 160>>,
   <<225, 65, 97, 1, 6, 0>>,
   <<2, 4, 130, 0, 0, 0, 3>>,
   <<1, 4, 1, 4, 1, 4, 1, 4, 160>>,
   <<225, 65, 97, 225, 65, 97, 225, 65, 97, 225>>,
   <<2, 4, 32, 6, 32, 6, 2, 4, 160, 160>>,
   <<3, 4, 32, 99, 225, 65, 97, 160, 65, 98>>, <<2, 4, 225, 225, 65, 97, 160, 160, 160>>,
   <<253, 255, 0, 0>>, <<29, 4, 200, 160>>, <<160, 160, 225>>, <<160, 0, 0, 29>>}

MCSections == {s \in Composed : Len(s) >= 3} \cup Special

\* Nothing; a; a/a/a; b; b/a; -1; -1/a; -2/a/1; an empty element, which is index 0
\* of an array; 1a; -3; and a number that is out of range.
a == <<97>>
b == <<98>>
MCPaths == {<< >>, <<a>>, <<a, a, a>>, <<b>>, <<b, a>>, <<<<45, 49>>>>, <<<<45, 49>>, a>>,
            <<<<45, 50>>, a, <<49>>>>, <<<<>>>>, <<<<49, 97>>>>, <<<<45, 51>>>>,
            <<<<57, 57, 57>>>>}

MCUninitialised == [offset |-> 77, type |-> 77, pointer |-> 77, bytes |-> 77,
                    data_size |-> 77, offset_to_next |-> 77]
===============================================================================
