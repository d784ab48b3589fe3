--------------------------- MODULE MCFileBytes ----------------------------
(* Files of up to seven bytes searched for a marker of two, in the last    *)
(* five; every node of 24 and 28 bit records, the border cases of 32 bit   *)
(* ones; numbers of up to eight bytes.                                     *)
EXTENDS FileBytes

MCMarker == <<1, 2>>

MCContents == UNION {[1 .. n -> 0 .. 2] : n \in 0 .. 7}

Borders(top, size) == {v \in 0 .. top - 1 : v % size \in {0, 1, size - 1}}

MCRecords ==
    [len \in RecordLengths |->
        IF len = 6 THEN 0 .. Weight[3] - 1
        ELSE IF len = 7 THEN 0 .. Weight[3] * Nibble - 1
        ELSE Borders(Weight[4], Weight[2])]

MCNumbers == [len \in 0 .. 8 |-> Borders(Weight[len], IF len < 5 THEN 1 ELSE Weight[3])]

=============================================================================
