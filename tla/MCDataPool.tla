------------------------------ MODULE MCDataPool ------------------------------
(* An instance of DataPool small enough to grow to the limit of each kind:   *)
(* out of blocks (sizes 1 and 2), and out of size_t (size 3).                *)
EXTENDS DataPool

CONSTANTS b1, b2, b3, b4

MCBlock == {b1, b2, b3, b4}
MCInitSizes == {0, 1, 2, 3, 12}

===============================================================================
