----------------------------- MODULE MCOpenClose -----------------------------
(* Files around every limit of the layout checks, with up to two languages   *)
(* and two descriptions, opened twice.                                       *)
EXTENDS OpenClose

\* Negative, empty, shorter than the separator; tree and separator (10 bytes)
\* with 0, 2, 3, and with more than UINT32_MAX (7) bytes of data; too large.
\* (Eight nodes of 6 bytes are 48 bytes, which wrap around to 6.)
MCFileSizes == {-1, 0, 1, 10, 12, 13, 18, 21}

===============================================================================
