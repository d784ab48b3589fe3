------------------------------ MODULE MCDecoder ------------------------------
(* Short sections whose bytes are control bytes of every kind.               *)
EXTENDS Decoder

\* Extended with sizes 0, 1 and 29; pointers of 1, 3 and 4 bytes; strings of 0,
\* 2 and 31 (escape); a uint16; maps of 1 and of an escaped size.  The small
\* ones are also extended types: 1 is an int32, 4 an array, 7 a boolean.
MCBytes == {0, 1, 4, 7, 29, 32, 48, 56, 64, 66, 95, 162, 225, 254}

\* TLC's integers have 32 bits: no 4-byte pointer to a huge offset.
Representable(s) ==
  \A i \in 1 .. (Len(s) - 1) : s[i] = 56 => s[i + 1] < 64

\* A 4-byte pointer to anything, and a 1-byte one; a float, a double, and both
\* a byte short.
MCLongSections ==
  {<<56, 0, 0, 0, x, y>> : x \in {0, 5, 6}, y \in MCBytes}
    \cup {<<48, 0, 0, y, 32, 0>> : y \in MCBytes}
    \cup {<<4, 8, 0, 0, 0, 0>>, <<4, 8, 0, 0, 0>>}
    \cup {<<104, 0, 0, 0, 0, 0, 0, 0, 0>>, <<104, 0, 0, 0, 0, 0, 0, 0>>}

MCSections ==
  {s \in [1 .. 3 -> MCBytes] : Representable(s)} \cup MCLongSections

\* As short as the metadata section may be.
MCShortSections == UNION {[1 .. k -> {64, 95, 225, 254}] : k \in 1 .. 2}

===============================================================================
