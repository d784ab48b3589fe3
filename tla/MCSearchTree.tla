----------------------------- MODULE MCSearchTree -----------------------------
(* Small trees whose records are taken from the ranges a record can lie in.   *)
EXTENDS SearchTree

\* The nodes (the root first), the empty record, one record in the separator,
\* the last byte of the data section, and one past it.
MCRecordValues(n) ==
  0 .. n \cup {n + 1, n + MMDB_DATA_SECTION_SEPARATOR + DataSize - 1,
               n + MMDB_DATA_SECTION_SEPARATOR + DataSize}

\* For two threads, the ranges an undamaged tree uses, and the root (a cycle).
MCFewRecordValues(n) ==
  0 .. n \cup {n + MMDB_DATA_SECTION_SEPARATOR}

===============================================================================
