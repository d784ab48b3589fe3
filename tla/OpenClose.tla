------------------------------ MODULE OpenClose ------------------------------
(***************************************************************************)
(* The life of a handle (src/maxminddb.c): MMDB_open with every call it    *)
(* makes that can fail, the cleanup after a failure, and MMDB_close.       *)
(*                                                                         *)
(* Memory, the mapping and the file descriptor are objects, pairs of a     *)
(* kind and a number; `heap' holds the ones that exist, `field' the ones   *)
(* the handle, or an array it owns, has a pointer to that is not NULL.     *)
(* What the file's metadata says, and which calls fail, is open.           *)
(***************************************************************************)
EXTENDS Integers, FiniteSets

CONSTANTS FileSizes, NodeCounts, RecordBytes,   \* what a file may claim to be
          MaxLanguages, MaxDescriptions,        \* bounds on its metadata
          MMDB_DATA_SECTION_SEPARATOR,          \* 16
          SSIZE_MAX, UINT32_MAX,
          MaxOpens                              \* bound on MMDB_open calls

ASSUME OpenAssumption ==
  /\ FileSizes \subseteq Int /\ NodeCounts \subseteq Nat
  /\ RecordBytes \subseteq Nat \ {0}
  /\ MaxLanguages \in Nat /\ MaxDescriptions \in Nat /\ MaxOpens \in Nat
  /\ MMDB_DATA_SECTION_SEPARATOR \in Nat
  /\ SSIZE_MAX \in Nat /\ UINT32_MAX \in Nat

VARIABLES phase,      \* of the handle, as its owner sees it
          at,         \* inside MMDB_open: what it does next
          status,     \* inside MMDB_open, and what it returned
          errno,      \* the call that set errno last
          saved_errno,                  \* the cleanups' local variable
          heap, field, lost,            \* objects; lost: no pointer is left
          st_size,                      \* what fstat said
          file_size, meta,              \* fields: the file and its metadata
          language_count, description_count,      \* metadata.*.count
          size, i,                      \* of the list being copied
          data_section_size, opens

vars == <<phase, at, status, errno, saved_errno, heap, field, lost, st_size, file_size, meta,
          language_count, description_count, size, i, data_section_size, opens>>

\* The variables only some of the steps of MMDB_open change.
file == <<st_size, file_size, meta, data_section_size>>
metadata == <<st_size, meta>>
counts == <<language_count, description_count>>
loop == <<size, i>>

Kinds == {"filename", "mapping", "fd", "list", "database_type", "names", "name",
          "descriptions", "description", "language", "text"}

Obj(kind) == <<kind, 0>>

\* The parts of description n.
Description(n) == {<<"description", n>>, <<"language", n>>, <<"text", n>>}
Names(n) == {<<"name", k>> : k \in 0 .. (n - 1)}
-------------------------------------------------------------------------------
\* Mutant of free_mmdb_struct's set: the language array's strings are forgotten.
FreedForgettingNames ==
  (field \cap {Obj("filename"), Obj("mapping"), Obj("database_type"), Obj("names")})
    \cup (IF description_count = 0 THEN {}
          ELSE field \cap ({Obj("descriptions")} \cup
                 UNION {Description(n) : n \in 0 .. (description_count - 1)}))

\* What free_mmdb_struct frees or unmaps: each pointer that is not NULL, the
\* languages up to their count if there is an array, and the descriptions up
\* to theirs if it is not zero.
Freed ==
  (field \cap {Obj("filename"), Obj("mapping"), Obj("database_type"), Obj("names")})
    \cup (IF Obj("names") \in field THEN Names(language_count) ELSE {})
    \cup (IF description_count = 0 THEN {}
          ELSE field \cap ({Obj("descriptions")} \cup
                 UNION {Description(n) : n \in 0 .. (description_count - 1)}))

\* Mutant: a pointer to the language array survives.
FreeStructKeepingNames ==
  /\ heap' = heap \ Freed
  /\ field' = field \ (Freed \ {Obj("names")})
  /\ language_count' = IF Obj("names") \in field THEN 0 ELSE language_count
  /\ description_count' = 0
  /\ file_size' = IF Obj("mapping") \in field THEN 0 ELSE file_size
  /\ data_section_size' = IF Obj("mapping") \in field THEN 0 ELSE data_section_size

free_mmdb_struct ==
  /\ heap' = heap \ Freed
  /\ field' = field \ Freed
  /\ language_count' = IF Obj("names") \in field THEN 0 ELSE language_count
  /\ description_count' = 0
  /\ file_size' = IF Obj("mapping") \in field THEN 0 ELSE file_size
  /\ data_section_size' = IF Obj("mapping") \in field THEN 0 ELSE data_section_size

Init ==
  /\ phase = "new" /\ at = "idle" /\ status = "MMDB_SUCCESS" /\ errno = "none"
  /\ saved_errno = "none" /\ heap = {} /\ field = {} /\ lost = {}
  /\ st_size = 0 /\ file_size = 0
  /\ meta = [node_count |-> 0, record_bytes |-> 0, ip_version |-> 0, major |-> 0]
  /\ language_count = 0 /\ description_count = 0
  /\ size = 0 /\ i = 0 /\ data_section_size = 0 /\ opens = 0
-------------------------------------------------------------------------------
\* Step p of MMDB_open fails with status s and errno e, and continues at q.
Fails(p, s, e, q) ==
  /\ at = p
  /\ status' = s
  /\ errno' = e
  /\ at' = q
  /\ UNCHANGED <<phase, saved_errno, lost, opens>>

\* Step p of MMDB_open succeeds, and continues at q.
Succeeds(p, q) ==
  /\ at = p
  /\ at' = q
  /\ UNCHANGED <<phase, status, errno, saved_errno, lost, opens>>

\* A call returns a new object, and the handle a pointer to it.
Alloc(o) == heap' = heap \cup {o} /\ field' = field \cup {o}

\* MMDB_open on a handle that is not open: its pointers are overwritten, all
\* but description.descriptions, and the file name is copied.
MMDB_open ==
  /\ phase \in {"new", "failed", "closed"} /\ opens < MaxOpens
  /\ phase' = "opening"
  /\ lost' = lost \cup (heap \ {Obj("descriptions")})
  /\ language_count' = 0 /\ description_count' = 0
  /\ opens' = opens + 1
  /\ \/ /\ heap' = {Obj("filename")} \cup (heap \cap {Obj("descriptions")})
        /\ field' = {Obj("filename")} \cup (field \cap {Obj("descriptions")})
        /\ at' = "open_fd" /\ status' = "MMDB_SUCCESS" /\ errno' = "none"
     \/ /\ heap' = heap \cap {Obj("descriptions")}
        /\ field' = field \cap {Obj("descriptions")}
        /\ at' = "cleanup" /\ status' = "MMDB_OUT_OF_MEMORY_ERROR" /\ errno' = "ENOMEM"
  /\ UNCHANGED <<saved_errno, file, loop>>

\* map_file: open, fstat, mmap, and close on every way out.
OpenFdFails ==
  /\ Fails("open_fd", "MMDB_FILE_OPEN_ERROR", "open", "cleanup")
  /\ UNCHANGED <<heap, field, file, counts, loop>>

OpenFd ==
  /\ Succeeds("open_fd", "fstat")
  /\ heap' = heap \cup {Obj("fd")}
  /\ UNCHANGED <<field, file, counts, loop>>

FstatFails ==
  /\ Fails("fstat", "MMDB_FILE_OPEN_ERROR", "fstat", "close_fd")
  /\ UNCHANGED <<heap, field, file, counts, loop>>

FstatSize(n) ==
  /\ IF n < 0 \/ n > SSIZE_MAX
     THEN Fails("fstat", "MMDB_OUT_OF_MEMORY_ERROR", errno, "close_fd")
     ELSE Succeeds("fstat", "mmap")
  /\ st_size' = n
  /\ UNCHANGED <<heap, field, file_size, meta, data_section_size, counts, loop>>

\* mmap fails for an empty file, and may fail for any other.
MmapFails ==
  /\ \E s \in {"MMDB_OUT_OF_MEMORY_ERROR", "MMDB_IO_ERROR"} :
       Fails("mmap", s, "mmap", "close_fd")
  /\ UNCHANGED <<heap, field, file, counts, loop>>

Mmap ==
  /\ Succeeds("mmap", "close_fd")
  /\ st_size > 0
  /\ Alloc(Obj("mapping"))
  /\ file_size' = st_size
  /\ UNCHANGED <<metadata, data_section_size, counts, loop>>

\* Mutant: errno is saved when the file is closed already.
CloseFdSavingLate ==
  /\ at = "close_fd"
  /\ heap' = heap \ {Obj("fd")}
  /\ errno' \in {errno, "close"} /\ saved_errno' = errno'
  /\ at' = "restore_errno"
  /\ UNCHANGED <<phase, status, field, lost, file, counts, loop, opens>>

\* close may set errno, which was saved before; then it is put back.
CloseFd ==
  /\ at = "close_fd"
  /\ heap' = heap \ {Obj("fd")}
  /\ saved_errno' = errno /\ errno' \in {errno, "close"}
  /\ at' = "restore_errno"
  /\ UNCHANGED <<phase, status, field, lost, file, counts, loop, opens>>

RestoreErrno ==
  /\ at = "restore_errno"
  /\ errno' = saved_errno
  /\ at' = IF status = "MMDB_SUCCESS" THEN "find_metadata" ELSE "cleanup"
  /\ UNCHANGED <<phase, status, saved_errno, heap, field, lost, file, counts, loop, opens>>
-------------------------------------------------------------------------------
\* Statuses of a metadata value that is missing, cannot be decoded, or has the
\* wrong type or an impossible value.
ValueErrors ==
  {"MMDB_INVALID_METADATA_ERROR", "MMDB_INVALID_DATA_ERROR",
   "MMDB_LOOKUP_PATH_DOES_NOT_MATCH_DATA_ERROR"}

ReadFails(p, s) ==
  /\ Fails(p, s, errno, "cleanup")
  /\ UNCHANGED <<heap, field, file, counts, loop>>

FindMetadata ==
  /\ Succeeds("find_metadata", "sizes")
  /\ UNCHANGED <<heap, field, file, counts, loop>>

\* node_count (not zero), record_size (24, 28 or 32) and ip_version (4 or 6).
ReadSizes(n, b, v) ==
  /\ Succeeds("sizes", "database_type")
  /\ n # 0
  /\ meta' = [meta EXCEPT !.node_count = n, !.record_bytes = b, !.ip_version = v]
  /\ UNCHANGED <<heap, field, st_size, file_size, data_section_size, counts, loop>>

\* No memory for the copy of database_type, or for the list of a value.
ReadOutOfMemory(p) ==
  /\ Fails(p, "MMDB_OUT_OF_MEMORY_ERROR", "ENOMEM", "cleanup")
  /\ UNCHANGED <<heap, field, file, counts, loop>>

ReadDatabaseType ==
  /\ Succeeds("database_type", "language_list")
  /\ Alloc(Obj("database_type"))
  /\ UNCHANGED <<file, counts, loop>>

\* binary_format_major_version, binary_format_minor_version and build_epoch.
ReadVersions(m) ==
  /\ Succeeds("versions", "description_list")
  /\ m # 0
  /\ meta' = [meta EXCEPT !.major = m]
  /\ UNCHANGED <<heap, field, st_size, file_size, data_section_size, counts, loop>>
-------------------------------------------------------------------------------
\* MMDB_get_entry_data_list for the array of languages or map of descriptions:
\* on success the list must be freed by this function.
GetList(p, q, n) ==
  /\ Succeeds(p, q)
  /\ heap' = heap \cup {Obj("list")}
  /\ size' = n /\ i' = 0
  /\ UNCHANGED <<field, file, counts>>

\* calloc and strndup set errno when they fail.
ErrnoOf(s) == IF s = "MMDB_OUT_OF_MEMORY_ERROR" THEN "ENOMEM" ELSE errno

\* populate_languages_metadata gives up: the list is freed, and the names
\* copied so far are left to the cleanup, which counts on language_count.
LanguagesFail(p, s) ==
  /\ Fails(p, s, ErrnoOf(s), "cleanup")
  /\ heap' = heap \ {Obj("list")}
  /\ UNCHANGED <<field, file, counts, loop>>

LanguageArray ==
  /\ Succeeds("language_array", "language")
  /\ Alloc(Obj("names"))
  /\ language_count' = 0
  /\ UNCHANGED <<description_count, file, loop>>

\* Mutant: the count is only set when the loop is over.
LanguageUncounted ==
  /\ i < size
  /\ Succeeds("language", "language")
  /\ Alloc(<<"name", i>>)
  /\ i' = i + 1
  /\ language_count' = IF i + 1 = size THEN size ELSE language_count
  /\ UNCHANGED <<description_count, file, size>>

\* Mutant: one language too many.
LanguagePastEnd ==
  /\ i <= size
  /\ Succeeds("language", "language")
  /\ Alloc(<<"name", i>>)
  /\ i' = i + 1
  /\ language_count' = i + 1
  /\ UNCHANGED <<description_count, file, size>>

Language ==
  /\ i < size
  /\ Succeeds("language", "language")
  /\ Alloc(<<"name", i>>)
  /\ i' = i + 1
  /\ language_count' = i + 1
  /\ UNCHANGED <<description_count, file, size>>

LanguagesDone ==
  /\ i >= size
  /\ Succeeds("language", "versions")
  /\ heap' = heap \ {Obj("list")}
  /\ UNCHANGED <<field, file, counts, loop>>

populate_languages_metadata ==
  \/ \E n \in 0 .. MaxLanguages : GetList("language_list", "language_array", n)
  \/ LanguagesFail("language_array", "MMDB_OUT_OF_MEMORY_ERROR")
  \/ LanguageArray
  \/ i < size /\ \E s \in {"MMDB_INVALID_METADATA_ERROR", "MMDB_OUT_OF_MEMORY_ERROR"} :
                   LanguagesFail("language", s)
  \/ Language
  \/ LanguagesDone
-------------------------------------------------------------------------------
\* populate_description_metadata gives up or is done: it jumps to its cleanup,
\* which frees the list.
DescriptionsFail(p, s) ==
  /\ Fails(p, s, ErrnoOf(s), "free_list")
  /\ UNCHANGED <<heap, field, file, counts, loop>>

\* The pointer to the array of descriptions is about to be overwritten.  It may
\* still be to the array of an earlier MMDB_open that failed, which no one
\* frees then.
DropDescriptions == lost' = lost \cup (heap \cap {Obj("descriptions")})

NoDescriptions ==
  /\ heap' = heap \ {Obj("descriptions")}
  /\ field' = field \ {Obj("descriptions")}

\* NULL for an empty map, and when there is no memory for the array.
DescriptionArrayIsNull ==
  /\ at = "description_array"
  /\ DropDescriptions /\ NoDescriptions
  /\ description_count' = 0
  /\ status' = IF size = 0 THEN status ELSE "MMDB_OUT_OF_MEMORY_ERROR"
  /\ errno' = IF size = 0 THEN errno ELSE "ENOMEM"
  /\ at' = "free_list"
  /\ UNCHANGED <<phase, saved_errno, opens, language_count, file, loop>>

DescriptionArray ==
  /\ at = "description_array"
  /\ size # 0
  /\ DropDescriptions /\ Alloc(Obj("descriptions"))
  /\ description_count' = 0
  /\ at' = "description"
  /\ UNCHANGED <<phase, status, errno, saved_errno, opens, language_count, file, loop>>

\* The struct for description i; only then is it counted.
DescriptionStruct ==
  /\ i < size
  /\ Succeeds("description", "description_language")
  /\ Alloc(<<"description", i>>)
  /\ description_count' = i + 1
  /\ UNCHANGED <<language_count, file, loop>>

DescriptionLanguage ==
  /\ Succeeds("description_language", "description_text")
  /\ Alloc(<<"language", i>>)
  /\ UNCHANGED <<file, counts, loop>>

DescriptionText ==
  /\ Succeeds("description_text", "description")
  /\ Alloc(<<"text", i>>)
  /\ i' = i + 1
  /\ UNCHANGED <<file, counts, size>>

DescriptionsDone ==
  /\ i >= size
  /\ Succeeds("description", "free_list")
  /\ UNCHANGED <<heap, field, file, counts, loop>>

FreeDescriptionList ==
  /\ at = "free_list"
  /\ heap' = heap \ {Obj("list")}
  /\ at' = IF status = "MMDB_SUCCESS" THEN "check" ELSE "cleanup"
  /\ UNCHANGED <<phase, status, errno, saved_errno, lost, opens, field, file, counts, loop>>

populate_description_metadata ==
  \/ \E n \in 0 .. MaxDescriptions : GetList("description_list", "description_array", n)
  \/ DescriptionArrayIsNull
  \/ DescriptionArray
  \/ i < size /\ DescriptionsFail("description", "MMDB_OUT_OF_MEMORY_ERROR")
  \/ DescriptionStruct
  \/ \E p \in {"description_language", "description_text"},
        s \in {"MMDB_INVALID_METADATA_ERROR", "MMDB_OUT_OF_MEMORY_ERROR"} :
          DescriptionsFail(p, s)
  \/ DescriptionLanguage
  \/ DescriptionText
  \/ DescriptionsDone
  \/ FreeDescriptionList
-------------------------------------------------------------------------------
can_multiply(max, m, n) == m # 0 /\ n <= max \div m

\* (ssize_t)x
ToSsize(x) == ((x + SSIZE_MAX + 1) % (2 * (SSIZE_MAX + 1))) - (SSIZE_MAX + 1)

TreeSize == ToSsize(meta.node_count * meta.record_bytes)
DataSize == file_size - TreeSize - MMDB_DATA_SECTION_SEPARATOR

\* Mutant: a product that wraps around is not noticed.
CheckStatusWithoutMultiply ==
  LET bad_layout ==
        \/ file_size < MMDB_DATA_SECTION_SEPARATOR
        \/ TreeSize > file_size - MMDB_DATA_SECTION_SEPARATOR
        \/ DataSize > UINT32_MAX \/ DataSize <= 0
  IN CASE meta.major # 2 -> "MMDB_UNKNOWN_DATABASE_FORMAT_ERROR"
       [] meta.major = 2 /\ bad_layout -> "MMDB_INVALID_METADATA_ERROR"
       [] meta.major = 2 /\ ~bad_layout /\ DataSize < 3 -> "MMDB_INVALID_DATA_ERROR"
       [] OTHER -> "MMDB_SUCCESS"

\* The checks between read_metadata and the search for the IPv4 start node,
\* in their order, and the status they leave.
CheckStatus ==
  LET bad_layout ==
        \/ ~can_multiply(SSIZE_MAX, meta.node_count, meta.record_bytes)
        \/ file_size < MMDB_DATA_SECTION_SEPARATOR
        \/ TreeSize > file_size - MMDB_DATA_SECTION_SEPARATOR
        \/ DataSize > UINT32_MAX \/ DataSize <= 0
  IN CASE meta.major # 2 -> "MMDB_UNKNOWN_DATABASE_FORMAT_ERROR"
       [] meta.major = 2 /\ bad_layout -> "MMDB_INVALID_METADATA_ERROR"
       [] meta.major = 2 /\ ~bad_layout /\ DataSize < 3 -> "MMDB_INVALID_DATA_ERROR"
       [] OTHER -> "MMDB_SUCCESS"

CheckFails ==
  /\ CheckStatus # "MMDB_SUCCESS"
  /\ Fails("check", CheckStatus, errno, "cleanup")
  /\ data_section_size' = IF CheckStatus = "MMDB_INVALID_DATA_ERROR" THEN DataSize
                          ELSE data_section_size
  /\ UNCHANGED <<heap, field, st_size, file_size, meta, counts, loop>>

\* The handle is good.  (The search for the IPv4 start node, SearchTree's, does
\* not fail on a file that passes these checks.)
OpenSucceeds ==
  /\ at = "check"
  /\ CheckStatus = "MMDB_SUCCESS"
  /\ data_section_size' = DataSize
  /\ phase' = "open" /\ at' = "idle"
  /\ UNCHANGED <<status, errno, saved_errno, lost, opens, heap, field, st_size, file_size, meta,
                 counts, loop>>

\* munmap, and free on many systems, may set errno.
ErrnoAfterFree == IF Freed = {} THEN {errno} ELSE {errno, "free"}

\* cleanup: errno is saved, everything is freed again, errno is put back.
OpenFails ==
  /\ at = "cleanup"
  /\ free_mmdb_struct
  /\ saved_errno' = errno /\ errno' \in ErrnoAfterFree
  /\ at' = "leave"
  /\ UNCHANGED <<phase, status, lost, opens, metadata, loop>>

LeaveFailed ==
  /\ at = "leave"
  /\ errno' = saved_errno
  /\ phase' = "failed" /\ at' = "idle"
  /\ UNCHANGED <<status, saved_errno, heap, field, lost, opens, file, counts, loop>>

\* Also on a handle that failed to open or is closed already.
MMDB_close ==
  /\ phase \in {"open", "failed", "closed"}
  /\ free_mmdb_struct
  /\ errno' \in ErrnoAfterFree
  /\ phase' = "closed"
  /\ UNCHANGED <<at, status, saved_errno, lost, opens, metadata, loop>>
-------------------------------------------------------------------------------
map_file ==
  \/ OpenFdFails \/ OpenFd
  \/ FstatFails \/ \E n \in FileSizes : FstatSize(n)
  \/ MmapFails \/ Mmap
  \/ CloseFd \/ RestoreErrno

read_metadata ==
  \/ ReadFails("find_metadata", "MMDB_INVALID_METADATA_ERROR")
  \/ ReadFails("sizes", "MMDB_UNKNOWN_DATABASE_FORMAT_ERROR")
  \/ \E p \in {"sizes", "database_type", "language_list", "versions", "description_list"},
        s \in ValueErrors : ReadFails(p, s)
  \/ FindMetadata
  \/ \E n \in NodeCounts, b \in RecordBytes, v \in {4, 6} : ReadSizes(n, b, v)
  \/ \E p \in {"database_type", "language_list", "description_list"} :
       ReadOutOfMemory(p)
  \/ ReadDatabaseType
  \/ populate_languages_metadata
  \/ \E m \in 0 .. 3 : ReadVersions(m)
  \/ populate_description_metadata

Next == MMDB_open \/ map_file \/ read_metadata \/ CheckFails \/ OpenSucceeds
          \/ OpenFails \/ LeaveFailed \/ MMDB_close

Spec == Init /\ [][Next]_vars
-------------------------------------------------------------------------------
\* Types; the numbers of objects stay within the metadata's sizes.
TypeOK ==
  /\ phase \in {"new", "opening", "open", "failed", "closed"}
  /\ (at = "idle") <=> (phase # "opening")
  /\ heap \subseteq Kinds \X Nat /\ field \subseteq Kinds \X Nat
  /\ language_count \in 0 .. MaxLanguages
  /\ description_count \in 0 .. MaxDescriptions
  /\ i \in Nat /\ i <= size

\* No pointer the handle keeps is dangling, at any time: what free_mmdb_struct
\* frees exists, whether MMDB_open failed early or late, and MMDB_close may be
\* called again, or after a failed MMDB_open, without freeing anything twice.
NoDanglingPointer == field \subseteq heap /\ Freed \subseteq heap

\* An open handle owns exactly what the two copying loops were meant to build,
\* and nothing else is allocated: neither the lists they copied from nor the
\* file descriptor.
OpenHandleOwnsAll ==
  phase = "open" =>
    /\ heap = {Obj("filename"), Obj("mapping"), Obj("database_type"), Obj("names")}
                \cup Names(language_count)
                \cup (IF description_count = 0 THEN {} ELSE {Obj("descriptions")})
                \cup UNION {Description(n) : n \in 0 .. (description_count - 1)}
    /\ heap = Freed

\* After a failed MMDB_open, whatever failed, nothing is allocated but perhaps
\* the array of descriptions, and that only if memory ran out (in this call,
\* or in an earlier one on the same handle); a handle that was opened and
\* closed holds nothing.
FailedOpenFreesAlmostAll ==
  /\ phase = "failed" => heap \subseteq {Obj("descriptions")}
  /\ phase = "failed" /\ opens = 1 /\ heap # {} => status = "MMDB_OUT_OF_MEMORY_ERROR"
  /\ phase = "closed" /\ status = "MMDB_SUCCESS" => heap = {}
  /\ lost \subseteq {Obj("descriptions")}

\* An open file is laid out as the tree and decoder code assume: all nodes that
\* the metadata claims, whose sizes do not wrap around when they are multiplied,
\* the separator, and at least 3 bytes of data, whose count fits in 32 bits.
OpenFileIsWellFormed ==
  phase = "open" =>
    /\ meta.node_count > 0
    /\ data_section_size \in 3 .. UINT32_MAX
    /\ meta.node_count * meta.record_bytes + MMDB_DATA_SECTION_SEPARATOR + data_section_size
         = file_size

\* "Check errno for more details": errno is still the one of the call that
\* failed when MMDB_open returns, although it has closed and freed since.
ErrnoIsTheCause ==
  phase = "failed" =>
    /\ status = "MMDB_FILE_OPEN_ERROR" => errno \in {"open", "fstat"}
    /\ status = "MMDB_IO_ERROR" => errno = "mmap"
-------------------------------------------------------------------------------
\* "If the status returned is not MMDB_SUCCESS then this library makes sure that
\* all allocated memory is freed before returning" (doc/libmaxminddb.md).
FailedOpenFreesEverything == phase = "failed" => heap = {}

===============================================================================
