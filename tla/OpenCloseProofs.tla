---------------------------- MODULE OpenCloseProofs ----------------------------
(***************************************************************************)
(* Proofs about OpenClose, for any file, any number of languages and       *)
(* descriptions and any number of calls: however far MMDB_open came, what  *)
(* free_mmdb_struct will free is what the handle owns, but for the array   *)
(* of descriptions while it has none.                                      *)
(***************************************************************************)
EXTENDS OpenClose, TLAPS

\* The parts of the first n descriptions.
Descriptions(n) == UNION {Description(k) : k \in 0 .. (n - 1)}

Base == {Obj("filename"), Obj("mapping"), Obj("database_type"), Obj("names")}

-------------------------------------------------------------------------------
(* Where MMDB_open is. *)
FdPlaces == {"fstat", "mmap", "close_fd"}
FilePlaces == {"open_fd", "restore_errno"} \cup FdPlaces
LanguagePlaces == {"language_array", "language"}
EntryPlaces == {"description", "description_language", "description_text"}
DescriptionPlaces == {"description_array", "free_list"} \cup EntryPlaces
ListPlaces == LanguagePlaces \cup DescriptionPlaces

\* With the file mapped; with database_type copied; with the languages' array.
Mapped == {"find_metadata", "sizes", "database_type", "language_list", "versions",
           "description_list", "check"} \cup ListPlaces
Typed == Mapped \ {"find_metadata", "sizes", "database_type"}
Named == Typed \ {"language_list", "language_array"}

Places == {"idle", "cleanup", "leave"} \cup FilePlaces \cup Mapped

\* Where it may have failed already, and is on its way out.
FailedPlaces == {"idle", "cleanup", "leave", "close_fd", "restore_errno", "free_list"}

-------------------------------------------------------------------------------
\* TypeOK with the variables it leaves out.
TypeInv ==
  /\ TypeOK
  /\ at \in Places /\ size \in Nat /\ opens \in Nat
  /\ st_size \in Int /\ file_size \in Int /\ data_section_size \in Int
  /\ meta \in [node_count : Nat, record_bytes : Nat, ip_version : Nat, major : Nat]
  /\ at \in LanguagePlaces => size <= MaxLanguages
  /\ at \in DescriptionPlaces => size <= MaxDescriptions
  /\ at \in {"language_array", "description_array"} => i = 0
  /\ at \in EntryPlaces => size > 0
  /\ at \in EntryPlaces \ {"description"} => i < size

\* Which step failed, and what it left in errno, or in saved_errno while the
\* calls that clean up may set errno.
StatusInv ==
  /\ at \notin FailedPlaces => status = "MMDB_SUCCESS"
  /\ at \in {"cleanup", "leave"} \/ phase = "failed" => status # "MMDB_SUCCESS"
  /\ phase = "open" => status = "MMDB_SUCCESS"
  /\ LET cause == IF at \in {"restore_errno", "leave"} THEN saved_errno ELSE errno
     IN phase \in {"opening", "failed"} =>
          /\ status = "MMDB_FILE_OPEN_ERROR" => cause \in {"open", "fstat"}
          /\ status = "MMDB_IO_ERROR" => cause = "mmap"

\* What exists besides what the handle owns.
Temporary ==
  (IF at \in FdPlaces THEN {Obj("fd")} ELSE {})
    \cup (IF at \in ListPlaces THEN {Obj("list")} ELSE {})

HeapInv == heap = field \cup Temporary

\* The loops are over and have copied everything.
Complete == phase = "open" \/ (at \in {"free_list", "check"} /\ status = "MMDB_SUCCESS")

\* The counts are those of the objects the handle owns, so far.
CountInv ==
  /\ at \in Places \ (Named \cup {"cleanup", "idle"}) => language_count = 0
  /\ at = "language" => language_count = i
  /\ at \in Places \ (EntryPlaces \cup {"free_list", "check", "cleanup", "idle"}) =>
       description_count = 0
  /\ at = "description" => description_count = i
  /\ at \in EntryPlaces \ {"description"} => description_count = i + 1
  /\ phase \in {"new", "failed", "closed"} => language_count = 0 /\ description_count = 0

\* What it owns: nothing that is not counted, and everything it should by now.
OwnInv ==
  /\ field \subseteq Base \cup {Obj("descriptions")}
                       \cup Names(language_count) \cup Descriptions(description_count)
  /\ phase \in {"new", "failed", "closed"} \/ at = "leave" =>
       field \subseteq {Obj("descriptions")}
  /\ at \in FilePlaces \cup Mapped \/ phase = "open" => Obj("filename") \in field
  /\ at \in Mapped \/ phase = "open" => Obj("mapping") \in field
  /\ at \in {"close_fd", "restore_errno"} /\ status = "MMDB_SUCCESS" =>
       Obj("mapping") \in field
  /\ at \in Typed \/ phase = "open" => Obj("database_type") \in field
  /\ at \in Named \/ phase = "open" \/ language_count > 0 => Obj("names") \in field
  /\ Names(language_count) \subseteq field
  /\ at \in EntryPlaces \/ description_count > 0 => Obj("descriptions") \in field
  /\ at \in EntryPlaces => Descriptions(i) \subseteq field
  /\ at \in EntryPlaces \ {"description"} => <<"description", i>> \in field
  /\ at = "description_text" => <<"language", i>> \in field
  /\ Complete => /\ Descriptions(description_count) \subseteq field
                 /\ Obj("descriptions") \in field => description_count > 0

\* What an earlier call may have left behind, and what this one may.
LeakInv ==
  /\ lost \subseteq {Obj("descriptions")}
  /\ opens = 0 => phase = "new" /\ field = {}
  /\ opens = 1 /\ Obj("descriptions") \in field /\ description_count = 0 =>
       at = "description" \/ status = "MMDB_OUT_OF_MEMORY_ERROR"
  /\ phase = "closed" /\ status = "MMDB_SUCCESS" => field = {}

\* The metadata that the layout checks look at; what they have established.
LayoutInv ==
  /\ at \in Mapped \ {"find_metadata", "sizes"} =>
       meta.node_count > 0 /\ meta.record_bytes > 0
  /\ OpenFileIsWellFormed

IInv == TypeInv /\ StatusInv /\ HeapInv /\ CountInv /\ OwnInv /\ LeakInv /\ LayoutInv

-------------------------------------------------------------------------------
(* Objects. *)

\* Temporary objects are none of those that a handle owns.
LEMMA TemporaryIsNotOwned ==
  ASSUME NEW n, NEW m
  PROVE  \A o \in {Obj("fd"), Obj("list")} :
           o \notin Base \cup {Obj("descriptions")} \cup Names(n) \cup Descriptions(m)
  BY DEF Obj, Base, Names, Descriptions, Description

\* One language more.
LEMMA NamesGrow ==
  /\ Names(0) = {}
  /\ \A n \in Nat : Names(n + 1) = Names(n) \cup {<<"name", n>>}
<1>1. \A n \in Nat : 0 .. ((n + 1) - 1) = (0 .. (n - 1)) \cup {n}
  OBVIOUS
<1>2. 0 .. (0 - 1) = {}
  OBVIOUS
<1> QED BY <1>1, <1>2 DEF Names

\* One description more.
LEMMA DescriptionsGrow ==
  /\ Descriptions(0) = {}
  /\ \A n \in Nat : Descriptions(n + 1) = Descriptions(n) \cup
       {<<"description", n>>, <<"language", n>>, <<"text", n>>}
<1>1. \A n \in Nat : 0 .. ((n + 1) - 1) = (0 .. (n - 1)) \cup {n}
  OBVIOUS
<1>2. 0 .. (0 - 1) = {}
  OBVIOUS
<1> QED BY <1>1, <1>2 DEF Descriptions, Description

\* The handle's array of descriptions is none of the objects its count is about.
LEMMA DescriptionsIsNoPart ==
  ASSUME NEW n, NEW m
  PROVE  Obj("descriptions") \notin Base \cup Names(n) \cup Descriptions(m)
  BY DEF Obj, Base, Names, Descriptions, Description

\* Objects are pairs of a kind and a number.
LEMMA ObjectType ==
  ASSUME NEW n \in Nat, NEW m \in Nat
  PROVE  Base \cup {Obj("descriptions"), Obj("fd"), Obj("list")} \cup Names(n)
           \cup Descriptions(m) \subseteq Kinds \X Nat
<1>1. ASSUME NEW k \in Kinds, NEW j \in Nat PROVE <<k, j>> \in Kinds \X Nat
  OBVIOUS
<1>2. Base \cup {Obj("descriptions"), Obj("fd"), Obj("list")} \subseteq Kinds \X Nat
  BY <1>1 DEF Obj, Base, Kinds
<1>3. \A k \in Nat : {<<"name", k>>} \cup Description(k) \subseteq Kinds \X Nat
  <2>1. {"name", "description", "language", "text"} \subseteq Kinds
    BY DEF Kinds
  <2> QED BY <1>1, <2>1 DEF Description
<1>4. \A j \in Nat : \A k \in 0 .. (j - 1) : k \in Nat
  OBVIOUS
<1>5. Names(n) \subseteq Kinds \X Nat
  BY <1>3, <1>4 DEF Names
<1>6. Descriptions(m) \subseteq Kinds \X Nat
  BY <1>3, <1>4 DEF Descriptions
<1> QED BY <1>2, <1>5, <1>6

\* A new handle owns nothing.
LEMMA InitIInv == Init => IInv
<1> SUFFICES ASSUME Init PROVE IInv
  OBVIOUS
<1> USE OpenAssumption DEF Init, Places, FilePlaces, FdPlaces, Mapped, Typed, Named,
          ListPlaces, LanguagePlaces, DescriptionPlaces, EntryPlaces, FailedPlaces
<1>1. TypeInv
  BY DEF TypeInv, TypeOK
<1>2. StatusInv /\ HeapInv /\ CountInv /\ LeakInv /\ LayoutInv
  BY DEF StatusInv, HeapInv, Temporary, CountInv, LeakInv, LayoutInv, OpenFileIsWellFormed
<1>3. OwnInv
  BY NamesGrow, DescriptionsGrow DEF OwnInv, Complete
<1> QED BY <1>1, <1>2, <1>3 DEF IInv

\* Every step of map_file keeps the invariant.
LEMMA MapFileKeeps == IInv /\ map_file => IInv'
<1> SUFFICES ASSUME IInv, map_file PROVE IInv'
  OBVIOUS
<1> USE DEF map_file, OpenFdFails, OpenFd, FstatFails, FstatSize, MmapFails, Mmap, CloseFd,
            RestoreErrno, Fails, Succeeds, Alloc, file, metadata, counts, loop
<1> USE DEF Places, FilePlaces, FdPlaces, Mapped, Typed, Named, ListPlaces,
          LanguagePlaces, DescriptionPlaces, EntryPlaces, FailedPlaces, IInv
<1>1. StatusInv'
  BY DEF StatusInv, TypeInv, TypeOK
<1>2. CountInv'
  BY DEF CountInv, TypeInv, TypeOK
<1>3. OwnInv'
  BY DEF OwnInv, CountInv, Complete, TypeInv, TypeOK, Base, StatusInv
<1>4. HeapInv'
  BY TemporaryIsNotOwned DEF HeapInv, Temporary, OwnInv
<1>5. LeakInv'
  BY DescriptionsIsNoPart DEF LeakInv, Base, TypeInv, TypeOK, StatusInv
<1>6. LayoutInv'
  BY DEF LayoutInv, OpenFileIsWellFormed, TypeInv, TypeOK
<1>7. TypeInv'
  <2>1. heap' \subseteq Kinds \X Nat /\ field' \subseteq Kinds \X Nat
    <3>1. language_count' \in Nat /\ description_count' \in Nat
      BY DEF TypeInv, TypeOK
    <3> QED BY <3>1, <1>3, <1>4, ObjectType DEF HeapInv, OwnInv, Temporary
  <2> QED BY <2>1, OpenAssumption DEF TypeInv, TypeOK
<1> QED BY <1>1, <1>2, <1>3, <1>4, <1>5, <1>6, <1>7

\* The steps of read_metadata that copy no list.
ReadMetadataSimply ==
  \/ ReadFails("find_metadata", "MMDB_INVALID_METADATA_ERROR")
  \/ ReadFails("sizes", "MMDB_UNKNOWN_DATABASE_FORMAT_ERROR")
  \/ \E p \in {"sizes", "database_type", "language_list", "versions", "description_list"},
        s \in ValueErrors : ReadFails(p, s)
  \/ FindMetadata
  \/ \E p \in {"database_type", "language_list", "description_list"} : ReadOutOfMemory(p)
  \/ ReadDatabaseType

ReadNumbers ==
  \/ \E n \in NodeCounts, b \in RecordBytes, v \in {4, 6} : ReadSizes(n, b, v)
  \/ \E m \in 0 .. 3 : ReadVersions(m)

\* MMDB_open overwrites a handle that owns at most the array of descriptions.
LEMMA MMDBOpenKeeps == IInv /\ MMDB_open => IInv'
<1> SUFFICES ASSUME IInv, MMDB_open PROVE IInv'
  OBVIOUS
<1> USE DEF MMDB_open, Fails, Succeeds, Alloc, file, metadata, counts, loop
<1> USE DEF Places, FilePlaces, FdPlaces, Mapped, Typed, Named, ListPlaces,
            LanguagePlaces, DescriptionPlaces, EntryPlaces, FailedPlaces, IInv
<1>1. StatusInv'
  BY DEF StatusInv, TypeInv, TypeOK
<1>2. CountInv'
  BY DEF CountInv, TypeInv, TypeOK
<1>3. OwnInv'
  BY NamesGrow, DescriptionsGrow
     DEF OwnInv, CountInv, Complete, TypeInv, TypeOK, Base, StatusInv
<1>4. HeapInv'
  BY TemporaryIsNotOwned DEF HeapInv, Temporary, OwnInv, TypeInv, TypeOK
<1>5. LeakInv'
  BY DescriptionsIsNoPart
     DEF LeakInv, Base, TypeInv, TypeOK, StatusInv, CountInv, OwnInv, HeapInv, Temporary
<1>6. LayoutInv'
  BY OpenAssumption DEF LayoutInv, OpenFileIsWellFormed, TypeInv, TypeOK
<1>7. TypeInv'
  <2>1. heap' \subseteq Kinds \X Nat /\ field' \subseteq Kinds \X Nat
    <3>1. language_count' \in Nat /\ description_count' \in Nat
      BY DEF TypeInv, TypeOK, CountInv
    <3> QED BY <3>1, <1>3, <1>4, ObjectType DEF HeapInv, OwnInv, Temporary
  <2> QED BY <2>1, OpenAssumption DEF TypeInv, TypeOK, CountInv
<1> QED BY <1>1, <1>2, <1>3, <1>4, <1>5, <1>6, <1>7

\* The steps of read_metadata that take no number from the file and copy no list.
LEMMA ReadMetadataKeeps == IInv /\ ReadMetadataSimply => IInv'
<1> SUFFICES ASSUME IInv, ReadMetadataSimply PROVE IInv'
  OBVIOUS
<1> USE DEF ReadMetadataSimply, ReadFails, ReadOutOfMemory, FindMetadata,
            ReadDatabaseType, ValueErrors, Fails, Succeeds, Alloc, file, metadata,
            counts, loop
<1> USE DEF Places, FilePlaces, FdPlaces, Mapped, Typed, Named, ListPlaces,
            LanguagePlaces, DescriptionPlaces, EntryPlaces, FailedPlaces, IInv
<1>1. StatusInv'
  BY DEF StatusInv, TypeInv, TypeOK
<1>2. CountInv'
  BY DEF CountInv, TypeInv, TypeOK
<1>3. OwnInv'
  BY NamesGrow, DescriptionsGrow
     DEF OwnInv, CountInv, Complete, TypeInv, TypeOK, Base, StatusInv
<1>4. HeapInv'
  BY TemporaryIsNotOwned DEF HeapInv, Temporary, OwnInv, TypeInv, TypeOK
<1>5. LeakInv'
  BY DescriptionsIsNoPart
     DEF LeakInv, Base, TypeInv, TypeOK, StatusInv, CountInv, OwnInv, HeapInv, Temporary
<1>6. LayoutInv'
  BY OpenAssumption DEF LayoutInv, OpenFileIsWellFormed, TypeInv, TypeOK
<1>7. TypeInv'
  <2>1. heap' \subseteq Kinds \X Nat /\ field' \subseteq Kinds \X Nat
    <3>1. language_count' \in Nat /\ description_count' \in Nat
      BY DEF TypeInv, TypeOK, CountInv
    <3> QED BY <3>1, <1>3, <1>4, ObjectType DEF HeapInv, OwnInv, Temporary
  <2> QED BY <2>1, OpenAssumption DEF TypeInv, TypeOK, CountInv
<1> QED BY <1>1, <1>2, <1>3, <1>4, <1>5, <1>6, <1>7

\* The numbers the layout checks look at are not zero.
LEMMA NumbersAreRead ==
  ASSUME TypeInv, LayoutInv, ReadNumbers
  PROVE  /\ \/ at = "sizes" /\ at' = "database_type"
            \/ at = "versions" /\ at' = "description_list"
         /\ meta' \in [node_count : Nat, record_bytes : Nat, ip_version : Nat, major : Nat]
         /\ meta'.node_count > 0 /\ meta'.record_bytes > 0
<1>1. CASE \E n \in NodeCounts, b \in RecordBytes, v \in {4, 6} : ReadSizes(n, b, v)
  <2>1. PICK n \in NodeCounts, b \in RecordBytes, v \in {4, 6} : ReadSizes(n, b, v)
    BY <1>1
  <2>2. n \in Nat /\ b \in Nat \ {0} /\ v \in Nat
    BY OpenAssumption
  <2>3. /\ n # 0 /\ at = "sizes" /\ at' = "database_type"
        /\ meta' = [meta EXCEPT !.node_count = n, !.record_bytes = b, !.ip_version = v]
    BY <2>1 DEF ReadSizes, Succeeds
  <2>4. meta \in [node_count : Nat, record_bytes : Nat, ip_version : Nat, major : Nat]
    BY DEF TypeInv
  <2>5. meta' \in [node_count : Nat, record_bytes : Nat, ip_version : Nat, major : Nat]
    BY <2>2, <2>3, <2>4
  <2>6. meta'.node_count = n /\ meta'.record_bytes = b
    BY <2>3, <2>4
  <2>7. n > 0 /\ b > 0
    BY <2>2, <2>3
  <2> QED BY <2>3, <2>5, <2>6, <2>7
<1>2. CASE \E m \in 0 .. 3 : ReadVersions(m)
  BY <1>2 DEF ReadVersions, Succeeds, TypeInv, LayoutInv, Mapped, ListPlaces
<1> QED BY <1>1, <1>2 DEF ReadNumbers

\* The steps that take numbers from the file.
LEMMA ReadNumbersKeeps == IInv /\ ReadNumbers => IInv'
<1> SUFFICES ASSUME IInv, ReadNumbers PROVE IInv'
  OBVIOUS
<1> USE DEF Places, FilePlaces, FdPlaces, Mapped, Typed, Named, ListPlaces,
            LanguagePlaces, DescriptionPlaces, EntryPlaces, FailedPlaces
<1>1. TypeInv /\ StatusInv /\ HeapInv /\ CountInv /\ OwnInv /\ LeakInv /\ LayoutInv
  BY DEF IInv
<1>2. /\ UNCHANGED <<phase, status, errno, heap, field, lost, st_size, file_size>>
      /\ UNCHANGED <<language_count, description_count, size, i, data_section_size, opens>>
  BY DEF ReadNumbers, ReadSizes, ReadVersions, Succeeds, counts, loop
<1>3. /\ \/ at = "sizes" /\ at' = "database_type"
         \/ at = "versions" /\ at' = "description_list"
      /\ meta' \in [node_count : Nat, record_bytes : Nat, ip_version : Nat, major : Nat]
      /\ meta'.node_count > 0 /\ meta'.record_bytes > 0
  BY <1>1, NumbersAreRead
<1>4. StatusInv' /\ CountInv' /\ HeapInv'
  BY <1>1, <1>2, <1>3 DEF StatusInv, CountInv, HeapInv, Temporary
<1>5. OwnInv'
  BY <1>1, <1>2, <1>3 DEF OwnInv, Complete
<1>6. LeakInv'
  BY <1>1, <1>2, <1>3 DEF LeakInv
<1>7. LayoutInv'
  BY <1>1, <1>2, <1>3 DEF LayoutInv, OpenFileIsWellFormed, TypeInv, TypeOK
<1>8. TypeInv'
  BY <1>1, <1>2, <1>3 DEF TypeInv, TypeOK
<1> QED BY <1>4, <1>5, <1>6, <1>7, <1>8 DEF IInv

\* Every step of populate_languages_metadata keeps it: language_count is how many
\* names there are whenever the loop may give up.
LEMMA LanguagesKeep == IInv /\ populate_languages_metadata => IInv'
<1> SUFFICES ASSUME IInv, populate_languages_metadata PROVE IInv'
  OBVIOUS
<1> USE DEF populate_languages_metadata, GetList, LanguagesFail, LanguageArray,
            Language, LanguagesDone, ErrnoOf, Fails, Succeeds, Alloc, file, metadata,
            counts, loop
<1> USE DEF Places, FilePlaces, FdPlaces, Mapped, Typed, Named, ListPlaces,
            LanguagePlaces, DescriptionPlaces, EntryPlaces, FailedPlaces, IInv
<1>1. StatusInv'
  BY DEF StatusInv, TypeInv, TypeOK
<1>2. CountInv'
  BY DEF CountInv, TypeInv, TypeOK
<1>3. OwnInv'
  BY NamesGrow, DescriptionsGrow
     DEF OwnInv, CountInv, Complete, TypeInv, TypeOK, Base, StatusInv
<1>4. HeapInv'
  BY TemporaryIsNotOwned DEF HeapInv, Temporary, OwnInv, TypeInv, TypeOK
<1>5. LeakInv'
  BY DescriptionsIsNoPart
     DEF LeakInv, Base, TypeInv, TypeOK, StatusInv, CountInv, OwnInv, HeapInv, Temporary, Obj
<1>6. LayoutInv'
  BY OpenAssumption DEF LayoutInv, OpenFileIsWellFormed, TypeInv, TypeOK
<1>7. TypeInv'
  <2>1. heap' \subseteq Kinds \X Nat /\ field' \subseteq Kinds \X Nat
    <3>1. language_count' \in Nat /\ description_count' \in Nat
      BY DEF TypeInv, TypeOK, CountInv
    <3> QED BY <3>1, <1>3, <1>4, ObjectType DEF HeapInv, OwnInv, Temporary
  <2> QED BY <2>1, OpenAssumption DEF TypeInv, TypeOK, CountInv
<1> QED BY <1>1, <1>2, <1>3, <1>4, <1>5, <1>6, <1>7

\* Every step of populate_description_metadata keeps it: a description that is
\* only half copied is counted.
LEMMA DescriptionsKeep == IInv /\ populate_description_metadata => IInv'
<1> SUFFICES ASSUME IInv, populate_description_metadata PROVE IInv'
  OBVIOUS
<1> USE DEF populate_description_metadata, GetList, DescriptionsFail,
            DescriptionArrayIsNull, DescriptionArray, DescriptionStruct,
            DescriptionLanguage, DescriptionText, DescriptionsDone,
            FreeDescriptionList, DropDescriptions, NoDescriptions, ErrnoOf, Fails,
            Succeeds, Alloc, file, metadata, counts, loop
<1> USE DEF Places, FilePlaces, FdPlaces, Mapped, Typed, Named, ListPlaces,
            LanguagePlaces, DescriptionPlaces, EntryPlaces, FailedPlaces, IInv
<1>1. StatusInv'
  BY DEF StatusInv, TypeInv, TypeOK
<1>2. CountInv'
  BY DEF CountInv, TypeInv, TypeOK
<1>3. OwnInv'
  <2>1. CASE \E n \in 0 .. MaxDescriptions :
               GetList("description_list", "description_array", n)
    BY <2>1, DescriptionsGrow DEF OwnInv, CountInv, Complete, TypeInv, TypeOK, StatusInv
  <2>2. CASE DescriptionArrayIsNull
    BY <2>2, DescriptionsGrow, DescriptionsIsNoPart
       DEF OwnInv, CountInv, Complete, TypeInv, TypeOK, StatusInv, Base
  <2>3. CASE DescriptionArray
    BY <2>3, DescriptionsGrow DEF OwnInv, CountInv, Complete, TypeInv, TypeOK, StatusInv
  <2>4. CASE DescriptionStruct
    BY <2>4, DescriptionsGrow DEF OwnInv, CountInv, Complete, TypeInv, TypeOK, StatusInv
  <2>5. CASE DescriptionLanguage
    BY <2>5, DescriptionsGrow DEF OwnInv, CountInv, Complete, TypeInv, TypeOK, StatusInv
  <2>6. CASE DescriptionText
    BY <2>6, DescriptionsGrow DEF OwnInv, CountInv, Complete, TypeInv, TypeOK, StatusInv
  <2>7. CASE DescriptionsDone
    BY <2>7, DescriptionsGrow DEF OwnInv, CountInv, Complete, TypeInv, TypeOK, StatusInv
  <2>8. CASE FreeDescriptionList
    BY <2>8, DescriptionsGrow DEF OwnInv, CountInv, Complete, TypeInv, TypeOK, StatusInv
  <2>9. CASE \E p \in EntryPlaces,
                s \in {"MMDB_INVALID_METADATA_ERROR", "MMDB_OUT_OF_MEMORY_ERROR"} :
               DescriptionsFail(p, s)
    BY <2>9, DescriptionsGrow DEF OwnInv, CountInv, Complete, TypeInv, TypeOK, StatusInv
  <2> QED BY <2>1, <2>2, <2>3, <2>4, <2>5, <2>6, <2>7, <2>8, <2>9
<1>4. HeapInv'
  BY TemporaryIsNotOwned DEF HeapInv, Temporary, OwnInv, TypeInv, TypeOK
<1>5. LeakInv'
  BY DescriptionsIsNoPart
     DEF LeakInv, Base, TypeInv, TypeOK, StatusInv, CountInv, OwnInv, HeapInv, Temporary
<1>6. LayoutInv'
  BY OpenAssumption DEF LayoutInv, OpenFileIsWellFormed, TypeInv, TypeOK
<1>7. TypeInv'
  <2>1. heap' \subseteq Kinds \X Nat /\ field' \subseteq Kinds \X Nat
    <3>1. language_count' \in Nat /\ description_count' \in Nat
      BY DEF TypeInv, TypeOK, CountInv
    <3> QED BY <3>1, <1>3, <1>4, ObjectType DEF HeapInv, OwnInv, Temporary
  <2> QED BY <2>1, OpenAssumption DEF TypeInv, TypeOK, CountInv
<1> QED BY <1>1, <1>2, <1>3, <1>4, <1>5, <1>6, <1>7

\* What can_multiply says: the product of the two numbers is at most max.
LEMMA ProductFits ==
  ASSUME NEW max \in Nat, NEW m \in Nat, NEW n \in Nat, can_multiply(max, m, n)
  PROVE  m * n \in Nat /\ m * n <= max
<1>1. m \in Nat \ {0} /\ n <= max \div m
  BY DEF can_multiply
<1>2. max \div m \in Nat /\ m * (max \div m) <= max
  BY <1>1
<1>3. m * n <= m * (max \div m)
  BY <1>1, <1>2
<1> QED BY <1>2, <1>3

\* A size up to SSIZE_MAX is the same as an ssize_t.
LEMMA SizeFits ==
  ASSUME NEW x \in Nat, x <= SSIZE_MAX
  PROVE  ToSsize(x) = x
<1>1. \A m \in Nat, y \in Nat : y < m => y % m = y
  OBVIOUS
<1> DEFINE y == x + SSIZE_MAX + 1
           m == 2 * (SSIZE_MAX + 1)
<1>2. y \in Nat /\ m \in Nat /\ y < m
  BY OpenAssumption
<1>3. y % m = y
  BY <1>1, <1>2
<1>4. ToSsize(x) = y - (SSIZE_MAX + 1)
  BY <1>3 DEF ToSsize
<1> QED BY <1>4, OpenAssumption

\* The number of bytes left for the data is a number, whatever wraps around.
LEMMA DataSizeType ==
  ASSUME TypeInv
  PROVE  DataSize \in Int
<1>1. /\ meta.node_count \in Nat /\ meta.record_bytes \in Nat /\ file_size \in Int
      /\ SSIZE_MAX \in Nat /\ MMDB_DATA_SECTION_SEPARATOR \in Nat
  BY OpenAssumption DEF TypeInv
<1>2. \A x \in Nat, m \in Nat \ {0} : x % m \in Int
  OBVIOUS
<1>3. meta.node_count * meta.record_bytes \in Nat
  BY <1>1
<1>4. TreeSize \in Int
  BY <1>1, <1>2, <1>3 DEF TreeSize, ToSsize
<1> QED BY <1>1, <1>4 DEF DataSize

\* The checks of the layout keep it, and establish what they are for.
LEMMA ChecksKeep == IInv /\ (CheckFails \/ OpenSucceeds) => IInv'
<1> SUFFICES ASSUME IInv, (CheckFails \/ OpenSucceeds) PROVE IInv'
  OBVIOUS
<1> USE DEF CheckFails, OpenSucceeds, Fails, Succeeds, Alloc, file, metadata, counts,
            loop
<1> USE DEF Places, FilePlaces, FdPlaces, Mapped, Typed, Named, ListPlaces,
            LanguagePlaces, DescriptionPlaces, EntryPlaces, FailedPlaces, IInv
<1>0. CheckStatus \in {"MMDB_SUCCESS", "MMDB_UNKNOWN_DATABASE_FORMAT_ERROR",
                       "MMDB_INVALID_METADATA_ERROR", "MMDB_INVALID_DATA_ERROR"}
  BY DEF CheckStatus
<1>1. StatusInv'
  BY <1>0 DEF StatusInv, TypeInv, TypeOK
<1>2. CountInv'
  BY DEF CountInv, TypeInv, TypeOK
<1>3. OwnInv'
  BY NamesGrow, DescriptionsGrow
     DEF OwnInv, CountInv, Complete, TypeInv, TypeOK, Base, StatusInv
<1>4. HeapInv'
  BY TemporaryIsNotOwned DEF HeapInv, Temporary, OwnInv, TypeInv, TypeOK
<1>5. LeakInv'
  BY DescriptionsIsNoPart
     DEF LeakInv, Base, TypeInv, TypeOK, StatusInv, CountInv, OwnInv, HeapInv, Temporary
<1>6. LayoutInv'
  <2>1. CASE CheckFails
    BY <2>1 DEF LayoutInv, OpenFileIsWellFormed, TypeInv, TypeOK
  <2>2. CASE OpenSucceeds
    <3> DEFINE product == meta.node_count * meta.record_bytes
    <3>1. meta.node_count > 0 /\ meta.record_bytes > 0
      BY <2>2 DEF LayoutInv
    <3>2. meta.node_count \in Nat /\ meta.record_bytes \in Nat /\ file_size \in Int
      BY DEF TypeInv
    <3>3. product \in Nat /\ product <= SSIZE_MAX
      <4>1. can_multiply(SSIZE_MAX, meta.node_count, meta.record_bytes)
        BY <2>2 DEF CheckStatus
      <4> QED BY <3>2, <4>1, ProductFits, OpenAssumption
    <3>4. TreeSize = product
      BY <3>3, SizeFits DEF TreeSize
    <3>5. DataSize \in Int /\ product + MMDB_DATA_SECTION_SEPARATOR + DataSize = file_size
      BY <3>2, <3>3, <3>4, OpenAssumption DEF DataSize
    <3>6. DataSize \in 3 .. UINT32_MAX
      BY <2>2, <3>5, OpenAssumption DEF CheckStatus
    <3>7. meta' = meta /\ file_size' = file_size /\ data_section_size' = DataSize
          /\ at' = "idle"
      BY <2>2
    <3> QED BY <3>1, <3>5, <3>6, <3>7 DEF LayoutInv, OpenFileIsWellFormed
  <2> QED BY <2>1, <2>2
<1>7. TypeInv'
  <2>1. heap' \subseteq Kinds \X Nat /\ field' \subseteq Kinds \X Nat
    <3>1. language_count' \in Nat /\ description_count' \in Nat
      BY DEF TypeInv, TypeOK, CountInv
    <3> QED BY <3>1, <1>3, <1>4, ObjectType DEF HeapInv, OwnInv, Temporary
  <2>2. DataSize \in Int
    BY DataSizeType
  <2> QED BY <2>1, <2>2 DEF TypeInv, TypeOK
<1> QED BY <1>1, <1>2, <1>3, <1>4, <1>5, <1>6, <1>7

\* The cleanup after a failure and MMDB_close keep it: they leave nothing but
\* perhaps the array of descriptions.
LEMMA FreeKeeps == IInv /\ (OpenFails \/ MMDB_close) => IInv'
<1> SUFFICES ASSUME IInv, OpenFails \/ MMDB_close PROVE IInv'
  OBVIOUS
<1> USE DEF Places, FilePlaces, FdPlaces, Mapped, Typed, Named, ListPlaces,
            LanguagePlaces, DescriptionPlaces, EntryPlaces, FailedPlaces
<1>1. /\ \/ /\ at = "cleanup" /\ at' = "leave" /\ phase = "opening" /\ phase' = "opening"
            /\ saved_errno' = errno
         \/ /\ at = "idle" /\ at' = "idle" /\ phase' = "closed"
            /\ phase \in {"open", "failed", "closed"}
      /\ free_mmdb_struct /\ UNCHANGED <<status, lost, opens, metadata, loop>>
  BY DEF OpenFails, MMDB_close, IInv, TypeInv, TypeOK
<1>2. TypeInv /\ StatusInv /\ HeapInv /\ CountInv /\ OwnInv /\ LeakInv /\ LayoutInv
  BY DEF IInv
<1>3. language_count \in Nat /\ description_count \in Nat
  BY <1>2 DEF TypeInv, TypeOK
<1>4. language_count' = 0 /\ description_count' = 0
  BY <1>1, <1>2, <1>3 DEF free_mmdb_struct, OwnInv
<1>5. Names(language_count) # {} => Obj("names") \in field
  BY <1>2, <1>3, NamesGrow DEF OwnInv
<1>6. Descriptions(description_count) # {} => description_count > 0
  BY <1>3, DescriptionsGrow
<1>7. field \ Freed \subseteq {Obj("descriptions")}
  <2>1. SUFFICES ASSUME NEW o \in field, o # Obj("descriptions") PROVE o \in Freed
    OBVIOUS
  <2>2. o \in Base \cup Names(language_count) \cup Descriptions(description_count)
    BY <1>2, <2>1 DEF OwnInv
  <2>3. CASE o \in Base
    BY <2>3 DEF Base, Freed
  <2>4. CASE o \in Names(language_count)
    BY <1>5, <2>4 DEF Freed
  <2>5. CASE o \in Descriptions(description_count)
    BY <1>6, <2>1, <2>5 DEF Descriptions, Freed
  <2> QED BY <2>2, <2>3, <2>4, <2>5
<1>8. description_count > 0 => Obj("descriptions") \in Freed
  BY <1>2, <1>3 DEF OwnInv, Freed
<1>9. heap' = field' /\ field' = field \ Freed
  BY <1>1, <1>2 DEF free_mmdb_struct, HeapInv, Temporary
<1>10. description_count > 0 \/ phase = "open" => field' = {}
  BY <1>2, <1>7, <1>8, <1>9 DEF OwnInv, Complete
<1>11. StatusInv'
  BY <1>1, <1>2 DEF StatusInv
<1>12. CountInv'
  BY <1>1, <1>4 DEF CountInv
<1>13. OwnInv'
  BY <1>1, <1>4, <1>7, <1>9, NamesGrow, DescriptionsGrow DEF OwnInv, Complete
<1>14. HeapInv'
  BY <1>1, <1>9 DEF HeapInv, Temporary
<1>15. LeakInv'
  <2>1. opens' = 0 => FALSE
    BY <1>1, <1>2 DEF LeakInv
  <2>2. opens' = 1 /\ Obj("descriptions") \in field' => status' = "MMDB_OUT_OF_MEMORY_ERROR"
    BY <1>1, <1>2, <1>3, <1>9, <1>10 DEF LeakInv
  <2>3. phase' = "closed" /\ status' = "MMDB_SUCCESS" => field' = {}
    BY <1>1, <1>2, <1>9, <1>10 DEF LeakInv, StatusInv
  <2> QED BY <1>1, <1>2, <2>1, <2>2, <2>3 DEF LeakInv
<1>16. LayoutInv'
  BY <1>1 DEF LayoutInv, OpenFileIsWellFormed
<1>17. TypeInv'
  <2>1. heap' \subseteq Kinds \X Nat /\ field' \subseteq Kinds \X Nat
    BY <1>2, <1>9 DEF TypeInv, TypeOK
  <2>2. file_size' \in Int /\ data_section_size' \in Int
    BY <1>1, <1>2 DEF free_mmdb_struct, TypeInv
  <2> QED BY <1>1, <1>2, <1>4, <2>1, <2>2, OpenAssumption
          DEF TypeInv, TypeOK, metadata, loop
<1> QED BY <1>11, <1>12, <1>13, <1>14, <1>15, <1>16, <1>17 DEF IInv

\* The end of a failed MMDB_open keeps it: errno is what was saved.
LEMMA LeaveKeeps == IInv /\ LeaveFailed => IInv'
<1> SUFFICES ASSUME IInv, LeaveFailed PROVE IInv'
  OBVIOUS
<1> USE DEF LeaveFailed, file, counts, loop
<1> USE DEF Places, FilePlaces, FdPlaces, Mapped, Typed, Named, ListPlaces,
            LanguagePlaces, DescriptionPlaces, EntryPlaces, FailedPlaces, IInv
<1>1. StatusInv' /\ CountInv' /\ HeapInv'
  BY DEF StatusInv, CountInv, HeapInv, Temporary, TypeInv, TypeOK
<1>2. OwnInv'
  BY DEF OwnInv, CountInv, Complete
<1>3. LeakInv'
  BY DEF LeakInv, StatusInv, TypeInv, TypeOK
<1>4. LayoutInv' /\ TypeInv'
  BY DEF LayoutInv, OpenFileIsWellFormed, TypeInv, TypeOK
<1> QED BY <1>1, <1>2, <1>3, <1>4

-------------------------------------------------------------------------------
\* The inductive invariant of a handle.
THEOREM HandleInvariant == Spec => []IInv
<1>1. IInv /\ [Next]_vars => IInv'
  <2> SUFFICES ASSUME IInv, [Next]_vars PROVE IInv'
    OBVIOUS
  <2>1. CASE MMDB_open
    BY <2>1, MMDBOpenKeeps
  <2>2. CASE map_file
    BY <2>2, MapFileKeeps
  <2>3. CASE read_metadata
    BY <2>3, ReadMetadataKeeps, ReadNumbersKeeps, LanguagesKeep, DescriptionsKeep
       DEF read_metadata, ReadMetadataSimply, ReadNumbers
  <2>4. CASE CheckFails \/ OpenSucceeds
    BY <2>4, ChecksKeep
  <2>5. CASE OpenFails \/ MMDB_close
    BY <2>5, FreeKeeps
  <2>6. CASE LeaveFailed
    BY <2>6, LeaveKeeps
  <2>7. CASE UNCHANGED vars
    BY <2>7 DEF vars, IInv, TypeInv, TypeOK, StatusInv, HeapInv, Temporary, CountInv, OwnInv,
       Complete, LeakInv, LayoutInv, OpenFileIsWellFormed
  <2> QED BY <2>1, <2>2, <2>3, <2>4, <2>5, <2>6, <2>7 DEF Next
<1> QED BY InitIInv, <1>1, PTL DEF Spec

\* Types, and that both copying loops stay within the sizes the file gives.
THEOREM HandleTypeCorrect == Spec => []TypeOK
<1>1. IInv => TypeOK
  BY DEF IInv, TypeInv
<1> QED BY <1>1, HandleInvariant, PTL

\* free_mmdb_struct never frees what does not exist, wherever MMDB_open failed
\* and however often MMDB_close is called.
THEOREM HandleHasNoDanglingPointer == Spec => []NoDanglingPointer
<1>1. IInv => NoDanglingPointer
  <2> SUFFICES ASSUME IInv PROVE NoDanglingPointer
    OBVIOUS
  <2>1. field \subseteq heap
    BY DEF IInv, HeapInv
  <2>2. Freed \subseteq field
    BY DEF IInv, OwnInv, Freed
  <2> QED BY <2>1, <2>2 DEF NoDanglingPointer
<1> QED BY <1>1, HandleInvariant, PTL

\* An open handle owns everything the file called for, MMDB_close will free all
\* of it, and nothing else is allocated.
THEOREM OpenHandleIsComplete == Spec => []OpenHandleOwnsAll
<1>1. IInv => OpenHandleOwnsAll
  <2> SUFFICES ASSUME IInv, phase = "open"
               PROVE
                 /\ heap = Base \cup Names(language_count)
                             \cup (IF description_count = 0 THEN {} ELSE {Obj("descriptions")})
                             \cup Descriptions(description_count)
                 /\ heap = Freed
    BY DEF OpenHandleOwnsAll, Base, Descriptions
  <2>1. at = "idle" /\ description_count \in Nat
    BY DEF IInv, TypeInv, TypeOK
  <2>2. heap = field
    BY <2>1 DEF IInv, HeapInv, Temporary, FdPlaces, ListPlaces, LanguagePlaces,
       DescriptionPlaces, EntryPlaces
  <2>3. Base \subseteq field /\ Names(language_count) \subseteq field
        /\ Descriptions(description_count) \subseteq field
        /\ (Obj("descriptions") \in field <=> description_count # 0)
    BY <2>1 DEF IInv, OwnInv, Complete, Base
  <2>4. field = Base \cup Names(language_count)
                  \cup (IF description_count = 0 THEN {} ELSE {Obj("descriptions")})
                  \cup Descriptions(description_count)
    BY <2>3 DEF IInv, OwnInv
  <2>5. description_count = 0 => Descriptions(description_count) = {}
    BY DescriptionsGrow
  <2>6. Freed = field
    BY <2>3, <2>4, <2>5 DEF Freed, Base, Descriptions
  <2> QED BY <2>2, <2>4, <2>6
<1> QED BY <1>1, HandleInvariant, PTL

\* A failed MMDB_open leaves nothing behind but perhaps the array of
\* descriptions, and that on a new handle only when memory ran out.
THEOREM FailedOpenReleases == Spec => []FailedOpenFreesAlmostAll
<1>1. IInv => FailedOpenFreesAlmostAll
  <2> SUFFICES ASSUME IInv PROVE FailedOpenFreesAlmostAll
    OBVIOUS
  <2>1. phase \in {"failed", "closed"} => at = "idle" /\ heap = field
    BY DEF IInv, TypeInv, TypeOK, HeapInv, Temporary, FdPlaces, ListPlaces, LanguagePlaces,
       DescriptionPlaces, EntryPlaces
  <2>2. phase \in {"failed", "closed"} =>
          field \subseteq {Obj("descriptions")} /\ description_count = 0
    BY DEF IInv, OwnInv, CountInv
  <2> QED BY <2>1, <2>2 DEF FailedOpenFreesAlmostAll, IInv, LeakInv
<1> QED BY <1>1, HandleInvariant, PTL

\* The tree, the separator and the data section of an open file fill it exactly,
\* and the data section is large enough for the decoder and its count a uint32_t.
THEOREM OpenFilesAreWellFormed == Spec => []OpenFileIsWellFormed
<1>1. IInv => OpenFileIsWellFormed
  BY DEF IInv, LayoutInv
<1> QED BY <1>1, HandleInvariant, PTL

\* errno survives close and free, and is still the one of the call that failed.
THEOREM ErrnoSurvivesCleanup == Spec => []ErrnoIsTheCause
<1>1. IInv => ErrnoIsTheCause
  BY DEF IInv, TypeInv, TypeOK, StatusInv, ErrnoIsTheCause
<1> QED BY <1>1, HandleInvariant, PTL

===============================================================================
