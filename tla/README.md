# A TLA+ development of libmaxminddb

libmaxminddb reads MaxMind DB files: it maps a file into memory, finds the
record of an IP address in a binary search tree, and decodes the record's data.
This directory models the library in TLA+, checks the models with TLC on small
instances, and proves their main properties with TLAPS for all values of the
constants. Source paths below are relative to the repository; `maxminddb.c` and
`data-pool.c` are in `src/`.

## The system

| Component | State | Operations | Interacts with |
|---|---|---|---|
| Handle (`MMDB_open`, `MMDB_close`) | `MMDB_s`: mapping, sizes, copied metadata, IPv4 start node | open, close | decoder, path lookups and entry lists (to read the metadata), search tree (start node) |
| Search tree and lookups | none of its own; reads the handle and the file | `MMDB_lookup_string`, `MMDB_lookup_sockaddr`, `MMDB_read_node` | called by any number of threads on one handle |
| Value decoder | the caller's `MMDB_entry_data_s` | `decode_one`, `decode_one_follow` | called by path lookups and entry lists, on the data section or, through a fake handle, on the metadata section |
| Path lookups | the caller's `MMDB_entry_data_s` | `MMDB_get_value`, `_vget_`, `_aget_` | decoder |
| Entry data lists | a data pool | `MMDB_get_entry_data_list`, `MMDB_free_entry_data_list`, dump | decoder, data pool |
| Data pool | `MMDB_data_pool_s`, up to 32 blocks | new, alloc, to_list, destroy | `calloc`, `free` |
| Metadata search | none | `find_metadata`, `mmdb_memmem` | called by `MMDB_open` |
| mmdblookup | options, file, lists, threads | one lookup, lookups from a file, a benchmark with or without threads | the public API |

What is hard about it:

- *The file is not to be trusted.* Any record may hold any value, so trees have
  cycles and records that point nowhere; any byte of the data section may be any
  control byte, cut off by the end of the section. All arithmetic is unsigned
  and wraps.
- *Every call may fail.* `MMDB_open` allocates a number of objects that depends
  on the file, and has to give back exactly those it got.
- *Handles are shared.* Lookups take no lock. They are safe because nothing of
  the handle changes after `MMDB_open`, which is why the IPv4 start node is
  computed there and not by the first lookup that needs it.
- *Counters at their limits.* The pool doubles its blocks until it runs out of
  array, of memory or of `size_t`. Sizes in the data section are the file's claim.
- *One struct, many uses.* A pointer's target is decoded over the pointer, a list
  stands for a tree whose shape is only in the sizes, and a value is skipped by
  decoding all of it; each relies on `offset_to_next` being right at that moment.
- *Threads without a protocol.* The client's benchmark threads share the handle and
  an array of arguments with `main`, which frees both.

There are no messages, timers, retries or persistent writes in this library, and
hence nothing here about those.

What makes each component correct: the pool hands out each struct once, lists
them in order and frees each block once; a lookup gives the answer of a walk from
the root, ends in any tree and does not depend on other threads; a failed open
leaves nothing behind and an open handle has the layout the readers rely on; the
decoder reads nothing outside the section and always advances; a path lookup, an
entry list and a dump all see the value the format says is there, however it is
nested and pointed to, or fail for cause, and leave no memory behind; the metadata
is what follows the last marker; the client releases what it took on every way out,
reports what it did, and ends.

## Modules

### `EntryArena`, `DataPool` — the pool (`data-pool.c`)

`EntryArena` is what `get_entry_data_list` needs: an arena that hands out elements
never handed out before, or refuses, and on request links what it has handed out
in that order. It knows nothing of blocks.

`DataPool` has the fields of `MMDB_data_pool_s` as variables and one action per
outcome of each function: `NewFails`/`NewSucceeds`, `AllocFromBlock`/
`AllocFromNewBlock`/`AllocFails`, `ToListEmpty`/`ToListLinks`, and
`data_pool_destroy`. A block is an identity, an element a pair of block and slot.
`heap` gives the structs in each allocated block, `next` the `next` fields that
are not NULL. `calloc` (external) may fail at any call and zeroes what it returns.
`size - 1` is the wrapping subtraction of the code. `taken` and `linked` are
history. `data_pool_to_list` may be called again, with allocations in between.

### `SearchTree` — start node, lookups, `MMDB_read_node` (`maxminddb.c:878-1170`)

The tree is a function from nodes to two records each, chosen at the start and
never changed. `FindStartStep` is one iteration of `find_ipv4_start_node`;
`MMDB_open_returns` hands the handle to the threads. `LookupStarts`, `WalkStep`
(one iteration of the loop in `find_address_in_search_tree`) and `WalkEnd` make a
lookup; `LookupRejected` and `LookupStringGaiError` are the early returns. Steps of
different threads interleave. `record_type`, `data_section_offset_for_record`
(modulo 2^32), `mapped_address` and `ReadNode` are translated as operators. The
numbers 96, 32 and 16 are constants so that TLC can take small ones.

Abstracted: the byte layouts of records; `getaddrinfo` (external: it rejects a
string, or the call is `MMDB_lookup_sockaddr`); the test for an unknown record
length, which `MMDB_open` has excluded. The checks for a node past the tree
(`PastTree`) are kept; the proofs show that a walk never meets them, because it
only reads nodes below `node_count`.

### `OpenClose` — the life of a handle (`maxminddb.c:245-876`, `1922-2046`)

`at` is where `MMDB_open` is; each call that can fail is a step with a failing
alternative. `heap` holds the objects that exist (file descriptor, mapping, copied
strings, arrays, the entry lists that are freed on the way), `field` the ones the
handle has a pointer to, `lost` those whose last pointer was overwritten.
`free_mmdb_struct` frees what the code frees: pointers that are not NULL, as many
names and descriptions as the counts say, and no descriptions at all if their
count is zero. The values of the metadata are chosen freely within the types the
code accepts; `CheckStatus` is the sequence of layout checks, with the size of the tree
multiplied in `ssize_t`, that is wrapping around where nothing has excluded it. `errno` is
the call that set it last: `close`, `free` and `munmap` may set it, and the two cleanups
save it in a local variable before (`CloseFd`, `OpenFails`) and restore it after
(`RestoreErrno`, `LeaveFailed`). After a close, or a
failed open, the struct may be opened or closed again. `MMDB_open` resets all
pointers but `description.descriptions`, and so does the model.

Abstracted: which bytes the metadata is decoded from (so sizes need not be
consistent with a file that holds them: more behaviours than the code has);
`flags`; the 32-bit-only overflow tests of `MAYBE_CHECK_SIZE_OVERFLOW`; Windows.

### `Decoding`, `Decoder` — `decode_one`, `decode_one_follow` (`maxminddb.c:1401-1676`)

A section is a sequence of bytes; past its end lies some other byte. Every bounds
check is the code's, with subtraction modulo 2^32. `reads` is the set of offsets a
call looks at before it returns, early or not. The entry data persists
between calls, since the code decodes a pointer's target into the struct that held
the pointer. Callers may go on from `offset_to_next`, from `pointer`, or from any
offset. Types, sizes, pointers and offsets are computed as in the code; the value
of a number is not (see `FileBytes`). `Decoding` has the operators, which `Path` and
`EntryList` build on; `Decoder` the state and the calls.

### `Path` — `MMDB_get_value`, `_vget_`, `_aget_` (`maxminddb.c:1172-1399`)

`lookup` is the loop the call is in: over the path, over the elements of an array
(`PassElement`, `TakeElement`) or over the keys of a map (`CompareKey`, `NoKeyLeft`).
`skips` is the recursion of `skip_map_or_array`, a counter per nested map or array;
`SkipMember` is one round of it. A path element is a sequence of bytes, so that
`strtol` (external) is modelled by what it does: white space, a sign, digits, junk,
`ERANGE`. Local structs start as `Uninitialised`, and what the code reads from them
before it writes them would show.

### `EntryList` — `MMDB_get_entry_data_list` (`maxminddb.c:1678-1830`, `1915-1920`)

`stack` is the recursion of `get_entry_data_list`, a frame per call: new, waiting for
its members, or waiting for the target of its pointer, which is decoded into the same
element. The keys and values of a map are treated alike in the code and here: a map
of n entries has 2n members. Elements come from `EntryArena`, the arena that
`DataPool` is shown to implement, which may refuse at any time. An error unwinds the
stack in one step (no call does anything on the way) and then destroys the pool.
`MMDB_get_metadata_as_entry_data_list` is the same call on another section.

### `Dump` — `MMDB_dump_entry_data_list` (`maxminddb.c:2050-2251`)

The walk through a list: `current` is the parameter, `nest` the loops of the maps and
arrays around it, `dumped` what has been printed so far. Every allocation of a copy
may fail. The text is left out.

### `Format` — the reference

Defines the structure of a section a second time, as recursive functions on
*spans* (an offset and a number of values that follow each other there): `EndOf` (where
they end), `Preorder` (everything in them, pointers replaced), `Sound` (they can be read
within a number of levels) and `OtherKeys` (the keys in them that are no strings).
It is a reference for what the loops, recursions and stacks of the code do with values,
not for the bytes of one value: heads, sizes, pointers and the checks of `decode_one` are
the operators of `Decoding` in both. Those have properties of their own (`ReadsStayInside`,
`NextIsAhead`, `SizeHasOneEncoding`, `PointerHasOneEncoding`).

### `Entries` — clients of the three above

Composes `Path`, `EntryList` and `Dump` over one section, and compares what they did with
`Format`: a list with `Preorder`, its failures with `Sound`, and a path lookup with
`Selected`, what the path selects when it is followed in `Format`.

### `FileBytes` — bytes below the decoder

`find_metadata` with `mmdb_memmem` (`maxminddb.c:491-528`, `maxminddb-compat-util.h`),
one step per position compared; the record getters and `MMDB_read_node`'s use of them
(`1019-1041`, `1111-1143`); `get_uintX`, one step per byte, and `get_sintX`
(`1902-1913`). A byte is two digits of base `Nibble`, 16 in the code and 2 in the run:
the layouts are the same in any base, and 28 bit records still share a byte. The
writer's side (`BigEndian`, `NodeBytes`) is the format's.

### `MMDBLookup` — the client (`bin/mmdblookup.c`)

`pc` is where `main` is, in the function it has called; `held` what it has taken and
not given back (the path array, the handle, the file, the threads' arguments), `lists`
who holds an entry data list, `threads` the local state of each benchmark thread.
A command line is the outcome of `getopt_long`; `strtol`'s long is cut to an `int` by
`ToInt`. The library's calls are their outcomes. If `pthread_create` or `pthread_join`
fails, `main` frees the arguments and closes the handle while threads run: then a
thread may see any `int` for its loop bound and may be killed (`ThreadFaults`). An `int`
product that overflows is either wrapped or computed in a wider register. A thread that
gives up ends as `quit`, one that is through as `done`; `main` cannot tell them apart.
History are `looked` (lookups made), `shown` (what a single lookup has printed: a list,
part of one, that there is no data at the path) and `failed`: every fault so far, each
recorded by the step where it happens (a bad command line, no memory, no database, a bad
address, a lookup, an address that has no entry, a value, a list, a dump, the file, the
clock, `pthread_create`, `pthread_join`, a thread that gave up). Left out: what is printed but for the count in the report, and `wmain`.

## Runs

Eight runs pass:

- **data_pool** (`MCDataPool.cfg`). Three block slots, four block identities,
  `SIZE_MAX` 23 with structs of 2 bytes, initial sizes 0, 1, 2, 3 and 12. Sizes 1
  and 2 fill all block slots, 3 runs out of `size_t`, 0 and 12 are refused. Checks
  that elements are owned and distinct, list order, ownership of blocks, byte
  counts, and the refinement of `EntryArena`. A fourth identity means a freed block
  and a new one are not always the same.
- **search_tree** (`MCSearchTree.cfg`). One thread; all trees of one and two nodes
  whose records are any node (the root too: cycles), the empty record, a separator
  record, the last data byte and one past it; addresses of 1 (IPv4) and 3 (IPv6)
  bits. Two nodes and three bits are enough for a start node above, at and below
  the prefix, and for an address used up inside the tree. Checks the answers
  against a walk from the root, the agreement with `MMDB_read_node`, and that every
  call returns.
- **shared_handle** (`MCSharedHandle.cfg`). Two threads, fewer record values.
  Checks the answers again and that the two forms of an IPv4 address agree.
- **open_close** (`MCOpenClose.cfg`). Up to two languages and two descriptions
  (a failure at the first, in between and at the last), two opens, file sizes on
  both sides of each limit (scaled: separator 4, `UINT32_MAX` 7, `SSIZE_MAX` 20). Trees
  of 8 records of 6 bytes wrap around to 6 bytes and, without `can_multiply`, would pass
  the other checks in a file of 13 bytes. `ErrnoIsTheCause` breaks if `errno` is saved one
  step too late.
- **decoder** (`MCDecoder.cfg`). All sections of three bytes over 14 control bytes
  of every kind, and longer ones for 4-byte pointers, floats and doubles, whole
  and cut short; offsets inside, at the end and near the modulus (2^30, since TLC's
  integers have 32 bits; the proofs hold for 2^32). `NextIsAhead` says where the caller
  goes on, too: behind the value or the pointer asked for, but in a map or array with its
  first member, which for one found through a pointer is behind the target's head.

- **entries** (`MCEntries.cfg`). All sections of three tokens out of eight (maps of one
  and two entries, an array of two, two strings, a number, pointers to the start and to
  a later offset), which contain cycles, pointers to pointers, maps cut off and keys that
  are no strings; and 17 others for deeper nests, unknown types, bytes, sizes the section
  does not back up, and keys that are maps. Depth limit 4 (512 in the code) is reached by nests and
  by cycles; ten elements are enough for the longest list that can be read within it;
  `LONG_MAX` 99. Twelve paths: none, keys at
  several depths, indices from either end, out of range, with junk, and empty. Checks
  the list against `Preorder` and `Sound`, the lookups against `Selected`, that the pool
  is destroyed on every failure, that the number of elements is bounded by the bytes, but
  for one, when there are no pointers, that the dump goes through the list exactly once and never
  meets NULL, the bound on both recursions, and that every call returns.
- **mmdblookup** (`MCMMDBLookup.cfg`). All combinations of the plain options, with files
  of up to three lines, and benchmarks of up to 5 iterations and three threads. `int`
  has four bits, so that -16 becomes 0, -15 becomes 1, 8 is refused and 3 * 3 and 5 * 2
  overflow. `ExitCodeIsTrue` compares the exit code with the history of faults through
  `CodeOf`, the code that tells of each.
- **file_bytes** (`MCFileBytes.cfg`). Every file of up to seven bytes over three values,
  a marker of two bytes and a block of five: no marker, one, two and three, at the
  start, at the end, cut by the border of the block, before it. Every pair of 24 and of
  28 bit records, pairs at the borders for 32 bits, numbers of up to eight bytes.

Fairness: weak fairness of the steps of a call that has been made — of `MMDB_open` and of
each thread's lookup in search_tree, of the running call in entries, of the loops in
file_bytes. It says that a function that was called runs, which needs no scheduler
beyond the operating system's, since there is no lock and no wait. In mmdblookup it is
assumed of `main` and of each thread; `pthread_join` failing is not fair, so `main` may
have to wait for as long as a thread takes, and `ProgramExits` shows that it is not for
ever. Deadlock is checked in all runs but mmdblookup, where the program ends: a client
can always make another call.

What some of these show is worth spelling out. `ThreadsOutlivedByTheirData` holds only
without a failed `pthread_create` or `pthread_join`; the exception is in the property and
is real in the code (`mmdblookup.c:684-696`). `ExitCodeIsTrue` covers those runs as well:
they never end with 0, and they are the only ones that may end by a signal. For the rest
it says that 0 comes only after an answer was shown or reported and no fault that a code
tells of; that 1 to 6 come only with a fault of that code; and that no fault of another
code has happened then. Two faults have the code 0, because the program keeps them to
itself: a benchmark thread that gave up (`mmdblookup.c:774-783`), and a dump that failed
in a single lookup, whose status is not looked at (547). `ReportIsExact` asks for the
number of lookups; if the product overflows, for that number in the bits of an `int`; if
a thread gave up, for no fewer than were made. Only for a negative number of iterations,
reported as a huge one, it asks for nothing. `PathFindsTheValue` is about values whose maps have strings for
keys (`KeysAreStrings`); what a lookup does in others depends on whether it comes across
the key. That precondition used to look no further than `Preorder` does, which ends at a
pointer that points nowhere. The proof failed there, and TLC confirmed that it was too
weak: in <<3, 4, 32, 200, 225, 225, 65, 97, 160, 160, 160>>, an array of a dangling
pointer, a map whose key is a map and a number, `skip_map_or_array` passes the pointer
without following it, because it only needs to know where it ends, and then counts the
map's members wrong (`maxminddb.c:1366-1399`). `OtherKeys` looks at all keys now.

Four runs state what the documentation or a comment says and end in a
counterexample:

- **exhausted_walk**: when the bits of an address end on a record that is still a
  node, the lookup reports an entry, with an offset that wrapped around below zero
  (`maxminddb.c:1003-1016`). The documentation calls an impossible result
  `MMDB_CORRUPT_SEARCH_TREE_ERROR`. `LookupIsCorrect` holds in spite of this
  because it is about records that left the tree; that exception is visible in it.
- **ipv6_in_ipv4**: the documentation promises `MMDB_SUCCESS` for an IPv6 address
  in an IPv4 database; the code returns
  `MMDB_IPV6_LOOKUP_IN_IPV4_DATABASE_ERROR` (`maxminddb.c:933`).
- **failed_open_leak**: if memory runs out for the first description struct, the
  array of descriptions is not freed (`maxminddb.c:830`, `2006`).
  `FailedOpenFreesAlmostAll` shows that nothing else is ever left.
- **short_section**: the bounds checks for size escapes assume three bytes; the
  comment at `maxminddb.c:320-323` establishes that for the data section, but the
  metadata section may have one or two.

## Proofs

TLAPS proves, for every value of the constants that satisfies the named assumptions
of each module:

- **`DataPoolProofs`** (`PoolAssumption`). The invariant is `TypeOK`, `PoolShape`
  (blocks 0 to `index` are distinct and allocated, each with its recorded size,
  and the current one is not empty once the pool has grown), `TakenInOrder` (the elements handed out are exactly the slots
  of the blocks, in order) and `ListInAllocationOrder`. `TakenInOrder` is what makes
  the list property inductive: the pairs the two loops of `data_pool_to_list` assign
  are the successive pairs of that order. From it: `HandedOutIsOwned`,
  `OwnsItsBlocks`, `NoByteCountWraps` (with `CanMultiplyCorrect`, that `can_multiply`
  is true exactly if the product fits), and the refinement of `EntryArena`.
- **`SearchTreeProofs`** (`TreeAssumption`), of `SafetySpec`. The invariant says that
  the start node, every walk under way and every result lie on the *root path* of
  the address, the sequence of records met from the root. For IPv4 in an IPv6
  database the path's first bits are zero, so the cached start node is on it; that is
  `StartOnPath`, and why jumping there loses nothing. `LookupIsCorrect` and
  `MappedFormsAgree` follow, for any tree, any address length and any number of
  threads. `NodesAgreeWithLookups` takes a second invariant, `NodesAreOfTree`: what a
  thread holds of `MMDB_read_node` is a node of the tree with the types and offsets of
  its records, whatever other threads have done since.
- **`OpenCloseProofs`** (`OpenAssumption`), for any number of languages, descriptions
  and calls. The invariant is what the handle owns by where `MMDB_open` is: `CountInv`
  says that each count is that of the objects copied so far, in the middle of the loops
  too, and `OwnInv` that nothing is owned that is not counted and everything is that
  should be by now. Then what `free_mmdb_struct` frees, which it knows from the counts
  and the pointers alone, is what the handle owns, wherever it was interrupted. The one
  exception is visible in `LeakInv`: the array of descriptions while its count is zero.
  `HeapInv` adds the file descriptor and the list that live in between. `StatusInv` follows
  the cause of the failure from `errno` to the saved copy and back. That an open file has
  the exact size of its tree, although the code computes it in `ssize_t`, is `ProductFits`
  (what `can_multiply` says) with `SizeFits` (a size up to `SSIZE_MAX` is not changed by
  the conversion). All six properties of the run open_close follow.
- **`FileBytesProofs`** (`FileAssumption`), for every file, marker and even base, 16
  being the code's. The search has passed no marker since the end of the last one it
  found (`SearchInv`). That this finds the last one needs the assumption that the first
  byte of the marker does not occur in it again, true of the code's, so that no two
  markers overlap: the search skips a whole marker each time. `NumberInv` says that the
  number `get_uintX` has so far is the written one without the bytes still to come. The
  layouts of nodes are arithmetic in the base, with the byte shared by two 28 bit
  records as quotient and remainder. An even base makes half of its fourth power the
  border between the signs. All four invariants of the run file_bytes follow.
- **`DecodingProofs`** (`SectionAssumption`). Lemmas about the operators of `Decoding`,
  which both of the next build on: where the parts of a value are, that what passes the
  checks is inside the section, what the entry data is afterwards. Then those about
  `Format`. That its recursive functions satisfy their equations is itself a theorem, by
  induction: a value ends behind its head and its members are a level down, so spans are
  ordered by the bytes of the section ahead, for `EndOf`, or by the levels, for the others,
  and then by the number of values. The induction rules of
  the library take an operator as a parameter, which the provers cannot instantiate; a
  least counterexample, which exists in every set of spans that is not empty
  (`WFMin` of `WellFoundedInduction`), does the same. From the equations: a
  span of m + n values ends where n values end that start where m end, a span is sound
  exactly if its parts are, and a span without other keys has none in its parts.
- **`DecoderProofs`** (`SectionAssumption`, `DecoderAssumption`). The type invariant with the facts about
  the last call; `ReadsStayInside` and `NextIsAhead`, which says where the next value
  is and that it is ahead, for every section, offset and
  entry data, and that each size, and each pointer of up to three bytes, has one
  spelling.
- **`EntriesProofs`** (`SectionAssumption`, `PathAssumption`, `ListAssumption`), for
  every section, cyclic and damaged ones included, any path and any depth limit.
  `PathInv` and `ListInv` have the types and the shapes of the two recursions: all calls
  but the innermost wait, each for members or for a pointer's target, and a call that
  decodes is no deeper than the limit. `OwnInv` says who holds the pool at each stage,
  hence `NothingLeaks`. `DumpFollowsList` relates two recursions through data that
  neither of them checks. The link is a debt: every value *owes* its members, and every
  value decoded or printed pays one. While the list is made, what the values so far owe
  is what the calls on the stack have left (`OwedInv`), so a finished list owes nothing
  (`MadeInv`) and, since it paid one at a time, nothing sooner. While it is dumped,
  what the values printed so far owe is what the loops have left (`DumpInv`). So
  the dump is at NULL exactly when its loops are over. A pointer's element owes what
  its target does, which is decoded into it. `BoundInv`, for sections without pointers,
  gives every element a byte of the section of its own: those handed out lie before the
  offset that is decoded next. The exception is one element, allocated for a member
  that turns out to begin at the end; an attempt to prove the bound without that one
  failed, and TLC found <<225, 225, 160, 160>>, where the map inside the map takes up
  the bytes of the value that the outer one's size check counted on. The exception is
  now in `AllocationIsBounded`.
  `ListIsPreorder` and `ListFailsForCause` rest on `ReadInv`. Its core, `OrderInv`, says
  that what is listed so far, followed by what is still to come, is `Preorder` of the root.
  What is to come is known from the stack: every call that waits has a context, that is
  the element it works for, where that value ends and what is listed after it
  (`Expects`), and the context of a call gives that of the one it waits for. A pointer is
  where this is delicate, since its target is decoded into its element and moves
  `offset_to_next` away, which is set back only when the target's members are done; so
  an element's end is stated apart from what the struct says at the moment (`Told`). An
  error means that what is to come starts with an unreadable value, hence that the root
  is not sound; the check of a size against the bytes left is one of these errors because
  every sound value takes up at least one byte.
  `PathFindsTheValue` rests on `LostInv`. Its core, `LookInv`, says where a lookup is
  (`Searching`): at the value that the first elements of the path select, and in the loop
  past a number of members none of which is the one looked for. Every call of
  `skip_map_or_array` will end where its caller goes on (`GetsTo`), although it decodes
  values without following pointers and the caller's struct is the only link between
  them. An error is for cause because everything ahead is readable if the value looked up
  is, with the levels that are left (`Ahead`).
- **`MMDBLookupProofs`** (`LookupAssumption`). The invariant says what main holds by
  where it is (`HeldInv`) and who has a list (`ListsInv`); `ThreadsInv`, that as long
  as no `pthread_create` or `pthread_join` has failed the threads main has joined are
  done and none exists that main will not join, so that none runs past its last join;
  `ModeInv` and `CodeInv`, what the mode and the place say about the code main will
  exit with. Until main knows its code, nothing has failed but what a thread keeps to
  itself; from then on, past the dump (`EndTold`) and `MMDB_close` to `exit`, the code
  tells of what has failed (`Told`). A thread that calls `exit` itself is the
  reason why this has to hold at all times: only its own fault is there to tell of, unless
  main has left threads behind. From it: `TypeOK`, `ThreadsOutlivedByTheirData`,
  `ReleasedOnReturn` and `ExitCodeIsTrue`, for any command lines, any width of int
  and any number of threads. `ReportIsExact` takes a second invariant, `CountInv`: each
  loop's counter keeps step with the history of lookups, and with threads there is a
  function of partial sums, what the first k threads have looked up. Main's own loop of
  joins does the induction: after n joins the n-th sum is n times the iterations if all
  threads got through, and at most that if one gave up. That a product which overflows is
  still the number of lookups modulo 2^w is `TotalsAreSame`.

TLC has checked the parts of these invariants that it can evaluate on the instances of
the runs: all of those of `OpenCloseProofs`, `NodesAreOfTree`, `CallInv`, `SearchInv` and
`NumberInv` of `FileBytesProofs`, `MemInv`, `PathInv`, `OwnInv` and `BoundInv` of
`EntriesProofs`, and both invariants of `MMDBLookupProofs` but for `SumInv`. What it
cannot enumerate are the sequences and functions of partial sums that `OwedInv`,
`MadeInv`, `DumpInv` and `SumInv` say exist, and the contexts and ends of `OrderInv` and
`LookInv`; those are only proved.

The assumptions are on constants only: types, the sizes of the integer types, limits
that are positive, and the marker's shape. TLC evaluates each of them in the runs.

Every safety property of the passing runs is proved. Only model-checked: the liveness
properties (`EveryCallReturns` in both modules, `ProgramExits`, `SearchEnds`), which are
out of the prover's reach, as are the four counterexamples. The proofs use no RECURSIVE
operator; the root path, the weights of bytes and the functions of `Format` are recursive
functions, and sums are stated as functions that satisfy their recurrence, so that a step
of the code is a step of the induction.

## Not modelled, and the plan

Everything that keeps state is modelled, and every safety property of the runs is proved.
What could be added: facts about single calls that the properties only imply, such as
that `MMDB_close` after a close changes nothing.

Left out for good: what is printed; error strings; the Windows variants of `map_file`
and of `main`, which take the steps of the POSIX ones by other calls; the copies made by
`mmdb_strdup` and `mmdb_strndup`, whose failures are modelled; floating point; build
files; and a file that is truncated while it is mapped.
