---------------------------- MODULE DurableStore ----------------------------
(***************************************************************************)
(* The pluggable store of gm-store: column families of keys and values     *)
(* behind one trait, with a volatile backend (MemoryStore, and SharedStore *)
(* which is the same data behind a lock), a file backend (an in-memory     *)
(* mirror that serves the reads, and one file per key) and RocksDB.        *)
(*                                                                         *)
(* A store is what the process reads (`resident`) and what a restart finds *)
(* (`disk`).  A write returns `Err` when the backend could not persist it: *)
(* by then the file backend has changed its mirror, RocksDB nothing.       *)
(***************************************************************************)
EXTENDS Integers, Sequences, SequencesExt

Backends == {"memory", "file", "rocks"}

NoFamilies == [AUDIT_LOG |-> <<>>, AGENT_MEMORY |-> <<>>]

Fresh(backend) ==
  [backend |-> backend, resident |-> NoFamilies, disk |-> NoFamilies]

-----------------------------------------------------------------------------
(* Writes: the outcomes of a change, which is to one key of one family and *)
(* leaves it with the entry `as`, or with none.                            *)

Changed(families, change) ==
  [families EXCEPT ![change.cf] =
     [k \in (DOMAIN @ \ {change.key}) \cup DOMAIN change.as |->
        IF k = change.key THEN change.as[k] ELSE @[k]]]

Resident(s, change)   == [s EXCEPT !.resident = Changed(@, change)]
Persistent(s, change) == [Resident(s, change) EXCEPT !.disk = Changed(@, change)]

MemoryStoreWrites(s, change) == { [store |-> Resident(s, change), ok |-> TRUE] }

\* The mirror first, then a temporary file renamed into place (or the removal).
FileStoreWrites(s, change) ==
  { [store |-> Persistent(s, change), ok |-> TRUE],
    [store |-> Resident(s, change), ok |-> FALSE] }

RocksStoreWrites(s, change) ==
  { [store |-> Persistent(s, change), ok |-> TRUE],
    [store |-> s, ok |-> FALSE] }

Writes(s, change) ==
  CASE s.backend = "memory" -> MemoryStoreWrites(s, change)
    [] s.backend = "file"   -> FileStoreWrites(s, change)
    [] s.backend = "rocks"  -> RocksStoreWrites(s, change)

put(s, cf, key, value) == Writes(s, [cf |-> cf, key |-> key, as |-> [k \in {key} |-> value]])

delete(s, cf, key) == Writes(s, [cf |-> cf, key |-> key, as |-> <<>>])

\* FileStore::open and RocksStore::open: the process starts from the disk.
open(s) == [s EXCEPT !.resident = s.disk]

-----------------------------------------------------------------------------
(* Reads.  The keys of AUDIT_LOG are zero-padded numbers, so its key order  *)
(* is numeric; nothing here depends on the order of AGENT_MEMORY.           *)

Start == -1    \* the cursor before every key (`after = None`)

get(s, cf, key, absent) ==
  IF key \in DOMAIN s.resident[cf] THEN s.resident[cf][key] ELSE absent

count(s, cf) == Cardinality(DOMAIN s.resident[cf])

Ordered(s, cf, keys) ==
  LET numbers == [i \in 1..Max(keys \cup {Start}) + 1 |-> i - 1]
      inOrder == SelectSeq(numbers, LAMBDA k : k \in keys)
  IN  [i \in DOMAIN inOrder |-> <<inOrder[i], s.resident[cf][inOrder[i]]>>]

scan(s, cf) == Ordered(s, cf, DOMAIN s.resident[cf])

scan_paged(s, cf, after, limit) ==
  LET beyond == Ordered(s, cf, {k \in DOMAIN s.resident[cf] : k > after})
  IN  SubSeq(beyond, 1, IF limit < Len(beyond) THEN limit ELSE Len(beyond))

\* A short page is the last one.
IsLastPage(page, page_size) == Len(page) < page_size

\* The entries `stream` yields: page after page, from the last key of one to
\* the next; a page size of 0 counts as 1.
stream(s, cf, page_size) ==
  LET size == IF page_size < 1 THEN 1 ELSE page_size
      rest[after \in {Start} \cup DOMAIN s.resident[cf]] ==
        LET page == scan_paged(s, cf, after, size)
        IN  IF IsLastPage(page, size) THEN page ELSE page \o rest[Last(page)[1]]
  IN  rest[Start]
=============================================================================
