# A TLA+ model of yubindb

yubindb is a key-value store in the style of LevelDB: a write-ahead log, a
memtable, level-0 tables written by a background thread, a manifest of version
edits, and recovery from the files. These modules model its core from the code
under `src/src`, TLC checks them on small instances (`*.cfg`), and TLAPS proves
their central invariants for every instance.

Paths below are relative to `src/src/`.

## 1. Inventory

| Component (files) | State | Operations | Talks to |
|---|---|---|---|
| Write path (`db/db.cpp`, `db/db.h`) | `mutex`, `writerque`, `Writer::done`, `LastSequence` | `Put`, `Delete`, `Write`, `BuildBatchGroup`, `Writer::wait` | log, memtable, `MakeRoomForwrite` |
| WriteBatch (`db/writebatch.*`) | sequence, count, operations | `Put`, `Delete`, `Append`, `InsertInto` | memtable |
| Rotation and flush (`db/db.cpp`) | `mem_`, `imm_`, `logfilenum`, `background_compaction_`, `bg_error`, `shutting_down_` | `MakeRoomForwrite`, `MaybeCompaction`, `BackgroundCall`, `CompactMemTable`, `WriteLevel0Table`, `DeleteObsoleteFiles`, `~DBImpl` | scheduler, version set, files |
| Scheduler (`util/env.cpp`) | `started_background_thread`, `background_work_queue` | `Schedule` | flush |
| Reads (`db/db.cpp`, `db/version_set.cpp`, `db/memtable.cpp`, `db/cache.cpp`) | local copies of `mem_`, `imm_`, the version | `Get`, `Memtable::Get`, `Version::Get`, `TableCache::Get` | memtables, tables |
| Log format (`db/walog.*`, `db/reader.*`) | `block_offset`; `backing_store_`, `eof_`, `end_of_buffer_offset_` | `Appendrecord`, `Flushphyrecord`, `ReadRecord`, `ReadPhysicalRecord` | `WritableFile`, `ReadFile` |
| Files (`util/env.*`) | `buf_`, `offset`, the file | `Append`, `Flush`, `Sync`, `Close`, `NewWritableFile`, `DeleteFile`, `SetCurrentFile` | the kernel |
| File names (`util/filename.*`) | - | `MakeFileName`, `ParsefileName` | recovery, deletion |
| Versions (`db/version_edit.*`, `db/version_set.*`) | `nowversion`, `versionlist`, `next_file_number`, `log_number`, `manifest_file_number`, manifest | `EncodeTo`, `DecodeFrom`, `Builder`, `LogAndApply`, `WriteSnapshot`, `Recover`, `Finalize` | log format, files |
| Open (`db/db.cpp`) | the directory | `Open`, `NewDB`, `Recover`, `RecoverLogFile` | all of the above |
| Arena, skiplist, memtable (`util/arena.*`, `util/skiplistpg.*`, `db/memtable.*`) | `alloc_ptr_`, `alloc_bytes_remaining_`, `blocks_`, `memory_usage_`, the nodes | `AllocateAligned`, `AllocateFallback`, `Add`, `Get`, `Seek`, `Flushlevel0fromskip` | write path, reads, flush |
| Table building (`db/block.*`, `db/memtable.cpp`, `db/filterblock.*`, `util/bloom.*`, `db/sstable.*`) | data, index and filter block, `offset`, `pending_index_entry`, `state` | `Blockbuilder::Add`, `Finish`, `Tablebuilder::Add`, `Flush`, `WriteBlock`, `Finish`, `BuildTable`, `FilterBlockbuilder` | `WritableFile` |
| Iterators (`db/block.h`, `db/iterator.*`) | `current_`, `restart_index_`, `key_`; `children_`, `direction_` | `Seek`, `SeekToFirst`, `SeekToLast`, `Next`, `Prev`, `NewMergingIterator` | blocks |
| Table reading, caches (`db/sstable.cpp`, `db/iterator.h`, `db/cache.*`) | `cacheList`, `cacheMap` | `Table::Open`, `ReadBlock`, `FindTable`, `Evict` | files |
| Keys and varints (`util/key.*`, `util/common.*`) | - | order of internal keys, encodings | all |
| Major compaction, snapshots | - | written, but nothing calls them | - |

What is hard here:

- *Concurrency.* One mutex is unlocked more often than it is locked.
  `MakeRoomForwrite` adopts it and frees it on return, and `Write` frees it by hand
  as well, so any thread may free it under its holder. What still excludes the
  writers from each other is the queue. Where level 0 is nearly full it frees it once more
  and the process dies of that.
- *Condition variables.* `Writer::wait` locks a mutex that its caller holds and waits without
  a condition for a signal that no leader sends; the background thread runs one work item and
  ends, and touches the database once more after the destructor may have gone on.
- *Order on disk.* Log before memtable, table before edit, fsync before CURRENT,
  edit before deletion. A crash can come between any two of them, and file numbers
  that the manifest has not recorded are given out again after it.
- *Boundaries.* Blocks with less than a header left, failed writes that leave bytes
  in the buffer and short ones that are repeated from its start, torn tails, file numbers whose decimal print is read as octal, a buffer
  that overflows in the middle of an `Append`, the unaligned end of an arena block.
- *Long sequences of calls.* Iterators that turn round at any point, restart points that
  `Prev` has to find again, an index entry that is put off until the next key.

What should make each part correct: writers are served one at a time and no sequence
number is used twice; nothing is visible or acknowledged that the log does not hold;
`Get` answers for its snapshot; an acknowledged write always has a place from which
a restart can rebuild it; the reader of a log returns what was synced and nothing
else; CURRENT always names a usable manifest; the manifest read back is the version
in memory; level 0 is compacted and writes slow down when it grows; no thread waits for ever;
no byte of the arena is handed out twice; the operations of a batch take effect in order; an
iterator shows every entry once and in order; a table that was reported as built is on
disk, and its filters have the keys of its blocks. Where the code does not keep this, the
largest part of it that the code does keep is a property that passes; what is lost is a
property that a run shows violated (section 3), or named under "Known to go wrong" (section 5).

`PROJECT.json` lists every component with its status, and the hazards with their
lines and the properties that are about them.

## 2. Modules

`WriteQueue` is the write path, one action per step of `Write` that another thread
can see. `locked` is a mutex without an owner: `lock` waits, `unlock` frees it
whoever holds it, which is what glibc's mutex does. `pc` says where each client is
inside `Write`; `updates`, `size`, `it`, `last_sequence` are locals; `log` and `mem`
are the records and entries written. `Emplace` splits the push on the deque in two, so
that two of them can overlap; that is undefined behaviour, the deque may then be any of
`RacedDeques`, and the history variable `raced` remembers it. The properties of the
queue are stated up to that point (`~raced`). `Sync` may fail; `unsynced` remembers for which
records of the log it did.

`Flush` is one session: a writer, a reader, the background thread and the destructor.
The writer's steps are prefixed `W`, the reader's `R`, the background thread's `B`,
the destructor's `D`. Memtables have identities, because `Get` keeps a pointer to
one that is then rotated. Building the table and logging the edit can
fail, and so can the log: `buf_` is what its `WritableFile` still holds after a failed write,
`torn` says that a write took a part of it (`Wal` has the bytes), after which a reader finds
nothing that is written behind, `unlogged` collects what was lost so, or with the
`WritableFile` of the old log at a rotation. `unsynced` collects the records whose `Sync` failed,
which `Write` leaves out of the memtable and acknowledges; whether a call asks for
`Sync` is left open. The level-0 tables that `Open` made from the logs count for the slowdown
branch of `MakeRoomForwrite` and in `VersionGet`; their files are left out. The branch behind it, for
`kL0_StopWrites` tables, needs more of them than the slowdown branch, which comes first
and does not return. The end of `BackgroundCall` is four steps (`BFinish`, `BAgain`,
`BNotify`, `BUnlock`), and `BUseAfterFree` is what may become of the last three when the destructor has
come between. A read of a table always ends in an error at this commit
(`TableOpen`: `ReadBlock` fails), so that `Get` says nothing about flushed keys. The
queue of `Write` is left out, since there is one writer.

`Wal` is one log file. Bytes are positions: a frame is its place, its length and the
piece of the record it carries. The writer's loop (`Padding`, `Fragment`, `FrameType`),
the buffer of `WritableFile` (`alen` bytes appended, the last `buf` of them not yet written,
`flen` the length of the file, `file` the frames that lie in it, `synced` what fsync covered), writes that fail or
take a part and are repeated from the start of the buffer (`WriteShort`; `torn` remembers it), a
crash that keeps any length between `synced` and `flen` (or all of it, when only the
process dies), and the reader, block by block.

`Recovery` is the set of files over several lives of the process: `Open` with all it
calls, writes, one flush per session, and `Stop` (the process ends) or `PowerLoss` (each
file keeps any prefix that covers its synced part) between any two file operations.
`replay` is the set of logs that recovery still has to read, the lowest number first.
File numbers go through `FileNames`, which models the print with `%06llu` and the
parse with `strtoull` in base 0.

`Versions` is the version set in detail: edits encoded field by field and decoded,
`Builder::Apply` and `SaveTo` as the merge the code performs, `LogAndApply` with its
failures, `Recover`, `Finalize`. The loops of `DecodeFrom`, `SaveTo` and `Recover` are recursive functions of
the number of turns they have taken or have left. `Recovery` takes a version for a set of tables;
here it is the ordered list, and the manifest is what `EncodeTo` wrote.

`Memtable` is the arena, the skiplist and `Memtable::Get`. An address is a block and an
offset; `allocs` records what was handed out. `Add` is one action, since one leader at a
time inserts (`SingleLeader`); all that is added before the next `SetLastSequence` is one
batch and has one sequence number, as in `InsertInto`. A reader fixes its snapshot (`GetBegin`), seeks (`GetSeek`)
and returns while entries are added. The skiplist is an external library and stands for
the set of its nodes in the order of `cmp`.

`Block` defines `Blockbuilder` (restart points, shared prefixes) and `Block::Iter`
(binary search over the restarts, `Prev` through `restart_index_`) as operators on records;
its loops are recursive functions (`ParseTo`, `ParseToKey`, `Bisect` of `Halve`).
`Merge` extends both: `Flushlevel0fromskip` turns memtables into blocks, and
`NewMergingIterator` and the calls on its result are actions, with the cached `valid_`
and `key_` of each `IteratorWrapper`. `Cursor` is the abstract specification of `Iterator`: a
position in a list. `Merge` implements it under the mapping `Position` (the place
of the entry that `key()` and `value()` show); `call` ties each step to the
operation it has to implement.

`WritableFile` is `buf_` with the kernel behind it, as operators that return every outcome:
`Append` over the end of the buffer, writes that fail or take a part, `Sync`, `Close`.
What undefined behaviour leaves in the file is `Anything`, and `lost` records that
it happened. `FilterBlock` is the filter builder and the Bloom
filter, over a hash that is a constant. `Table` composes `Block`, `WritableFile` and
`FilterBlock` to `Tablebuilder` and `BuildTable`.

`WriteQueueProofs`, `FlushProofs`, `WalProofs`, `RecoveryProofs`, `MemtableProofs`,
`TableProofs` and `VersionsProofs` hold the theorems about the module of that name, `NumberLemmas` what they share
about numbers and recursive functions, and what `FileNames` computes. The `MC*` modules hold the
values of constants that a `.cfg` cannot express. Definitions that are used only to show that a
property can fail are marked `Mutant:` and stand before the definition they vary.

## 3. Runs

| Run | Instance | Shows |
|---|---|---|
| `write_queue` | 2 writers, 2 calls each, batches of one and two operations, 1.1 million states | `SingleLeader`, `LogOrdered`, `WriteAhead`, `ReturnedLogged`, `AtomicVisibility` hold |
| `write_queue_hang` | same, with fairness | `EveryWriteReturns` fails: a writer that is not in front waits for a mutex it holds itself, and no leader signals it |
| `flush` | 3 writes over 2 keys, rotation after each, 1 `Get`, first log 3, at most one failed `Sync`, level 0 empty or with two tables from `Open`, slowdown at 2, 3.1 million states | `AckedDurable`, `GetExact`, `CloseWaits` hold |
| `flush_octal` | first log 7 | `AckedDurable` fails: file 8 is read as 0 and deleted |
| `wal` | blocks of 7, headers of 2, buffer of 17, 3 records of 1, 3 or 9 bytes, short writes of 2 or 3, fairness of the reader, 1.1 million states | `FramesInBlocks`, `ReadsPrefix`, `SyncedRead`, `ReaderEnds` hold |
| `wal_whole` | same | `RecordsWhole` fails: a record over a block boundary comes back in pieces |
| `recovery` | 3 opens, 4 writes, 528 thousand states | `CurrentComplete`, `TablesPresent`, `LogRetired` hold |
| `recovery_reopen` | 2 opens, 1 write | `ReopenKeeps` fails: a synced write is gone after a reopen |
| `versions` | 3 opens, 2 keys, 2 replayed tables, 66 thousand states | `VersionExact`, `ReplayAgrees`, `EditLogKnown` hold |
| `merge` | 2 keys, 4 entries, up to 3 blocks, arena blocks of 48, 329 thousand states | `AllocationsDisjoint`, `AllocationsAligned`, `WasteBounded`, `GetNewest`, and the refinement `IteratorIsCursor` hold |
| `table` | up to 4 keys, values of 1, 40 and 90, buffer of 32, 344 thousand states | `BuiltWhole`, `FilterHolds` hold |
| `table_index` | same | `IndexComplete` fails: the index block stays empty |

The runs that fail are disagreements between the code and what its comments, README or
tests say; `findings` in `PROJECT.json` quotes both. Each passing property has a
mutant, a plausible slip in the code that makes TLC find it violated.

Bounds. Two writers are enough for every pairwise interleaving in the queue, and two
calls each let a writer come back while the other is still inside; group commit needs
one follower. Three writes with `WriteBuffer = 0` are two rotations: one flush that runs
and one that does not; one of the writes is a deletion of a key that another one puts. In the sessions
that begin with two tables from `Open` the first write meets the slowdown branch, and `Get` the tables. One failed
`Sync` is enough: a further one only leaves out a further record. Blocks of seven bytes
and records of 1, 3 and 9 leave less than a header, exactly one and more
of a block, or nothing, and 9 spans two blocks;
the buffer is a little more than two blocks (64 KiB and 32 KiB in the code, where it is just two), so that
more than one failed write finds room. One `Flush` of each log takes a short
write, since a second one shows nothing new, of a length that ends with a header, inside a fragment or with a whole frame. In `Recovery` three opens
are a crash in an `Open` that follows a crash in an `Open`; four writes with
`WriteBuffer = 1` are enough for a rotation and a flush in one session and for replay
that writes a table. In `Versions` two keys make tables that overlap and that tie. In `Merge` an
entry with a value needs a block of its own and a deletion a part of one, so that
requests are served in all three ways; one key is a prefix of the other, a restart interval of 2
makes blocks of one and of two restarts, and three blocks leave two children to turn
round. In `Table` a value of 1 fits into the buffer, 40 runs over it, 90 is flushed past it and its
block skips ranges of the filter; one write of a file may take a part, of length 1 or
5. `BufferRoom` in `Wal` is a bound too: a write fails only while `buf_` still has room
for a padding and a block; the overflow is checked in `Table`. A batch of `Memtable` has no two
operations of one type on a key: they would be nodes that compare equal, and which one comes first
is the external skiplist's.
`CHECK_DEADLOCK FALSE` is set in all runs: clients may stop calling, and the bounds end
every behaviour.

Fairness. `FairSpec` of `Wal` (`wal`, for `ReaderEnds`) has weak fairness of the reader's loop:
`Open` calls it and does not return before it ends. `FairSpec` of `WriteQueue`
(`write_queue_hang`) has weak fairness of each client's own steps: the operating system runs
a thread that can run. A thread that sleeps on a condition variable is enabled only
once it was signalled, and no thread is made to call. About `Flush` nothing is claimed that
needs fairness: with a second writer the mutex may be held for ever (`write_queue_hang`), and the second flush is never
run, so that neither `Get` nor a writer nor the destructor is certain to end in this code.
`ReaderEnds` excepts one outcome of undefined behaviour, see section 5.

## 4. Proofs

The theorems hold for every value of the constants that satisfies the named
assumptions next to them; those that need a condition of their own state it as `ASSUME`. TLC
checks the same properties in the runs, and the inductive invariants of `Flush`, `Recovery`
and `Versions` and the layout invariant of `Table` were checked by it on instances of the runs' size
or smaller before they were proved.

`WriteQueueProofs` (assumes `WritersAssumption`, `BatchesAssumption`, `BoundsAssumption`):

- `TypeCorrect`: `Spec => []TypeOK`.
- `OneLeader`: `Spec => []SingleLeader`. `SingleLeader` is not inductive, since a second
  leader could come from the queue; the strengthening `LeaderInFront` says that a
  leader is the front of the deque until it pops itself. No fact about the mutex is used, and
  none could be.
- `SequencesOrdered`: `Spec => []LogOrdered`, with `SequenceInv`: between building the
  group and storing `LastSequence` the leader's range is the one right after
  `LastSequence`, and a record beyond it belongs to a leader that is not finished.
  Needs `LeaderInFront`.
- `LogWrittenAhead`: `Spec => []WriteAhead`, with `LoggedInv`: between the append and the insert
  the leader's batch is in the log. Holds even after a race on the deque.
- `VisibleAtOnce`: `Spec => []AtomicVisibility`, with `VisibleInv`: every record of the log is whole in
  the memtable, or its `Sync` failed, or it is the last one and its leader is on the way there. By
  `SequenceInv` a record on the way lies above `LastSequence`, where no reader looks.
- `ReturnsLogged`: `Spec => []ReturnedLogged`, with `QueueInv` (who is in the deque has not
  returned), `OwnInv` (a waiting batch holds operations of the present call only) and `ReturnInv`
  (what a finished call wrote is in the log). A leader that groups others marks them done, so the
  argument is about batches of clients that take no step.

`FlushProofs` (assumes `KeysAssumption`, `ScriptAssumption`, `OpenedAssumption`, `BoundsAssumption`):

- `FlushTypeCorrect`: `Spec => []TypeOK`, with `RotationInv` (there is a memtable left for each
  rotation that can come) and `BuildInv`.
- `CloseWaitsHolds`: `Spec => []CloseWaits`. `CloseInv` ties the background thread's place to
  `background_compaction_`: until `BFinish` clears it the destructor waits, and when `BAgain` sets it
  again no thread is behind it. What may still run when the destructor goes on is `MaybeCompaction`,
  `notify_all` and the unlock, on a database that may be freed; the property says that there is nothing more.
- `GetExactHolds`: `Spec => []GetExact` (of the writes that were inserted: those whose `Sync` failed are not), with `GetInv`:
  what memtables hold is acknowledged or in
  flight and ordered by sequence from memtable to memtable (`ContentInv`), a flushed memtable is the first
  and its table is built before `imm_` is let go (`FlushInv`), and the reader's copies of
  `mem_`, `imm_` and the version together hold all that its snapshot covers (`ReaderInv`).
- `AckedDurableHolds`: `Spec => []AckedDurable` assuming `NumbersReadBack`, that the numbers of the session
  are read from file names as they were printed. `WhenNumbersReadBack` shows that this is so
  exactly if they stay below 8; `flush_octal` shows what happens when not. `NumberInv` keeps
  the numbers of logs, tables and the edit apart, `DurableInv` says which file holds each memtable. A record
  that the log lost is covered by its memtable until that is flushed and by the table from then on;
  one whose `Sync` failed is in no memtable and is excepted.

`WalProofs` (assumes `BlockAssumption`, `BufferAssumption`, `RecordAssumption`):

The three properties speak of files of which no write took a part (`~torn`); failed writes, any number
of them while `BufferRoom` lasts, are covered. The condition is needed: `Flush` repeats the whole buffer
after a write that took a part of it, so that frames lie in the file twice or broken.

- `WalTypeCorrect`, `FramesWithinBlocks`: with `LoopInv`, which ties what is left of a
  record and the room in the block and in the buffer to the place in the loop. The lemmas
  `BlockStartZero`, `BlockStartNext`, `BlockStartsApart` are the arithmetic of blocks.
- `ReadsBackPrefix`: `Spec => []ReadsPrefix`, with `FramesOrdered` (frames follow one another
  in the file) and `ReaderPlace` (no undelivered frame lies before the reader's position, and the
  reader is at a block's start whenever it fills its buffer).
- `SyncedReadBack`: `Spec => []SyncedRead`, that the reader does not stop early either. Here order is
  not enough: `FramesAdjacent` says that a gap between frames is always too short for a header
  and ends a block, `ReaderBuffer` that the reader's buffer is a part of one block and the next
  frame follows from where it stands.

`RecoveryProofs` (assumes `BoundsAssumption`; any number of lives of the process):

- `RecoveryInductive`: `Spec => []RecoveryInv`, preserved by every step, `Stop` and `PowerLoss`
  included, and from it `RecoveryTypeCorrect`, `CurrentCompleteHolds`
  (`[]CurrentComplete`) and `TablesPresentHolds` (`[]TablesPresent`).
- `LogRetiredHolds`: `Spec => LogRetired`, an action property: no step deletes or truncates a log
  with synced records before an edit on disk lets recovery pass over it.
- The properties concern what is on disk, but whether a step preserves them depends on
  numbers: a file is overwritten when its number is given out again. Hence `FileInv` (the edits of
  a manifest count up, from above the manifest's own number), `OpeningInv` and `WrittenInv` (the
  manifest an `Open` writes has a number above the one CURRENT names, and holds the one edit),
  `SessionInv` (what the manifest's last durable edit says of `log_number`, of the log in use and of
  the numbers given out since), `LogInv` (no synced log has a number that a later `Open` could
  give out), `LiveInv` and `ObsoleteInv` (what `DeleteObsoleteFiles` lists is
  used by no version and no replay, under the numbers it parses), `EditTables` and `NewDBEmpty`.
  No condition on the size of numbers is needed: by `ReadBack` a name is never read as a larger number.

`MemtableProofs` (assumes `ArenaAssumption`, `SizeAssumption`, `EntryAssumption`, and for the iterators
`UserKeyAssumption`: keys are numbered in the order of their characters; about `SpecM`, the memtables
of `Merge` from one to the next and the iterator over their blocks):

- `NoOverlap`: `SpecM => []AllocationsDisjoint` and `AlwaysAligned`:
  `SpecM => []AllocationsAligned`, for any block size, keys and values. Disjointness is not
  inductive: `ArenaInv` adds that the rest of the block in use lies between `alloc_ptr_` and the block's end
  (`RestBehind`) and that all that was handed out of it lies before `alloc_ptr_`
  (`HandedOutBefore`). `RestPreserves` and `NewBlockPreserves` are the two ways a request
  is served, `SlopAligns` is the arithmetic of the slop.
- `LittleWasted`: `SpecM => []WasteBounded`; `EndMarked` follows each block from the last
  allocation in it.
- `MemtableTypeCorrect`, and `GetsNewest`: `SpecM => []GetNewest`. `TableHeld` says that the nodes are
  the entries added since the memtable was made; `SeekNewest` shows that the first node from the
  lookup key on, in the order of `cmp`, belongs to the newest batch up to the snapshot, by the arithmetic of tags.
  It need not be the last operation of the batch (section 5).
- `MergeImplementsCursor`: `SpecM => IteratorIsCursor`, the refinement of `Cursor`, for any number of blocks,
  keys, entries and any restart interval. The proof has four layers:
  - a block: `Holds(b, list)` says that a block stores a list (where its entries lie, how they spell their keys,
    what the restart points point at); `BlockAddBuilding` and `BlockOfHolds` show it of the block of a memtable;
  - `Block::Iter` on such a block: `AtEntry` includes what `restart_index_` has to be for `Prev` to find its
    way back. `LoopStops` says where a parsing loop ends, `SeekToFirstAt`, `SeekToLastAt`, `SeekAt`, `NextAt` and
    `PrevAt` what the operations do (for the bisection only that it stays at or before the
    target, since `Seek` parses on from there);
  - the merge: `Dealt(list, bs, P)` deals the places of the sorted list out to the blocks, after which only
    numbers are compared. `Tracking` is the invariant of the iterator: the current child shows the k-th entry,
    and every other child its first entry behind it when the direction is forward, its last
    one before it when it is reverse. `ChoiceShows` is what `FindSmallest` and `FindLargest` choose,
    `TurnedForward` and `TurnedBackward` what a change of direction does to the children, among them
    those that have run off their ends;
  - the refinement: `IterInv` says before the iterator is made that the blocks hold each entry that was added
    exactly once (`Shelf`), and afterwards `Tracking`; `IterStep` shows that each step is one of the cursor or leaves it alone.

`TableProofs` (assumes `TableAssumption`, `FilterAssumption`, `FileAssumption`,
`RestartAssumption`, and `CompressedLengths`: what snappy returns has a length):

- `TableInductive`, `TableTypeCorrect`: `Spec => []TypeOK`.
- `FilterAlwaysHolds`: `Spec => []FilterHolds`, about the builder; a lookup
  does not profit from it (section 5). A filter is made long after the blocks it speaks
  for, so that the invariant is about keys that wait: `Building` says that there are filters for exactly
  the ranges before the one in which the next block begins, and that the keys of the open block
  are among those that wait for a filter; `Known` that a key is in the filter of its block's range
  or waits for it. `CreateKeeps` and `StartKeeps` show that no filter made later spoils it,
  `BlockAddSpells` that the prefix-compressed entries of a block spell the keys that were
  added, `FlushType` and `AppendType` what each outcome of a write leaves.
- `BuiltWholeHolds`: `Spec => []BuiltWhole`, an equivalence, so that both directions have to survive
  every later step. `LayoutInv` says of the bytes on disk followed by those in the buffer: while nothing is lost,
  the blocks cover them up to `offset` and each lies at its handle (`Laid`), and after the footer is
  appended it is the end (`LaidOpen`, `LaidClosed`); once bytes are lost, some byte is in the
  file twice or missing for ever (`Sent`), because every `Append` sends bytes that no other one sends.
  `FlushSends` and `AppendSends` show this for each outcome of a write, `BlockSends` and
  `RawLaid` for a block, `WholePlaces` ties it to the property.

`VersionsProofs` (assumes `LevelsAssumption`; any number of opens, edits and tables, and failures between the
steps of `LogAndApply`):

- `VersionsInductive`: `Spec => []VersionsInv`, and from it `VersionsTypeCorrect`, `VersionAlwaysExact`
  (`[]VersionExact`), `ReplayAlwaysAgrees` (`[]ReplayAgrees`) and `EditLogAlwaysKnown`
  (`[]EditLogKnown`).
- `VersionsInv` relates memory and disk. `NumbersInv`: no table of the session has a number that
  can still be given out; since `BySmallestKey` decides ties by number, it is then a total order on the
  tables, and `SaveTo`'s result is unique. `EditInv`: what an edit under way holds in each phase of an open,
  of a rotation and of a flush, and that its log number lies where `LogAndApply` asserts it.
  `ManifestInv`: what the manifest that CURRENT names gives back in each phase of `LogAndApply`, before
  and after the edit is written and installed.
- Three lemmas say what the loops compute. `SaveLevelSaves`: each turn of `SaveTo`'s merge keeps the
  part already saved in order and before all that is left, so that the result is every table
  once and in order. `DecodeEncode`: `DecodeFrom` reads back the edit that
  `EncodeTo` wrote. `ReplayedGives`: reading a manifest with one `Builder` gives the tables of all
  its edits and the numbers of the last. `OrderUnique` and `ListsUnique` make the replayed version
  equal to the one in memory, which was merged edit by edit.

`NumberLemmas`: `ReadBack` says for every number what `ParsefileName` makes of the name that
`MakeFileName` prints: never a larger number, and the same exactly below 8 and from 100000 on.

Induction over data. The library's induction theorems are out of the provers' reach, but a set of naturals
has a least element (`LeastNat`, from well-foundedness of `<`), and that is enough: a
recursive function is shown to exist, and to have a property at every argument, by its smallest
counterexample (`RecursionByTens`, `RecursionUp`, `CountUp`, `SpelledOnce`, `StartKeeps`, `SaveLevelSaves`,
`LoopStops`, `BisectEnds`, `BlockOfHolds`).

Only model-checked: the counterexamples, and `ReaderEnds`, since liveness is out of the prover's reach. All other
properties of the passing runs are stated by a theorem.

## 5. Not modelled

- Errors of file operations in `Open` before `LogAndApply`.
- Durability of directory entries: creation, rename and deletion are taken to reach the
  disk in order. `Sync` opens and syncs the directory of every file but a manifest
  (`Ismanifest` returns what `compare` returns, which is 0 for a manifest); when that fails
  it does so before `Flush`, which the models have among the failures of `Sync`.
- `Reader::SkipToInitialBlock`: no caller passes an offset. Errors of `ReadFile::Read`.
- More than one short write for each file. The files of the tables that `Open` found, in `Flush`.
- Major compaction: not reached, since level 0 is never scored. Hence edits with deletions
  or compact pointers do not occur, and levels above 0 are empty.
- Snapshots: private and without callers.
- Reading tables: `ReadBlock` answers `Corruption` for every block that `WriteBlock` writes,
  so that `Table::Open` never succeeds, and the two-level iterator never sets its data
  iterator. `Flush` models the outcome. `FilterBlockReader` is left out as well: its constructor looks for
  the offsets at the end of the bytes that it is given, but on a block that is not compressed `ReadBlock` leaves the
  trailer of five bytes behind them. For the same reason `LruCache` never gets an entry (and
  `Insert` takes its branches the wrong way round, so that it would dereference `end()`).
- `Arena::Allocate`, `Memtable::Flushlevel0`, `BackgroundThreadMain`: no callers.
- The bytes of varints, checksums and snappy: lengths only. `SkiplistKey::Val` sizes its result by
  `val_size` and copies the length prefix and the value into it; values are identified by
  their length here, and what this does to their last bytes is left out.
- The skiplist is an external library, taken for a set ordered by key; the file lock and logging
  are the kernel's and spdlog's.
- Known to go wrong, in the models or beside them, and not the subject of a run:
  - `Write` acknowledges a record whose `Sync` failed, does not insert it and advances `LastSequence` over it
    (`WAppend` of `Flush`, `SyncLog` of `WriteQueue`; the properties except such records by name).
  - The second flush of a session is scheduled and never run (`Schedule` of `Flush`): a writer with a full memtable and the
    destructor then wait for ever.
  - Where level 0 has `kL0_SlowdownWrites` tables a writer does not slow down but dies of a second unlock (`WSlowdown`, `WThrows`).
  - After a short write `Flush` repeats the whole buffer and may return Ok, and the reader does not find what
    was synced behind it (`WriteShort` of `Wal`; hence the condition `~torn`).
  - When a read at the end of a log finds nothing, `ReadPhysicalRecord` ends without a return value; if that happens to be
    `kFullType` the scan goes on for ever (`FillNothing` of `Wal`; `ReaderEnds` excepts it).
  - Level 0 is never scored: `NeedsCompaction` stays false however many tables it has (`Finalize` of `Versions`).
  - A batch that puts a key and then deletes it leaves the value, since both have one sequence number and a value
    sorts first (`Add` of `Memtable`; hence "an operation of the newest batch" in `GetNewest`).
  - A filter is built from whole internal keys and asked with the lookup key, whose tag is that of the snapshot, so that
    it denies keys that its block has (`FilterHolds` is about what was added).
- Other behaviours that the models have and no run is about: the last lines of `BackgroundCall` on a database
  that the destructor has let go of (`BUseAfterFree`), and a `shared_ptr` that is copied while it is assigned to
  (`RTornCopy`); a batch that a
  leader merged is written again by its own writer; two threads can be inside
  `emplace_back` of the writer queue. `raced` marks the latter from the moment two writers stand
  before that call, a little more than the calls that overlap.
- `Recovery` lists logs as a set of parsed numbers: two names that parse alike
  occur only for numbers below `log_number` within the bounds.

## 6. Plan

Done, in this order: `WriteQueue`, `Flush`, `Wal`, `Recovery`, `Versions`, `Memtable`, `Block` and
`Merge` with the refinement to `Cursor`, `WritableFile`, `FilterBlock` and `Table`; proofs
about all of them, the refinement included.

Next: an abstract key-value store that `Flush` implements up to the error answers of tables;
`Recovery` as an implementation of a durable set of writes, up to `ReopenKeeps`.
