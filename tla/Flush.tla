------------------------------- MODULE Flush -------------------------------
(***************************************************************************)
(* One session of an open DBImpl: a client thread that writes, one that    *)
(* reads, the background thread that flushes the immutable memtable to a   *)
(* level-0 table, and the destructor.  DBImpl::MakeRoomForwrite,           *)
(* MaybeCompaction, PosixEnv::Schedule, BackgroundCall, CompactMemTable,   *)
(* VersionSet::LogAndApply, DeleteObsoleteFiles, Get and ~DBImpl.          *)
(*                                                                         *)
(* The mutex has no owner (see WriteQueue): the writer's extra unlocks     *)
(* free it under whoever holds it, so every critical section is cut into   *)
(* steps that other threads may interleave with.                           *)
(*                                                                         *)
(* With one writer the queue of Write is never contended and is left out.  *)
(* Files of level 1 and up do not occur: nothing ever moves a table there, *)
(* Finalize does not score level 0, and so NeedsCompaction is FALSE.       *)
(* Of the level-0 tables that Open found only the number and the key       *)
(* ranges matter; their files are left out.                                *)
(***************************************************************************)
EXTENDS Integers, FiniteSets, Sequences, FileNames

CONSTANTS Keys,         \* user keys, a set of integers
          WriteBuffer,  \* options.write_buffer_size, in entries
          FirstLog,     \* the log number Open gave the session
          Openings,     \* what level 0 may be after Open, see opened
          kL0_SlowdownWrites,
          Script,       \* bound: the operations the i-th call of Write may carry
          MaxUnsynced,  \* bound: calls of Sync that fail
          MaxGets       \* bound: calls of Get

Op == [key : Keys, del : BOOLEAN]   \* a Put, or a Delete

ASSUME KeysAssumption   == Keys \subseteq Int /\ Keys # {}
ASSUME ScriptAssumption == Script \in Seq(SUBSET Op)
ASSUME OpenedAssumption == Openings \subseteq Seq(SUBSET Keys) /\ kL0_SlowdownWrites \in Nat
ASSUME BoundsAssumption == WriteBuffer \in Nat /\ FirstLog \in Nat \ {0}
                           /\ MaxUnsynced \in Nat /\ MaxGets \in Nat

Entry == [key : Keys, seq : Nat, del : BOOLEAN]
NoTable == 0     \* nullptr for a memtable
Tables == 1..(Len(Script) + 1)

VARIABLES
  locked,               \* the mutex
  mem_, imm_,           \* memtables, by identity
  content,              \* the entries of each memtable
  LastSequence,         \* VersionSet::last_sequence
  logfilenum,           \* the log that Write appends to
  next_file_number,     \* VersionSet's counter
  log_number,           \* VersionSet::log_number
  nowversion,           \* the level-0 tables of the current version
  live,                 \* the tables of all versions of versionlist
  opened,               \* the keys of each level-0 table that Open found
  background_compaction_, shutting_down_, bg_error, started_background_thread,
  logs, tables,         \* the files on disk: number -> the entries read back from it
  buf_, torn,           \* the open log: its WritableFile's buffer; a write took a part
  manifest,             \* what the manifest on disk says
  wpc, entry, writes,   \* the writer: pc, what it writes, calls
  rpc, key, snapshot, mem, imm, current, result, gets,  \* the reader
  bpc, meta, edit, ok, obsolete,  \* the background thread
  dpc,                  \* the destructor
  acked,                \* entries whose Write returned Ok (history)
  unlogged,             \* entries that left buf_ for no place a reader finds (history)
  unsynced              \* entries whose Sync failed, so that they were not inserted (history)

memVars  == <<mem_, imm_, content>>
verVars  == <<next_file_number, log_number, nowversion, live, opened>>
bgFlags  == <<background_compaction_, shutting_down_, bg_error, started_background_thread>>
diskVars == <<logs, tables, manifest>>
logVars  == <<buf_, torn, unlogged>>
wVars    == <<wpc, entry, writes, acked, unsynced>>
rVars    == <<rpc, key, snapshot, mem, imm, current, result, gets>>
bgLocals == <<meta, edit, ok, obsolete>>
bVars    == <<bpc, bgLocals>>
dbVars   == <<memVars, LastSequence, logfilenum, verVars, bgFlags, diskVars, logVars>>
vars     == <<locked, dbVars, wVars, rVars, bVars, dpc>>

NoKey == CHOOSE k \in Keys : TRUE   \* between the calls
NoResult == [kind |-> "none", seq |-> 0]

TypeOK ==
  /\ locked \in BOOLEAN
  /\ mem_ \in Tables /\ imm_ \in Tables \cup {NoTable}
  /\ content \in [Tables -> SUBSET Entry]
  /\ LastSequence \in Nat
  /\ logfilenum \in Nat /\ next_file_number \in Nat /\ log_number \in Nat
  /\ nowversion \subseteq Nat /\ live \subseteq Nat /\ opened \in Openings
  /\ background_compaction_ \in BOOLEAN /\ shutting_down_ \in BOOLEAN
  /\ bg_error \in BOOLEAN /\ started_background_thread \in BOOLEAN
  /\ DOMAIN logs \subseteq Nat /\ \A n \in DOMAIN logs : logs[n] \subseteq Entry
  /\ DOMAIN tables \subseteq Nat /\ \A n \in DOMAIN tables : tables[n] \subseteq Entry
  /\ manifest \in [log : Nat, tables : SUBSET Nat]
  /\ buf_ \subseteq Entry /\ torn \in BOOLEAN /\ unlogged \subseteq Entry
  /\ wpc \in {"idle", "lock", "room", "slow", "towait", "wait", "wake", "unlock", "append",
              "sync", "insert", "relock", "finish", "dead"}
  /\ entry \in Entry /\ writes \in Nat
  /\ acked \subseteq Entry /\ unsynced \subseteq Entry
  /\ rpc \in {"idle", "lock", "snapshot", "mem", "imm", "current", "search", "relock",
              "finish", "dead"}
  /\ key \in Keys /\ snapshot \in Nat
  /\ mem \in Tables \cup {NoTable} /\ imm \in Tables \cup {NoTable}
  /\ current \subseteq Nat /\ gets \in Nat
  /\ result \in [kind : {"none", "value", "notfound", "error"}, seq : Nat]
  /\ bpc \in {"none", "lock", "start", "build", "built", "apply", "log", "logged",
              "install", "reset", "list", "delete", "deleted", "finish", "again", "notify",
              "unlock", "done", "dead"}
  /\ meta \in Nat /\ edit \in Nat /\ ok \in BOOLEAN /\ obsolete \subseteq Nat
  /\ dpc \in {"none", "check", "towait", "wait", "wake", "closed", "dead"}

\* A session as Open leaves it: an empty memtable with an empty log, recorded in
\* the manifest, and no table of the session's own.
Init ==
  /\ locked = FALSE
  /\ mem_ = 1 /\ imm_ = NoTable
  /\ content = [m \in Tables |-> {}]
  /\ LastSequence = 0
  /\ logfilenum = FirstLog
  /\ next_file_number = FirstLog + 1
  /\ log_number = FirstLog
  /\ nowversion = {} /\ live = {} /\ opened \in Openings
  /\ background_compaction_ = FALSE /\ shutting_down_ = FALSE
  /\ bg_error = FALSE /\ started_background_thread = FALSE
  /\ logs = [n \in {FirstLog} |-> {}]
  /\ tables = [n \in {} |-> {}]
  /\ manifest = [log |-> FirstLog, tables |-> {}]
  /\ buf_ = {} /\ torn = FALSE /\ unlogged = {}
  /\ wpc = "idle" /\ writes = 0 /\ acked = {} /\ unsynced = {}
  /\ key = NoKey
  /\ entry = [key |-> key, seq |-> 0, del |-> FALSE]
  /\ rpc = "idle" /\ snapshot = 0
  /\ mem = NoTable /\ imm = NoTable /\ current = {}
  /\ result = NoResult /\ gets = 0
  /\ bpc = "none" /\ meta = 0 /\ edit = 0 /\ ok = TRUE /\ obsolete = {}
  /\ dpc = "none"

\* The function f with n mapped to v, and f without the arguments in S.
Put(f, n, v) == [x \in DOMAIN f \cup {n} |-> IF x = n THEN v ELSE f[x]]
Without(f, S) == [x \in DOMAIN f \ S |-> f[x]]

-----------------------------------------------------------------------------
(* Scheduling background work *)

\* The conditions of MaybeCompaction on an immutable memtable i and the flag b.
WantsCompaction(b, i) ==
  ~b /\ ~shutting_down_ /\ ~bg_error /\ i # NoTable

\* PosixEnv::Schedule starts a thread for the first piece of work it is given.
\* Later ones go into background_work_queue, which no thread reads: the function
\* that would, BackgroundThreadMain, is started nowhere.
Schedule ==
  /\ started_background_thread' = TRUE
  /\ bpc' = IF started_background_thread THEN bpc ELSE "lock"

\* MaybeCompaction, called with the immutable memtable i.
MaybeCompaction(i) ==
  IF WantsCompaction(background_compaction_, i)
  THEN background_compaction_' = TRUE /\ Schedule
  ELSE UNCHANGED <<background_compaction_, started_background_thread, bpc>>

\* background_work_finished_signal.notify_all()
NotifyAll ==
  /\ wpc' = IF wpc = "wait" THEN "wake" ELSE wpc
  /\ dpc' = IF dpc = "wait" THEN "wake" ELSE dpc

-----------------------------------------------------------------------------
(* The writer: DBImpl::Write with MakeRoomForwrite *)

WCall ==
  /\ wpc = "idle" /\ dpc = "none" /\ writes < Len(Script)
  /\ \E op \in Script[writes + 1] : entry' = [key |-> op.key, seq |-> 0, del |-> op.del]
  /\ writes' = writes + 1
  /\ wpc' = "lock"
  /\ UNCHANGED <<locked, dbVars, rVars, bVars, dpc, acked, unsynced>>

WLock ==
  /\ wpc = "lock" /\ ~locked
  /\ locked' = TRUE
  /\ wpc' = "room"
  /\ UNCHANGED <<dbVars, entry, writes, acked, unsynced, rVars, bVars, dpc>>

\* ApproximateMemoryUsage() <= write_buffer_size
HasRoom == Cardinality(content[mem_]) =< WriteBuffer

\* NumLevelFiles(0) >= kL0_SlowdownWrites; allow_delay is still TRUE, since nobody
\* passes a null batch to Write.
SlowsDown == Len(opened) + Cardinality(nowversion) >= kL0_SlowdownWrites

\* lks.unlock() and ::sleep(1000); the second lks.unlock() is WThrows below.  The
\* branch for kL0_StopWrites files, which comes later and needs more of them, is
\* never reached.
WSlowdown ==
  /\ wpc = "room"
  /\ ~bg_error /\ SlowsDown
  /\ locked' = FALSE
  /\ wpc' = "slow"
  /\ UNCHANGED <<dbVars, entry, writes, acked, unsynced, rVars, bVars, dpc>>

\* The branches after that one: the memtable is full.
MustRotate == wpc = "room" /\ ~bg_error /\ ~SlowsDown /\ ~HasRoom

\* The loop of MakeRoomForwrite ends, on an error or with room; the error is
\* dropped (return State::Ok()); the adopted lock is unlocked.
WLeaveRoom ==
  /\ wpc = "room"
  /\ bg_error \/ (~SlowsDown /\ HasRoom)
  /\ locked' = FALSE
  /\ wpc' = "unlock"
  /\ UNCHANGED <<dbVars, entry, writes, acked, unsynced, rVars, bVars, dpc>>

\* imm_ != nullptr, and then background_work_finished_signal.wait(lks): the mutex may
\* be freed under the writer, so that a notify_all can come between the two.
WSeesImm ==
  /\ MustRotate /\ imm_ # NoTable
  /\ wpc' = "towait"
  /\ UNCHANGED <<locked, dbVars, entry, writes, acked, unsynced, rVars, bVars, dpc>>

WWaitFlush ==
  /\ wpc = "towait"
  /\ locked' = FALSE
  /\ wpc' = "wait"
  /\ UNCHANGED <<dbVars, entry, writes, acked, unsynced, rVars, bVars, dpc>>

WWake ==
  /\ wpc = "wake" /\ ~locked
  /\ locked' = TRUE
  /\ wpc' = "room"
  /\ UNCHANGED <<dbVars, entry, writes, acked, unsynced, rVars, bVars, dpc>>

\* Mutant: the branch that waits for the previous flush is gone.
WRotateNoWait ==
  /\ MustRotate
  /\ logs' = Put(logs, next_file_number, {})
  /\ logfilenum' = next_file_number
  /\ next_file_number' = next_file_number + 1
  /\ imm_' = mem_
  /\ mem_' = mem_ + 1
  /\ unlogged' = unlogged \cup buf_ /\ buf_' = {} /\ torn' = FALSE
  /\ MaybeCompaction(mem_)
  /\ UNCHANGED <<locked, content, LastSequence, log_number, nowversion, live, opened,
                 shutting_down_, bg_error, tables, manifest, wVars, rVars, meta,
                 edit, ok, obsolete, dpc>>

\* A full memtable becomes immutable; a new log and a new memtable take its place.
\* What the old log's WritableFile still has in buf_ is gone with it: its destructor
\* writes nothing.
WRotate ==
  /\ MustRotate /\ imm_ = NoTable
  /\ logs' = Put(logs, next_file_number, {})
  /\ logfilenum' = next_file_number
  /\ next_file_number' = next_file_number + 1
  /\ imm_' = mem_
  /\ mem_' = mem_ + 1
  /\ unlogged' = unlogged \cup buf_ /\ buf_' = {} /\ torn' = FALSE
  /\ MaybeCompaction(mem_)
  /\ UNCHANGED <<locked, content, LastSequence, log_number, nowversion, live, opened,
                 shutting_down_, bg_error, tables, manifest, wVars, rVars, meta,
                 edit, ok, obsolete, dpc>>

\* NewWritableFile fails: its number is spent, and the record goes to the old log
\* and the full memtable, the error being dropped.
WRotateFails ==
  /\ MustRotate /\ imm_ = NoTable
  /\ next_file_number' = next_file_number + 1
  /\ locked' = FALSE
  /\ wpc' = "unlock"
  /\ UNCHANGED <<memVars, LastSequence, logfilenum, log_number, nowversion, live, opened,
                 bgFlags, diskVars, logVars, entry, writes, acked, unsynced, rVars, bVars, dpc>>

\* Mutant: an off-by-one in SetSequence.
WUnlockBadSequence ==
  /\ wpc = "unlock"
  /\ entry' = [entry EXCEPT !.seq = LastSequence - 1]
  /\ locked' = FALSE
  /\ wpc' = "append"
  /\ UNCHANGED <<dbVars, writes, acked, unsynced, rVars, bVars, dpc>>

\* SetSequence(last_sequence + 1) and mutex.unlock() of line 269
WUnlock ==
  /\ wpc = "unlock"
  /\ entry' = [entry EXCEPT !.seq = LastSequence + 1]
  /\ locked' = FALSE
  /\ wpc' = "append"
  /\ UNCHANGED <<dbVars, writes, acked, unsynced, rVars, bVars, dpc>>

\* WritableFile::Flush of a buffer that holds S, as it may end (Wal has it in full).
\* The whole of it is written: the descriptor stays open, but what goes to a file
\* that has been deleted is lost.
FlushOk(S) ==
  /\ ~torn
  /\ logs' = IF logfilenum \in DOMAIN logs
             THEN [logs EXCEPT ![logfilenum] = @ \cup S] ELSE logs
  /\ buf_' = {}
  /\ UNCHANGED <<torn, unlogged>>

\* Nothing is written, and the buffer keeps it.
FlushError(S) ==
  /\ buf_' = S
  /\ UNCHANGED <<logs, torn, unlogged>>

\* A part is written, and then the buffer again from its start: nothing is read back
\* from there on, now or later.  A record too long for what the failed writes have
\* left of the buffer, which Append garbles, is counted here too.
FlushTorn(S) ==
  /\ torn \/ S # {}
  /\ torn' = TRUE
  /\ buf_' = {}
  /\ unlogged' = unlogged \cup S
  /\ UNCHANGED logs

Flush(S) == FlushOk(S) \/ FlushError(S) \/ FlushTorn(S)

\* Appendrecord, which does not look at what Flush returns
WAppend ==
  /\ wpc = "append"
  /\ Flush(buf_ \cup {entry})
  /\ wpc' = "sync"
  /\ UNCHANGED <<locked, memVars, LastSequence, logfilenum, verVars, bgFlags, tables,
                 manifest, entry, writes, acked, unsynced, rVars, bVars, dpc>>

\* Without opt.sync there is nothing to do; with it logfile->Sync() succeeds.
WSync ==
  /\ wpc = "sync"
  /\ FlushOk(buf_) \/ FlushTorn(buf_) \/ UNCHANGED <<logs, logVars>>
  /\ wpc' = "insert"
  /\ UNCHANGED <<locked, memVars, LastSequence, logfilenum, verVars, bgFlags, tables,
                 manifest, entry, writes, acked, unsynced, rVars, bVars, dpc>>

\* Sync fails: on the directory, in Flush, or in fsync.  The record is not inserted,
\* and Write goes on as if it were.
WSyncFails ==
  /\ wpc = "sync"
  /\ Cardinality(unsynced) < MaxUnsynced
  /\ Flush(buf_)
  /\ unsynced' = unsynced \cup {entry}
  /\ wpc' = "relock"
  /\ UNCHANGED <<locked, memVars, LastSequence, logfilenum, verVars, bgFlags, tables,
                 manifest, entry, writes, acked, rVars, bVars, dpc>>

WInsert ==
  /\ wpc = "insert"
  /\ content' = [content EXCEPT ![mem_] = @ \cup {entry}]
  /\ wpc' = "relock"
  /\ UNCHANGED <<locked, mem_, imm_, LastSequence, logfilenum, verVars, bgFlags,
                 diskVars, logVars, entry, writes, acked, unsynced, rVars, bVars, dpc>>

WRelock ==
  /\ wpc = "relock" /\ ~locked
  /\ locked' = TRUE
  /\ wpc' = "finish"
  /\ UNCHANGED <<dbVars, entry, writes, acked, unsynced, rVars, bVars, dpc>>

\* SetLastSequence, return State::Ok(), unlock
WFinish ==
  /\ wpc = "finish"
  /\ LastSequence' = entry.seq
  /\ acked' = acked \cup {entry}
  /\ locked' = FALSE
  /\ wpc' = "idle"
  /\ UNCHANGED <<memVars, logfilenum, verVars, bgFlags, diskVars, logVars, entry, writes,
                 unsynced, rVars, bVars, dpc>>

-----------------------------------------------------------------------------
(* The reader: DBImpl::Get *)

RCall ==
  /\ rpc = "idle" /\ dpc = "none" /\ gets < MaxGets
  /\ \E k \in Keys : key' = k
  /\ gets' = gets + 1
  /\ rpc' = "lock"
  /\ UNCHANGED <<locked, dbVars, wVars, snapshot, mem, imm, current, result, bVars, dpc>>

RLock ==
  /\ rpc = "lock" /\ ~locked
  /\ locked' = TRUE
  /\ rpc' = "snapshot"
  /\ UNCHANGED <<dbVars, wVars, key, snapshot, mem, imm, current, result, gets, bVars,
                 dpc>>

RSnapshot ==
  /\ rpc = "snapshot"
  /\ snapshot' = LastSequence
  /\ rpc' = "mem"
  /\ UNCHANGED <<locked, dbVars, wVars, key, mem, imm, current, result, gets, bVars, dpc>>

RCopyMem ==
  /\ rpc = "mem"
  /\ mem' = mem_
  /\ rpc' = "imm"
  /\ UNCHANGED <<locked, dbVars, wVars, key, snapshot, imm, current, result, gets, bVars,
                 dpc>>

RCopyImm ==
  /\ rpc = "imm"
  /\ imm' = imm_
  /\ rpc' = "current"
  /\ UNCHANGED <<locked, dbVars, wVars, key, snapshot, mem, current, result, gets, bVars,
                 dpc>>

\* current = versions_->Current(), and rlock.unlock()
RCopyCurrent ==
  /\ rpc = "current"
  /\ current' = nowversion
  /\ locked' = FALSE
  /\ rpc' = "search"
  /\ UNCHANGED <<dbVars, wVars, key, snapshot, mem, imm, result, gets, bVars, dpc>>

\* Memtable::Get sees the entries of its key up to the snapshot and takes the
\* newest.
Visible(S) == {e \in S : e.key = key /\ e.seq =< snapshot}
Newest(S) == CHOOSE e \in S : \A f \in S : f.seq =< e.seq
Found(e) == IF e.del THEN [kind |-> "notfound", seq |-> e.seq]
                     ELSE [kind |-> "value", seq |-> e.seq]

MemtableEntries(m) == IF m = NoTable THEN {} ELSE content[m]

\* ReadBlock takes a block that snappy can size (GetUncompressedLength returns
\* true) for a corrupt one, and WriteBlock compresses every block; Table::Open
\* reads the index block before anything else, and TableCache::Get opens the table
\* first (no table is ever cached, so it opens it each time).
ReadBlock == "error"
TableOpen == ReadBlock
TableCacheGet == TableOpen

\* Version::Get asks every level-0 table whose key range covers the key.
Covers(t) == t \in DOMAIN tables =>
  \E e, f \in tables[t] : e.key =< key /\ key =< f.key
OpenedCovers == \E i \in 1..Len(opened) : \E a, b \in opened[i] : a =< key /\ key =< b
VersionGet == [kind |-> IF OpenedCovers \/ (\E t \in current : Covers(t))
                        THEN TableCacheGet ELSE "notfound",
               seq |-> 0]

\* mem->Get, else imm->Get, else current->Get
SearchOrder(m, i) ==
  IF Visible(m) # {} THEN Found(Newest(Visible(m)))
  ELSE IF Visible(i) # {} THEN Found(Newest(Visible(i)))
  ELSE VersionGet

RSearch ==
  /\ rpc = "search"
  /\ result' = SearchOrder(MemtableEntries(mem), MemtableEntries(imm))
  /\ rpc' = "relock"
  /\ UNCHANGED <<locked, dbVars, wVars, key, snapshot, mem, imm, current, gets, bVars, dpc>>

RRelock ==
  /\ rpc = "relock" /\ ~locked
  /\ locked' = TRUE
  /\ rpc' = "finish"
  /\ UNCHANGED <<dbVars, wVars, key, snapshot, mem, imm, current, result, gets, bVars, dpc>>

\* if (have_stat_update) MaybeCompaction(); the destructor unlocks
RFinish ==
  /\ rpc = "finish"
  /\ IF Visible(MemtableEntries(mem)) \cup Visible(MemtableEntries(imm)) = {}
     THEN MaybeCompaction(imm_)
     ELSE UNCHANGED <<background_compaction_, started_background_thread, bpc>>
  /\ locked' = FALSE
  /\ rpc' = "idle"
  /\ key' = NoKey /\ snapshot' = 0 /\ mem' = NoTable /\ imm' = NoTable /\ current' = {}
  /\ result' = NoResult
  /\ UNCHANGED <<memVars, LastSequence, logfilenum, verVars, shutting_down_, bg_error,
                 diskVars, logVars, wVars, gets, meta, edit, ok, obsolete, dpc>>

-----------------------------------------------------------------------------
(* The background thread: BackgroundCall, CompactMemTable, WriteLevel0Table, *)
(* LogAndApply and DeleteObsoleteFiles                                       *)

\* mutex.lock(), at the four places where the background thread takes it
BLockAt(from, to) ==
  /\ bpc = from /\ ~locked
  /\ locked' = TRUE
  /\ bpc' = to
  /\ UNCHANGED <<dbVars, wVars, rVars, bgLocals, dpc>>

\* Mutant: imm_ is reset before the version that has its table is installed.
BLockLoggedReset ==
  /\ bpc = "logged" /\ ~locked
  /\ locked' = TRUE
  /\ imm_' = NoTable
  /\ bpc' = "install"
  /\ UNCHANGED <<mem_, content, LastSequence, logfilenum, verVars, bgFlags, diskVars,
                 logVars, wVars, rVars, bgLocals, dpc>>

BLock == BLockAt("lock", "start")
BLockBuilt == BLockAt("built", "apply")
BLockLogged == BLockAt("logged", "install")
BLockDeleted == BLockAt("deleted", "finish")

\* Nothing is done when the database shuts down or has failed.
BSkip ==
  /\ bpc = "start"
  /\ shutting_down_ \/ bg_error \/ imm_ = NoTable
  /\ bpc' = "finish"
  /\ UNCHANGED <<locked, dbVars, wVars, rVars, bgLocals, dpc>>

\* WriteLevel0Table: meta.num = NewFileNumber(); mutex.unlock()
BStart ==
  /\ bpc = "start"
  /\ ~shutting_down_ /\ ~bg_error /\ imm_ # NoTable
  /\ meta' = next_file_number
  /\ next_file_number' = next_file_number + 1
  /\ locked' = FALSE
  /\ bpc' = "build"
  /\ UNCHANGED <<memVars, LastSequence, logfilenum, log_number, nowversion, live, opened,
                 bgFlags, diskVars, logVars, wVars, rVars, edit, ok, obsolete, dpc>>

\* BuildTable writes, syncs and closes the table, or fails and deletes it.
BBuild ==
  /\ bpc = "build"
  /\ \/ ok' = TRUE /\ tables' = Put(tables, meta, content[imm_])
     \/ ok' = FALSE /\ UNCHANGED tables
  /\ bpc' = "built"
  /\ UNCHANGED <<locked, memVars, LastSequence, logfilenum, verVars, bgFlags, logs, manifest,
                 logVars, wVars, rVars, meta, edit, obsolete, dpc>>

\* bg_error = s, and notify_all
BFail ==
  /\ bg_error' = TRUE
  /\ NotifyAll
  /\ bpc' = "finish"

\* WriteLevel0Table failed, or the database shuts down.
BBuildFailed ==
  /\ bpc = "apply"
  /\ ~ok \/ shutting_down_
  /\ BFail
  /\ UNCHANGED <<locked, memVars, LastSequence, logfilenum, verVars, background_compaction_,
                 shutting_down_, started_background_thread, diskVars, logVars, entry,
                 writes, acked, unsynced, rVars, bgLocals>>

\* edit.SetLogNumber(logfilenum); LogAndApply builds the new version and unlocks
BApply ==
  /\ bpc = "apply"
  /\ ok /\ ~shutting_down_
  /\ edit' = logfilenum
  /\ locked' = FALSE
  /\ bpc' = "log"
  /\ UNCHANGED <<dbVars, wVars, rVars, meta, ok, obsolete, dpc>>

\* LogAndApply appends the edit to the manifest and syncs it.  Either may fail,
\* and a failed sync leaves the edit in the file or not.
BLogEdit ==
  /\ bpc = "log"
  /\ \/ ok' = TRUE /\ manifest' = [log |-> edit, tables |-> nowversion \cup {meta}]
     \/ ok' = FALSE /\ manifest' \in
          {manifest, [log |-> edit, tables |-> nowversion \cup {meta}]}
  /\ bpc' = "logged"
  /\ UNCHANGED <<locked, memVars, LastSequence, logfilenum, verVars, bgFlags, logs, tables,
                 logVars, wVars, rVars, meta, edit, obsolete, dpc>>

\* LogAndApply installs the version ...
BInstall ==
  /\ bpc = "install" /\ ok
  /\ nowversion' = nowversion \cup {meta}
  /\ live' = live \cup nowversion'
  /\ log_number' = edit
  /\ bpc' = "reset"
  /\ UNCHANGED <<locked, memVars, LastSequence, logfilenum, next_file_number, opened, bgFlags,
                 diskVars, logVars, wVars, rVars, bgLocals, dpc>>

\* ... or drops it, and CompactMemTable records the error.
BLogFailed ==
  /\ bpc = "install" /\ ~ok
  /\ BFail
  /\ UNCHANGED <<locked, memVars, LastSequence, logfilenum, verVars, background_compaction_,
                 shutting_down_, started_background_thread, diskVars, logVars, entry,
                 writes, acked, unsynced, rVars, bgLocals>>

\* imm_ = nullptr
BReset ==
  /\ bpc = "reset"
  /\ imm_' = NoTable
  /\ bpc' = "list"
  /\ UNCHANGED <<locked, mem_, content, LastSequence, logfilenum, verVars, bgFlags, diskVars,
                 logVars, wVars, rVars, bgLocals, dpc>>

\* DeleteObsoleteFiles lists the directory: a log is kept when the number its
\* name parses to is at least log_number, a table when it is live.  It uses
\* pending_file, which is never filled, and not pending_outputs_.
Obsolete ==
  {n \in DOMAIN logs : ParsedNumber(n) < log_number}
    \cup {n \in DOMAIN tables : ParsedNumber(n) \notin live}

BList ==
  /\ bpc = "list"
  /\ obsolete' = Obsolete
  /\ locked' = FALSE
  /\ bpc' = "delete"
  /\ UNCHANGED <<dbVars, wVars, rVars, meta, edit, ok, dpc>>

BDelete ==
  /\ bpc = "delete"
  /\ logs' = Without(logs, obsolete)
  /\ tables' = Without(tables, obsolete)
  /\ bpc' = "deleted"
  /\ UNCHANGED <<locked, memVars, LastSequence, logfilenum, verVars, bgFlags, manifest,
                 logVars, wVars, rVars, bgLocals, dpc>>

\* background_compaction_ = false
BFinish ==
  /\ bpc = "finish"
  /\ background_compaction_' = FALSE
  /\ bpc' = "again"
  /\ UNCHANGED <<locked, memVars, LastSequence, logfilenum, verVars, shutting_down_, bg_error,
                 started_background_thread, diskVars, logVars, wVars, rVars, bgLocals, dpc>>

\* MaybeCompaction().  If there is another memtable to flush the flag is set again,
\* but Schedule starts nothing.
BAgain ==
  /\ bpc = "again"
  /\ background_compaction_' =
       (background_compaction_ \/ WantsCompaction(background_compaction_, imm_))
  /\ bpc' = "notify"
  /\ UNCHANGED <<locked, memVars, LastSequence, logfilenum, verVars, shutting_down_, bg_error,
                 started_background_thread, diskVars, logVars, wVars, rVars, bgLocals, dpc>>

\* background_work_finished_signal.notify_all()
BNotify ==
  /\ bpc = "notify"
  /\ NotifyAll
  /\ bpc' = "unlock"
  /\ UNCHANGED <<locked, dbVars, entry, writes, acked, unsynced, rVars, bgLocals>>

\* lk's destructor
BUnlock ==
  /\ bpc = "unlock"
  /\ locked' = FALSE
  /\ bpc' = "done"
  /\ meta' = 0 /\ edit' = 0 /\ ok' = TRUE /\ obsolete' = {}
  /\ UNCHANGED <<dbVars, wVars, rVars, dpc>>

-----------------------------------------------------------------------------
(* ~DBImpl, called by a client none of whose calls is under way *)

DLock ==
  /\ dpc = "none" /\ wpc = "idle" /\ rpc = "idle" /\ ~locked
  /\ locked' = TRUE
  /\ shutting_down_' = TRUE
  /\ dpc' = "check"
  /\ UNCHANGED <<memVars, LastSequence, logfilenum, verVars, background_compaction_, bg_error,
                 started_background_thread, diskVars, logVars, wVars, rVars, bVars>>

\* Mutant: the destructor does not wait.
DCheckNoWait ==
  /\ dpc = "check"
  /\ dpc' = "closed"
  /\ locked' = FALSE
  /\ UNCHANGED <<dbVars, wVars, rVars, bVars>>

\* while (background_compaction_) background_work_finished_signal.wait(lk)
DCheck ==
  /\ dpc = "check"
  /\ dpc' = IF background_compaction_ THEN "towait" ELSE "closed"
  /\ locked' = IF background_compaction_ THEN locked ELSE FALSE
  /\ UNCHANGED <<dbVars, wVars, rVars, bVars>>

DWait ==
  /\ dpc = "towait"
  /\ dpc' = "wait"
  /\ locked' = FALSE
  /\ UNCHANGED <<dbVars, wVars, rVars, bVars>>

DWake ==
  /\ dpc = "wake" /\ ~locked
  /\ locked' = TRUE
  /\ dpc' = "check"
  /\ UNCHANGED <<dbVars, wVars, rVars, bVars>>

-----------------------------------------------------------------------------
(* How the process may die *)

Dies ==
  /\ rpc' = "dead" /\ wpc' = "dead" /\ bpc' = "dead" /\ dpc' = "dead"
  /\ UNCHANGED <<locked, dbVars, entry, writes, acked, unsynced, key, snapshot, mem, imm,
                 current, result, gets, bgLocals>>

\* A shared_ptr copied while another thread assigns to it: the copy may keep a
\* memtable that has been freed, and the process dies when it is used.
RTornCopy ==
  /\ \/ rpc = "imm" /\ bpc = "reset"
     \/ rpc \in {"mem", "imm"} /\ MustRotate /\ imm_ = NoTable
  /\ Dies

\* lks.unlock() on a lock that lks does not own throws std::system_error, which
\* nothing catches.
WThrows == wpc = "slow" /\ Dies

\* The last lines of BackgroundCall may run on a DBImpl that is already deleted.
BUseAfterFree == dpc = "closed" /\ bpc \in {"again", "notify", "unlock"} /\ Dies

-----------------------------------------------------------------------------

Writer == \/ WLock \/ WSlowdown \/ WLeaveRoom \/ WSeesImm \/ WWaitFlush \/ WWake
          \/ WRotate \/ WRotateFails \/ WUnlock \/ WAppend \/ WSync \/ WSyncFails
          \/ WInsert \/ WRelock \/ WFinish
Reader == \/ RLock \/ RSnapshot \/ RCopyMem \/ RCopyImm \/ RCopyCurrent
          \/ RSearch \/ RRelock \/ RFinish
Background == \/ BLock \/ BSkip \/ BStart \/ BBuild \/ BLockBuilt \/ BBuildFailed
              \/ BApply \/ BLogEdit \/ BLockLogged \/ BInstall \/ BLogFailed \/ BReset
              \/ BList \/ BDelete \/ BLockDeleted \/ BFinish \/ BAgain
              \/ BNotify \/ BUnlock
Destructor == DCheck \/ DWait \/ DWake
Client     == WCall \/ RCall \/ DLock
Death      == RTornCopy \/ WThrows \/ BUseAfterFree

Next == Client \/ Writer \/ Reader \/ Death \/ Background \/ Destructor

Spec == Init /\ [][Next]_vars

-----------------------------------------------------------------------------
(* Properties *)

\* What a restart could rebuild from: the logs the manifest has not dropped and
\* the tables it names, as far as they are on disk.
Durable ==
  (UNION {logs[n] : n \in {m \in DOMAIN logs : m >= manifest.log}})
    \cup (UNION {tables[n] : n \in manifest.tables \cap DOMAIN tables})

\* No acknowledged write is ever without a durable home: not between the
\* rotation of a memtable and its flush, not when the flush or the manifest
\* fails, not while DeleteObsoleteFiles runs beside a writer.  A record that the
\* log lost (a failed or a short write, whose error Appendrecord drops) has none
\* while its memtable is in memory, but it has one as soon as that is flushed.  The
\* writes whose Sync failed are excepted: Write acknowledges them all the same.
AckedDurable ==
  acked \subseteq Durable \cup unsynced \cup
    ((buf_ \cup unlogged) \cap (content[mem_] \cup MemtableEntries(imm_)))

\* What the writes that were inserted left for a reader to see.
Stored == acked \ unsynced

\* Get returns what its snapshot says: the newest acknowledged value, or that
\* there is none, or an error, whatever rotations and flushes happen between the
\* moments it copies mem_, imm_ and the current version.  The writes whose Sync
\* failed are excepted, and Get does miss them: they are not inserted, but LastSequence
\* is advanced over them and Write returns Ok.
GetExact ==
  rpc \in {"relock", "finish"} /\ result.kind # "error" =>
    LET V == Visible(Stored)
    IN  result.seq = IF V = {} THEN 0 ELSE Newest(V).seq

\* The destructor does not return before BackgroundCall has cleared
\* background_compaction_: no table is being built, no version installed and no
\* file deleted in a database that is gone.  (The lines that follow, where
\* MaybeCompaction, notify_all and the unlock use the DBImpl once more, are not
\* covered: the mutex may be free under them, see BUseAfterFree.)
CloseWaits == dpc = "closed" => bpc \in {"none", "again", "notify", "unlock", "done"}
=============================================================================
