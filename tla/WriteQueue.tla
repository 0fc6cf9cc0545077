----------------------------- MODULE WriteQueue -----------------------------
(***************************************************************************)
(* The write path of DBImpl: DBImpl::Write with its writer queue, the      *)
(* condition variable of DBImpl::Writer, the group commit of               *)
(* BuildBatchGroup, and the WriteBatch that the group is merged into.      *)
(* Client threads call Write any number of times (MaxCalls bounds it).     *)
(*                                                                         *)
(* The mutex is a std::mutex of glibc in a build with NDEBUG: it has no    *)
(* owner.  lock() waits until it is free; unlock() frees it, whoever holds *)
(* it.  This matters, for Write unlocks it twice on every call: the        *)
(* unique_lock that MakeRoomForwrite adopts unlocks it on return, and      *)
(* line 269 unlocks it again.                                              *)
(*                                                                         *)
(* The memtable never fills here (module Flush models MakeRoomForwrite),   *)
(* and updates = nullptr, which neither Put nor Delete passes, is left out.*)
(***************************************************************************)
EXTENDS Integers, Sequences

CONSTANTS Writers,       \* the client threads
          Batches,       \* the sequences of operation types a client may write
          MaxBatchSize,  \* BuildBatchGroup's limit, in operations
          MaxCalls,      \* bound: calls of Write per client
          NoWriter       \* what a cell of the deque that nobody wrote holds

Types == {"val", "del"}  \* kTypeValue, kTypeDeletion

ASSUME WritersAssumption == NoWriter \notin Writers
ASSUME BatchesAssumption == Batches \subseteq Seq(Types)
ASSUME BoundsAssumption  == MaxBatchSize \in Nat /\ MaxCalls \in Nat

VARIABLES locked,       \* the mutex
          writerque,    \* the deque of Writer*
          pc,           \* where each client is inside Write
          calls,        \* calls of Write each client has made (history)
          sync, done,   \* Writer::sync, Writer::done
          updates,      \* the WriteBatch of the client's current call
          size, it,     \* locals of BuildBatchGroup: the leader's size, the iterator
          last_sequence,\* Write's local variable
          LastSequence, \* VersionSet::last_sequence
          log,          \* the records in the write-ahead log
          mem,          \* the entries of the memtable
          returned,     \* calls that have returned (history)
          unsynced,     \* records of the log whose logfile->Sync() failed (history)
          raced,        \* emplace_back calls have overlapped (history)
          aborted       \* the process ran off the deque and died

clientVars == <<calls, sync>>
localVars  == <<size, it, last_sequence>>
dataVars   == <<updates, localVars, LastSequence, log, mem, returned, unsynced>>
vars == <<locked, writerque, pc, done, clientVars, dataVars, raced, aborted>>

Op    == [type : Types, call : Writers \X Nat, n : Nat]
Batch == [seq : Nat, count : Nat, ops : Seq(Op)]
Entry == [seq : Nat, op : Op]

EmptyBatch == [seq |-> 0, count |-> 0, ops |-> <<>>]

\* Where a client that acts as leader can be, and where one waits its turn.
LeaderPcs == {"room", "read_seq", "group", "unlock", "append", "sync",
              "insert", "relock", "finish"}
WaitPcs   == {"check", "wait_lock", "wait_cond", "asleep", "wake_lock",
              "wake_unlock"}
Pcs == {"idle", "lock", "emplace", "raced_emplace"} \cup WaitPcs \cup LeaderPcs

TypeOK ==
  /\ locked \in BOOLEAN
  /\ writerque \in Seq(Writers \cup {NoWriter})
  /\ pc \in [Writers -> Pcs]
  /\ calls \in [Writers -> Nat]
  /\ sync \in [Writers -> BOOLEAN]
  /\ done \in [Writers -> BOOLEAN]
  /\ updates \in [Writers -> Batch]
  /\ size \in [Writers -> Nat]
  /\ it \in [Writers -> Nat \ {0}]
  /\ last_sequence \in [Writers -> Nat]
  /\ LastSequence \in Nat
  /\ log \in Seq(Batch)
  /\ mem \subseteq Entry
  /\ returned \subseteq Writers \X Nat
  /\ unsynced \subseteq Nat
  /\ raced \in BOOLEAN
  /\ aborted \in BOOLEAN

-----------------------------------------------------------------------------
(* WriteBatch *)

\* The batch Put, Delete and their callers build: one operation after the
\* other, count equal to their number, sequence not set yet.
MakeBatch(w, n, types) ==
  [seq   |-> 0,
   count |-> Len(types),
   ops   |-> [i \in 1..Len(types) |-> [type |-> types[i], call |-> <<w, n>>, n |-> i]]]

ByteSize(b) == Len(b.ops)

SetSequence(b, seq) == [seq |-> seq, count |-> b.count, ops |-> b.ops]

\* WriteBatch::Append adds the counts, but appends source's bytes as a C
\* string: the copy ends at the first NUL byte, the type byte of a deletion
\* (kTypeDeletion = 0).  A singleton.
AppendBatch(b, source) ==
  {[seq   |-> b.seq,
    count |-> source.count + b.count,
    ops   |-> b.ops \o SubSeq(source.ops, 1, n)] :
     n \in {m \in 0..Len(source.ops) :
              /\ \A i \in 1..m : source.ops[i].type # "del"
              /\ m < Len(source.ops) => source.ops[m + 1].type = "del"}}

\* WriteBatch::InsertInto adds every operation under the batch's own
\* sequence number (it increments a member, not now_seq).  Its count check
\* comes after the insertions and only decides a state that Write drops.
InsertInto(b) == {[seq |-> b.seq, op |-> b.ops[i]] : i \in DOMAIN b.ops}

-----------------------------------------------------------------------------
Init ==
  /\ locked = FALSE
  /\ writerque = <<>>
  /\ pc = [w \in Writers |-> "idle"]
  /\ calls = [w \in Writers |-> 0]
  /\ sync = [w \in Writers |-> FALSE]
  /\ done = [w \in Writers |-> FALSE]
  /\ updates = [w \in Writers |-> EmptyBatch]
  /\ size = [w \in Writers |-> 0]
  /\ it = [w \in Writers |-> 1]
  /\ last_sequence = [w \in Writers |-> 0]
  /\ LastSequence = 0
  /\ log = <<>>
  /\ mem = {}
  /\ returned = {}
  /\ unsynced = {}
  /\ raced = FALSE
  /\ aborted = FALSE

Goto(w, l) == pc' = [pc EXCEPT ![w] = l]
At(w, l) == pc[w] = l /\ ~aborted

\* A client calls Write with a new batch: Writer w(&mutex, opt.sync, false, updates).
Call(w) ==
  /\ At(w, "idle")
  /\ calls[w] < MaxCalls
  /\ calls' = [calls EXCEPT ![w] = @ + 1]
  /\ \E types \in Batches, s \in BOOLEAN :
       /\ updates' = [updates EXCEPT ![w] = MakeBatch(w, calls[w] + 1, types)]
       /\ sync' = [sync EXCEPT ![w] = s]
  /\ done' = [done EXCEPT ![w] = FALSE]
  /\ Goto(w, "lock")
  /\ UNCHANGED <<locked, writerque, localVars, LastSequence, log, mem, returned,
                 unsynced, raced, aborted>>

\* std::unique_lock ptr(mutex)
Lock(w) ==
  /\ At(w, "lock")
  /\ ~locked
  /\ locked' = TRUE
  /\ Goto(w, "emplace")
  /\ UNCHANGED <<writerque, done, clientVars, dataVars, raced, aborted>>

\* Clients that have "locked" the mutex and not yet put themselves in the
\* deque.  With a mutex that excluded, there would be at most one.
Emplacing == {w \in Writers : pc[w] \in {"emplace", "raced_emplace"}}

\* w is done with emplace_back; every emplace_back still open has overlapped it.
Emplaced(w) ==
  /\ pc' = [v \in Writers |-> IF v = w THEN "check"
                              ELSE IF v \in Emplacing THEN "raced_emplace"
                              ELSE pc[v]]
  /\ raced' = (raced \/ Emplacing # {w})

\* writerque.emplace_back(&w)
Emplace(w) ==
  /\ At(w, "emplace")
  /\ writerque' = Append(writerque, w)
  /\ Emplaced(w)
  /\ UNCHANGED <<locked, done, clientVars, dataVars, aborted>>

\* What is left of two overlapping emplace_backs, which are a data race: both
\* entries; one cell written twice and one of the two advances lost; or one
\* cell written twice and an end advanced past a cell nobody wrote.
RacedDeques(w) ==
  LET n == Len(writerque)
      overwritten == Append(SubSeq(writerque, 1, n - 1), w)
  IN  {writerque, Append(writerque, w), Append(writerque, NoWriter)}
        \cup IF n = 0 THEN {} ELSE {overwritten, Append(overwritten, NoWriter)}

EmplaceRaced(w) ==
  /\ At(w, "raced_emplace")
  /\ writerque' \in RacedDeques(w)
  /\ Emplaced(w)
  /\ UNCHANGED <<locked, done, clientVars, dataVars, aborted>>

\* &w == writerque.front(); front() of an empty deque reads a cell that
\* nobody has written.
IsFront(w) == writerque # <<>> /\ Head(writerque) = w

\* while (!w.done && &w != writerque.front()), and if (w.done) return w.state,
\* whose destructor unlocks.
Check(w) ==
  /\ At(w, "check")
  /\ IF done[w]
     THEN /\ Goto(w, "idle")
          /\ locked' = FALSE
          /\ returned' = returned \cup {<<w, calls[w]>>}
     ELSE /\ Goto(w, IF IsFront(w) THEN "room" ELSE "wait_lock")
          /\ UNCHANGED <<locked, returned>>
  /\ UNCHANGED <<writerque, done, clientVars, updates, localVars, LastSequence,
                 log, mem, unsynced, raced, aborted>>

\* Writer::wait: std::unique_lock p(*mutex), on the mutex Write holds already.
WaitLock(w) ==
  /\ At(w, "wait_lock")
  /\ ~locked
  /\ locked' = TRUE
  /\ Goto(w, "wait_cond")
  /\ UNCHANGED <<writerque, done, clientVars, dataVars, raced, aborted>>

\* cond.wait(p) unlocks the mutex and sleeps ...
WaitCond(w) ==
  /\ At(w, "wait_cond")
  /\ locked' = FALSE
  /\ Goto(w, "asleep")
  /\ UNCHANGED <<writerque, done, clientVars, dataVars, raced, aborted>>

\* ... until it is notified, or wakes spuriously, ...
Wake(w) ==
  /\ At(w, "asleep")
  /\ Goto(w, "wake_lock")
  /\ UNCHANGED <<locked, writerque, done, clientVars, dataVars, raced, aborted>>

\* ... and locks the mutex again, ...
WakeLock(w) ==
  /\ At(w, "wake_lock")
  /\ ~locked
  /\ locked' = TRUE
  /\ Goto(w, "wake_unlock")
  /\ UNCHANGED <<writerque, done, clientVars, dataVars, raced, aborted>>

\* Mutant: a woken writer takes its turn without looking at the queue again
\* (if instead of while around w.wait()).
WakeUnlockNoRecheck(w) ==
  /\ At(w, "wake_unlock")
  /\ locked' = FALSE
  /\ Goto(w, "room")
  /\ UNCHANGED <<writerque, done, clientVars, dataVars, raced, aborted>>

\* ... which p's destructor unlocks: the loop goes on without the mutex.
WakeUnlock(w) ==
  /\ At(w, "wake_unlock")
  /\ locked' = FALSE
  /\ Goto(w, "check")
  /\ UNCHANGED <<writerque, done, clientVars, dataVars, raced, aborted>>

\* MakeRoomForwrite with room in the memtable: breaks out of its loop; the
\* unique_lock it adopted unlocks the mutex.
MakeRoom(w) ==
  /\ At(w, "room")
  /\ locked' = FALSE
  /\ Goto(w, "read_seq")
  /\ UNCHANGED <<writerque, done, clientVars, dataVars, raced, aborted>>

\* uint64_t last_sequence = versions_->LastSequence(), and BuildBatchGroup's
\* start at the second writer of the deque.
ReadSequence(w) ==
  /\ At(w, "read_seq")
  /\ last_sequence' = [last_sequence EXCEPT ![w] = LastSequence]
  /\ size' = [size EXCEPT ![w] = ByteSize(updates[w])]
  /\ it' = [it EXCEPT ![w] = 2]
  /\ Goto(w, "group")
  /\ UNCHANGED <<locked, writerque, done, clientVars, updates, LastSequence, log,
                 mem, returned, unsynced, raced, aborted>>

\* The writer under the iterator joins the group.  size is the leader's size on
\* entry, which the loop does not update.
JoinsGroup(w) ==
  LET v == writerque[it[w]]
  IN  /\ sync[v] = sync[w]
      /\ size[w] + ByteSize(updates[v]) =< MaxBatchSize

Intact(w) == IsFront(w) /\ NoWriter \notin {writerque[i] : i \in DOMAIN writerque}

\* One round of BuildBatchGroup's loop: fntbatch->Append((*it)->batch).
GroupNext(w) ==
  /\ At(w, "group")
  /\ Intact(w)
  /\ it[w] \in DOMAIN writerque
  /\ JoinsGroup(w)
  /\ \E b \in AppendBatch(updates[w], updates[writerque[it[w]]]) :
       updates' = [updates EXCEPT ![w] = b]
  /\ it' = [it EXCEPT ![w] = @ + 1]
  /\ UNCHANGED <<locked, writerque, pc, done, clientVars, size, last_sequence,
                 LastSequence, log, mem, returned, unsynced, raced, aborted>>

\* The loop of BuildBatchGroup is over; Write then calls SetSequence(seq), sets
\* its last_sequence to last and the version set's to published.
GroupEndWith(w, seq, last, published) ==
  /\ At(w, "group")
  /\ Intact(w)
  /\ it[w] \in DOMAIN writerque => ~JoinsGroup(w)
  /\ updates' = [updates EXCEPT ![w] = SetSequence(@, seq)]
  /\ last_sequence' = [last_sequence EXCEPT ![w] = last]
  /\ LastSequence' = published
  /\ Goto(w, "unlock")
  /\ UNCHANGED <<locked, writerque, done, clientVars, size, it, log, mem, returned,
                 unsynced, raced, aborted>>

\* Mutants: an off-by-one in SetSequence; last_sequence += Count() forgotten;
\* SetLastSequence called before the batch is in the memtable.
GroupEndBadSequence(w) ==
  GroupEndWith(w, last_sequence[w] - 1, last_sequence[w] + updates[w].count, LastSequence)
GroupEndNoAdvance(w) ==
  GroupEndWith(w, last_sequence[w] + 1, last_sequence[w], LastSequence)
GroupEndEarlyPublish(w) ==
  GroupEndWith(w, last_sequence[w] + 1, last_sequence[w] + updates[w].count,
               last_sequence[w] + updates[w].count)

\* The loop ends, at the end of the deque or by a break whose assignment to
\* last_writer changes a local copy only; SetSequence(last_sequence + 1);
\* last_sequence += Count().
GroupEnd(w) ==
  GroupEndWith(w, last_sequence[w] + 1, last_sequence[w] + updates[w].count, LastSequence)

\* Mutant: only a synced write goes through the log.
UnlockForLogIfSync(w) ==
  /\ At(w, "unlock")
  /\ locked' = FALSE
  /\ Goto(w, IF sync[w] THEN "append" ELSE "insert")
  /\ UNCHANGED <<writerque, done, clientVars, dataVars, raced, aborted>>

\* mutex.unlock() of line 269
UnlockForLog(w) ==
  /\ At(w, "unlock")
  /\ locked' = FALSE
  /\ Goto(w, "append")
  /\ UNCHANGED <<writerque, done, clientVars, dataVars, raced, aborted>>

\* logwrite->Appendrecord(updates->Contents()), which never reports an error
AppendRecord(w) ==
  /\ At(w, "append")
  /\ log' = Append(log, updates[w])
  /\ Goto(w, IF sync[w] THEN "sync" ELSE "insert")
  /\ UNCHANGED <<locked, writerque, done, clientVars, updates, localVars,
                 LastSequence, mem, returned, unsynced, raced, aborted>>

\* logfile->Sync() of the record just appended, which may fail; the insertion is
\* then skipped.
SyncLog(w) ==
  /\ At(w, "sync")
  /\ \/ /\ Goto(w, "insert")
        /\ UNCHANGED unsynced
     \/ /\ Goto(w, "relock")
        /\ unsynced' = unsynced \cup {Len(log)}
  /\ UNCHANGED <<locked, writerque, done, clientVars, updates, localVars,
                 LastSequence, log, mem, returned, raced, aborted>>

\* upt->InsertInto(mem_)
InsertMem(w) ==
  /\ At(w, "insert")
  /\ mem' = mem \cup InsertInto(updates[w])
  /\ Goto(w, "relock")
  /\ UNCHANGED <<locked, writerque, done, clientVars, updates, localVars,
                 LastSequence, log, returned, unsynced, raced, aborted>>

\* mutex.lock() of line 281
Relock(w) ==
  /\ At(w, "relock")
  /\ ~locked
  /\ locked' = TRUE
  /\ Goto(w, "finish")
  /\ UNCHANGED <<writerque, done, clientVars, dataVars, raced, aborted>>

\* Mutant: now_writer is the last writer of the group, as the author meant it.
NowWriterOfGroup(w) == it[w] - 1

\* Where now_writer is in the deque after BuildBatchGroup(&now_writer): the
\* break assigns to the parameter, so it still is &w, the front.
NowWriter(w) == 1

\* SetLastSequence; the loop that pops, marks done and signals up to now_writer;
\* return State::Ok(), whatever the state; the destructor unlocks.
Finish(w) ==
  /\ At(w, "finish")
  /\ Intact(w)
  /\ LastSequence' = last_sequence[w]
  /\ done' = [v \in Writers |-> done[v] \/ \E i \in 2..NowWriter(w) : writerque[i] = v]
  /\ writerque' = SubSeq(writerque, NowWriter(w) + 1, Len(writerque))
  /\ returned' = returned \cup {<<w, calls[w]>>}
  /\ locked' = FALSE
  /\ Goto(w, "idle")
  /\ UNCHANGED <<clientVars, updates, localVars, log, mem, unsynced, raced, aborted>>

\* A leader that meets an unwritten cell, or that is no longer in front,
\* dereferences garbage or pops past the end of the deque before it returns.
Abort(w) ==
  /\ pc[w] \in {"group", "finish"} /\ ~aborted
  /\ ~Intact(w)
  /\ aborted' = TRUE
  /\ UNCHANGED <<locked, writerque, pc, done, clientVars, dataVars, raced>>

\* The steps a thread takes by itself: all but a new call and a wake-up.
Step(w) ==
  \/ Lock(w) \/ Emplace(w) \/ EmplaceRaced(w) \/ Check(w)
  \/ WaitLock(w) \/ WaitCond(w) \/ WakeLock(w) \/ WakeUnlock(w)
  \/ MakeRoom(w) \/ ReadSequence(w) \/ GroupNext(w) \/ GroupEnd(w)
  \/ UnlockForLog(w) \/ AppendRecord(w) \/ SyncLog(w) \/ InsertMem(w)
  \/ Relock(w) \/ Finish(w) \/ Abort(w)

Next == \E w \in Writers : Call(w) \/ Wake(w) \/ Step(w)

Spec == Init /\ [][Next]_vars

\* The scheduler runs every thread that can run.  Nothing wakes a thread that
\* sleeps on its condition variable and was not signalled.
FairSpec == Spec /\ \A w \in Writers : WF_vars(Step(w))

-----------------------------------------------------------------------------
(* Properties.  Overlapping emplace_backs are undefined behaviour and can    *)
(* leave any of RacedDeques behind; what the queue promises, it promises     *)
(* until then.                                                               *)

\* Write's queue serialises the writers although its mutex does not: at most one
\* client is past the queue and writes the log and the memtable.
SingleLeader ==
  ~raced => \A v, w \in Writers :
              pc[v] \in LeaderPcs /\ pc[w] \in LeaderPcs => v = w

\* Sequence numbers are handed out once: the ranges [seq, seq + count) of the
\* records of the log are disjoint and increasing, whatever groups the leaders
\* built and whichever Syncs failed.
LogOrdered ==
  ~raced => \A i, j \in DOMAIN log :
              i < j => log[i].seq + log[i].count =< log[j].seq

\* Write-ahead: Write puts nothing in the memtable that is not in the log under
\* the same sequence number, so that a replay rebuilds the memtable.
WriteAhead ==
  \A e \in mem : \E i \in DOMAIN log : e \in InsertInto(log[i])

\* A Write that has returned has every one of its operations in the log.
ReturnedLogged ==
  ~raced => \A c \in returned :
              \A n \in 1..Len(updates[c[1]].ops) :
                updates[c[1]].ops[n].call = c =>
                  \E i \in DOMAIN log : \E j \in DOMAIN log[i].ops :
                    log[i].ops[j] = updates[c[1]].ops[n]

\* A batch becomes visible at once: every record that LastSequence, the snapshot
\* of a Get, covers is in the memtable as a whole, unless its Sync failed.
AtomicVisibility ==
  ~raced => \A i \in DOMAIN log :
              \/ log[i].seq > LastSequence
              \/ i \in unsynced
              \/ InsertInto(log[i]) \subseteq mem

\* The strengthening under which SingleLeader, LogOrdered and WriteAhead are
\* inductive.  A leader is the front of the deque until it pops itself; between
\* GroupEnd and Finish its range is the one after LastSequence; until the
\* memtable has its batch, the log has it.
LoggedPcs == {"sync", "insert", "relock", "finish"}

LeaderInFront ==
  /\ \A w \in Writers : pc[w] = "raced_emplace" => raced
  /\ ~raced => \A w \in Writers : pc[w] \in LeaderPcs => IsFront(w)

SequenceInv ==
  ~raced =>
    /\ \A w \in Writers : pc[w] = "group" => last_sequence[w] = LastSequence
    /\ \A w \in Writers : pc[w] \in {"unlock", "append"} \cup LoggedPcs =>
         /\ updates[w].seq = LastSequence + 1
         /\ last_sequence[w] = LastSequence + updates[w].count
    /\ \A i \in DOMAIN log :
         \/ log[i].seq + log[i].count =< LastSequence + 1
         \/ \E w \in Writers : /\ pc[w] \in LoggedPcs
                              /\ log[i].seq + log[i].count =< last_sequence[w] + 1

LoggedInv ==
  \A w \in Writers : pc[w] \in {"sync", "insert"} =>
    \E i \in DOMAIN log : log[i] = updates[w]

\* Every call of Write returns.
EveryWriteReturns == \A w \in Writers : pc[w] = "lock" ~> pc[w] = "idle"
=============================================================================
