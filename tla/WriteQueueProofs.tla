-------------------------- MODULE WriteQueueProofs --------------------------
(***************************************************************************)
(* Proofs about WriteQueue, for every set of clients, every set of batches *)
(* and every bound.                                                        *)
(***************************************************************************)
EXTENDS WriteQueue, TLAPS

(***************************************************************************)
(* Type correctness                                                        *)
(***************************************************************************)

LEMMA MakeBatchType ==
  ASSUME NEW w \in Writers, NEW n \in Nat, NEW types \in Seq(Types)
  PROVE  MakeBatch(w, n, types) \in Batch
<1>1. Len(types) \in Nat /\ \A i \in 1..Len(types) : types[i] \in Types
  OBVIOUS
<1>2. \A i \in 1..Len(types) :
        [type |-> types[i], call |-> <<w, n>>, n |-> i] \in Op
  BY <1>1 DEF Op
<1> QED
  BY <1>1, <1>2 DEF MakeBatch, Batch

LEMMA AppendBatchType ==
  ASSUME NEW b \in Batch, NEW source \in Batch, NEW r \in AppendBatch(b, source)
  PROVE  r \in Batch
<1>1. PICK n \in 0..Len(source.ops) :
        r = [seq |-> b.seq, count |-> source.count + b.count,
             ops |-> b.ops \o SubSeq(source.ops, 1, n)]
  BY DEF AppendBatch
<1>2. b.ops \in Seq(Op) /\ source.ops \in Seq(Op) /\ Len(source.ops) \in Nat
  BY DEF Batch
<1>3. SubSeq(source.ops, 1, n) \in Seq(Op)
  BY <1>2
<1>4. b.ops \o SubSeq(source.ops, 1, n) \in Seq(Op)
  BY <1>2, <1>3
<1>5. source.count + b.count \in Nat /\ b.seq \in Nat
  BY DEF Batch
<1> QED
  BY <1>1, <1>4, <1>5 DEF Batch

LEMMA InsertIntoType ==
  ASSUME NEW b \in Batch
  PROVE  InsertInto(b) \subseteq Entry
BY DEF InsertInto, Batch, Entry

LEMMA RacedDequesType ==
  ASSUME TypeOK, NEW w \in Writers
  PROVE  RacedDeques(w) \subseteq Seq(Writers \cup {NoWriter})
<1> DEFINE cells == Writers \cup {NoWriter}
           n == Len(writerque)
           overwritten == Append(SubSeq(writerque, 1, n - 1), w)
<1>1. writerque \in Seq(cells) /\ w \in cells /\ NoWriter \in cells
  BY DEF TypeOK
<1> HIDE DEF cells
<1>2. n # 0 => overwritten \in Seq(cells)
  BY <1>1
<1>3. /\ Append(writerque, w) \in Seq(cells)
      /\ Append(writerque, NoWriter) \in Seq(cells)
      /\ n # 0 => Append(overwritten, NoWriter) \in Seq(cells)
  BY <1>1, <1>2
<1>4. RacedDeques(w) \subseteq Seq(cells)
  BY <1>1, <1>2, <1>3 DEF RacedDeques
<1> QED
  BY <1>4 DEF cells

LEMMA InitType == Init => TypeOK
<1> SUFFICES ASSUME Init PROVE TypeOK
  OBVIOUS
<1>1. EmptyBatch \in Batch
  BY DEF EmptyBatch, Batch
<1>2. "idle" \in Pcs
  BY DEF Pcs
<1>3. /\ sync \in [Writers -> BOOLEAN]
      /\ done \in [Writers -> BOOLEAN]
  BY DEF Init
<1>4. /\ locked \in BOOLEAN
      /\ raced \in BOOLEAN
      /\ aborted \in BOOLEAN
  BY DEF Init
<1>5. /\ updates \in [Writers -> Batch]
      /\ pc \in [Writers -> Pcs]
  BY <1>1, <1>2 DEF Init
<1>6. /\ calls \in [Writers -> Nat]
      /\ size \in [Writers -> Nat]
      /\ it \in [Writers -> Nat \ {0}]
      /\ last_sequence \in [Writers -> Nat]
      /\ LastSequence \in Nat
  BY DEF Init
<1>7. /\ writerque \in Seq(Writers \cup {NoWriter})
      /\ log \in Seq(Batch)
      /\ mem \subseteq Entry
      /\ returned \subseteq Writers \X Nat
      /\ unsynced \subseteq Nat
  BY DEF Init
<1> QED
  BY <1>3, <1>4, <1>5, <1>6, <1>7 DEF TypeOK

LEMMA GotoType ==
  ASSUME TypeOK, NEW w \in Writers, NEW l \in Pcs, Goto(w, l)
  PROVE  pc' \in [Writers -> Pcs]
BY DEF TypeOK, Goto

LEMMA PcsMembers ==
  {"idle", "lock", "emplace", "raced_emplace", "check", "wait_lock", "room", "group",
   "unlock", "sync", "insert", "relock"} \subseteq Pcs
BY DEF Pcs, WaitPcs, LeaderPcs

\* Steps that only move a thread and set or clear the mutex.
ControlStep(w) ==
  \/ Lock(w) \/ WaitLock(w) \/ WaitCond(w) \/ Wake(w) \/ WakeLock(w)
  \/ WakeUnlock(w) \/ MakeRoom(w) \/ UnlockForLog(w) \/ Relock(w)

LEMMA ControlStepType ==
  ASSUME TypeOK, NEW w \in Writers, ControlStep(w)
  PROVE  TypeOK'
<1>1. PICK l \in Pcs : pc' = [pc EXCEPT ![w] = l]
  BY DEF ControlStep, Lock, WaitLock, WaitCond, Wake, WakeLock, WakeUnlock,
         MakeRoom, UnlockForLog, Relock, Goto, Pcs, WaitPcs, LeaderPcs
<1>2. pc' \in [Writers -> Pcs] /\ locked' \in BOOLEAN
  BY <1>1 DEF TypeOK, ControlStep, Lock, WaitLock, WaitCond, Wake, WakeLock,
              WakeUnlock, MakeRoom, UnlockForLog, Relock
<1>3. UNCHANGED <<writerque, done, clientVars, dataVars, raced, aborted>>
  BY DEF ControlStep, Lock, WaitLock, WaitCond, Wake, WakeLock, WakeUnlock,
         MakeRoom, UnlockForLog, Relock
<1> QED
  BY <1>2, <1>3 DEF TypeOK, clientVars, dataVars, localVars

LEMMA NextType == TypeOK /\ [Next]_vars => TypeOK'
<1> SUFFICES ASSUME TypeOK, [Next]_vars
             PROVE  TypeOK'
  OBVIOUS
<1> USE DEF clientVars, dataVars, localVars
<1>1. CASE UNCHANGED vars
  BY <1>1 DEF vars, TypeOK
<1>2. ASSUME NEW w \in Writers, Call(w)
      PROVE  TypeOK'
  <2>1. PICK types \in Batches, s \in BOOLEAN :
          /\ updates' = [updates EXCEPT ![w] = MakeBatch(w, calls[w] + 1, types)]
          /\ sync' = [sync EXCEPT ![w] = s]
    BY <1>2 DEF Call
  <2>2. MakeBatch(w, calls[w] + 1, types) \in Batch
    BY MakeBatchType, BatchesAssumption DEF TypeOK
  <2>3. pc' \in [Writers -> Pcs]
    BY <1>2, GotoType, PcsMembers DEF Call
  <2>4. sync' \in [Writers -> BOOLEAN] /\ done' \in [Writers -> BOOLEAN]
    BY <1>2, <2>1 DEF Call, TypeOK
  <2>5. updates' \in [Writers -> Batch] /\ calls' \in [Writers -> Nat]
    BY <1>2, <2>1, <2>2 DEF Call, TypeOK
  <2> QED
    BY <1>2, <2>3, <2>4, <2>5 DEF Call, TypeOK
<1>3. ASSUME NEW w \in Writers, ControlStep(w)
      PROVE  TypeOK'
  BY <1>3, ControlStepType
<1>4. ASSUME NEW w \in Writers, Emplace(w)
      PROVE  TypeOK'
  <2>1. pc' \in [Writers -> Pcs]
    BY <1>4, PcsMembers DEF Emplace, Emplaced, TypeOK
  <2>2. writerque' \in Seq(Writers \cup {NoWriter})
    BY <1>4 DEF Emplace, TypeOK
  <2>3. raced' \in BOOLEAN
    BY <1>4 DEF Emplace, Emplaced
  <2> QED
    BY <1>4, <2>1, <2>2, <2>3 DEF Emplace, TypeOK
<1>5. ASSUME NEW w \in Writers, EmplaceRaced(w)
      PROVE  TypeOK'
  <2>1. pc' \in [Writers -> Pcs]
    BY <1>5, PcsMembers DEF EmplaceRaced, Emplaced, TypeOK
  <2>2. writerque' \in Seq(Writers \cup {NoWriter})
    BY <1>5, RacedDequesType DEF EmplaceRaced
  <2>3. raced' \in BOOLEAN
    BY <1>5 DEF EmplaceRaced, Emplaced
  <2> QED
    BY <1>5, <2>1, <2>2, <2>3 DEF EmplaceRaced, TypeOK
<1>6. ASSUME NEW w \in Writers, Check(w)
      PROVE  TypeOK'
  <2>1. pc' \in [Writers -> Pcs]
    BY <1>6, GotoType, PcsMembers DEF Check
  <2>2. locked' \in BOOLEAN
    BY <1>6 DEF Check, TypeOK
  <2>3. returned' \subseteq Writers \X Nat
    BY <1>6 DEF Check, TypeOK
  <2> QED
    BY <1>6, <2>1, <2>2, <2>3 DEF Check, TypeOK
<1>7. ASSUME NEW w \in Writers, ReadSequence(w)
      PROVE  TypeOK'
  <2>1. ByteSize(updates[w]) \in Nat
    BY DEF TypeOK, Batch, ByteSize
  <2>2. pc' \in [Writers -> Pcs]
    BY <1>7, GotoType, PcsMembers DEF ReadSequence
  <2>3. /\ size' \in [Writers -> Nat]
        /\ last_sequence' \in [Writers -> Nat]
    BY <1>7, <2>1 DEF ReadSequence, TypeOK
  <2>4. it' \in [Writers -> Nat \ {0}]
    BY <1>7 DEF ReadSequence, TypeOK
  <2> QED
    BY <1>7, <2>2, <2>3, <2>4 DEF ReadSequence, TypeOK
<1>8. ASSUME NEW w \in Writers, GroupNext(w)
      PROVE  TypeOK'
  <2>1. writerque[it[w]] \in Writers
    BY <1>8 DEF GroupNext, Intact, TypeOK
  <2>2. PICK b \in AppendBatch(updates[w], updates[writerque[it[w]]]) :
          updates' = [updates EXCEPT ![w] = b]
    BY <1>8 DEF GroupNext
  <2>3. b \in Batch
    BY <2>1, AppendBatchType DEF TypeOK
  <2>4. updates' \in [Writers -> Batch]
    BY <2>2, <2>3 DEF TypeOK
  <2>5. it' \in [Writers -> Nat \ {0}]
    BY <1>8, SMTT(20) DEF GroupNext, TypeOK
  <2> QED
    BY <1>8, <2>4, <2>5 DEF GroupNext, TypeOK
<1>9. ASSUME NEW w \in Writers, GroupEnd(w)
      PROVE  TypeOK'
  <2>1. pc' \in [Writers -> Pcs]
    BY <1>9, GotoType, PcsMembers DEF GroupEnd, GroupEndWith
  <2>2. SetSequence(updates[w], last_sequence[w] + 1) \in Batch
    BY DEF TypeOK, Batch, SetSequence
  <2>3. last_sequence[w] + updates[w].count \in Nat
    BY DEF TypeOK, Batch
  <2>4. /\ updates' \in [Writers -> Batch]
        /\ last_sequence' \in [Writers -> Nat]
    BY <1>9, <2>2, <2>3 DEF GroupEnd, GroupEndWith, TypeOK
  <2> QED
    BY <1>9, <2>1, <2>4 DEF GroupEnd, GroupEndWith, TypeOK
<1>10. ASSUME NEW w \in Writers, AppendRecord(w)
       PROVE  TypeOK'
  <2>1. pc' \in [Writers -> Pcs]
    BY <1>10, GotoType, PcsMembers DEF AppendRecord
  <2>2. log' \in Seq(Batch)
    <3>1. log \in Seq(Batch) /\ updates[w] \in Batch
      BY DEF TypeOK
    <3> QED
      BY <1>10, <3>1 DEF AppendRecord
  <2>3. UNCHANGED <<locked, writerque, done, clientVars, updates, localVars, LastSequence,
                    mem, returned, unsynced, raced, aborted>>
    BY <1>10 DEF AppendRecord
  <2> QED
    BY <2>1, <2>2, <2>3 DEF TypeOK
<1>11. ASSUME NEW w \in Writers, SyncLog(w)
       PROVE  TypeOK'
  <2>1. pc' \in [Writers -> Pcs]
    BY <1>11, GotoType, PcsMembers DEF SyncLog
  <2>2. unsynced' \subseteq Nat
    <3>1. unsynced \subseteq Nat /\ Len(log) \in Nat
      BY DEF TypeOK
    <3> QED
      BY <1>11, <3>1 DEF SyncLog
  <2>3. UNCHANGED <<locked, writerque, done, clientVars, updates, localVars, LastSequence,
                    log, mem, returned, raced, aborted>>
    BY <1>11 DEF SyncLog
  <2> QED
    BY <2>1, <2>2, <2>3 DEF TypeOK
<1>12. ASSUME NEW w \in Writers, InsertMem(w)
       PROVE  TypeOK'
  <2>1. pc' \in [Writers -> Pcs]
    BY <1>12, GotoType, PcsMembers DEF InsertMem
  <2>2. mem' \subseteq Entry
    BY <1>12, InsertIntoType DEF InsertMem, TypeOK
  <2>3. UNCHANGED <<locked, writerque, done, clientVars, updates, localVars, LastSequence,
                    log, returned, unsynced, raced, aborted>>
    BY <1>12 DEF InsertMem
  <2> QED
    BY <2>1, <2>2, <2>3 DEF TypeOK
<1>13. ASSUME NEW w \in Writers, Finish(w)
       PROVE  TypeOK'
  <2>1. pc' \in [Writers -> Pcs]
    BY <1>13, GotoType, PcsMembers DEF Finish
  <2>2. done' \in [Writers -> BOOLEAN]
    BY <1>13 DEF Finish, TypeOK
  <2>3. writerque' \in Seq(Writers \cup {NoWriter})
    BY <1>13 DEF Finish, NowWriter, TypeOK
  <2>4. returned' \subseteq Writers \X Nat
    BY <1>13 DEF Finish, TypeOK
  <2>5. LastSequence' \in Nat /\ locked' \in BOOLEAN
    BY <1>13 DEF Finish, TypeOK
  <2> QED
    BY <1>13, <2>1, <2>2, <2>3, <2>4, <2>5 DEF Finish, TypeOK
<1>14. ASSUME NEW w \in Writers, Abort(w)
       PROVE  TypeOK'
  BY <1>14 DEF Abort, TypeOK
<1> QED
  BY <1>1, <1>2, <1>3, <1>4, <1>5, <1>6, <1>7, <1>8, <1>9, <1>10, <1>11, <1>12,
     <1>13, <1>14 DEF Next, Step, ControlStep

\* Every variable of the write path keeps its type, whatever the clients write
\* and however their steps interleave.
THEOREM TypeCorrect == Spec => []TypeOK
BY InitType, NextType, PTL DEF Spec

(***************************************************************************)
(* The queue serialises the writers                                        *)
(***************************************************************************)

LEMMA LeaderInFrontInit == Init => LeaderInFront
BY DEF Init, LeaderInFront, LeaderPcs

\* Only Emplace and EmplaceRaced append to the deque and set raced; only Finish
\* pops; only Check lets a client through.
LEMMA LeaderInFrontStep ==
  ASSUME TypeOK, LeaderInFront, [Next]_vars
  PROVE  LeaderInFront'
<1> USE DEF LeaderInFront
<1>1. CASE UNCHANGED vars
  BY <1>1 DEF vars, IsFront
<1>2. ASSUME NEW w \in Writers, NEW l \in Pcs, Goto(w, l), l # "raced_emplace",
             l \in LeaderPcs => pc[w] \in LeaderPcs, UNCHANGED <<writerque, raced>>
      PROVE  LeaderInFront'
  BY <1>2 DEF Goto, TypeOK, IsFront
<1>3. ASSUME NEW w \in Writers, Call(w)
      PROVE  LeaderInFront'
  BY <1>2, <1>3, PcsMembers DEF Call, LeaderPcs
<1>4. ASSUME NEW w \in Writers, ControlStep(w)
      PROVE  LeaderInFront'
  <2>1. UNCHANGED <<writerque, raced>>
    BY <1>4 DEF ControlStep, Lock, WaitLock, WaitCond, Wake, WakeLock, WakeUnlock,
                MakeRoom, UnlockForLog, Relock
  <2>2. \E l \in Pcs :
          /\ Goto(w, l)
          /\ l # "raced_emplace"
          /\ l \in LeaderPcs => pc[w] \in LeaderPcs
    BY <1>4 DEF ControlStep, Lock, WaitLock, WaitCond, Wake, WakeLock, WakeUnlock,
                MakeRoom, UnlockForLog, Relock, At, Pcs, WaitPcs, LeaderPcs
  <2> QED
    BY <1>2, <2>1, <2>2
<1>5. ASSUME NEW w \in Writers, Emplace(w)
      PROVE  LeaderInFront'
  <2>1. \A v \in Writers : pc'[v] = "raced_emplace" => raced'
    BY <1>5 DEF Emplace, Emplaced, Emplacing, TypeOK
  <2>2. ASSUME ~raced', NEW v \in Writers, pc'[v] \in LeaderPcs
        PROVE  IsFront(v)'
    <3>1. ~raced /\ pc[v] \in LeaderPcs
      BY <1>5, <2>2 DEF Emplace, Emplaced, LeaderPcs, TypeOK
    <3>2. writerque # <<>> /\ Head(writerque) = v /\ writerque' = Append(writerque, w)
      BY <1>5, <3>1 DEF Emplace, IsFront
    <3>3. writerque' # <<>> /\ Head(writerque') = v
      BY <3>2 DEF TypeOK
    <3> QED
      BY <3>3 DEF IsFront
  <2> QED
    BY <2>1, <2>2
<1>6. ASSUME NEW w \in Writers, EmplaceRaced(w)
      PROVE  LeaderInFront'
  BY <1>6 DEF EmplaceRaced, Emplaced, At
<1>7. ASSUME NEW w \in Writers, Check(w)
      PROVE  LeaderInFront'
  BY <1>7 DEF Check, Goto, IsFront, LeaderPcs, TypeOK
<1>8. ASSUME NEW w \in Writers, ReadSequence(w)
      PROVE  LeaderInFront'
  BY <1>2, <1>8, PcsMembers DEF ReadSequence, At, LeaderPcs
<1>9. ASSUME NEW w \in Writers, GroupNext(w)
      PROVE  LeaderInFront'
  BY <1>9 DEF GroupNext, IsFront
<1>10. ASSUME NEW w \in Writers, GroupEnd(w)
       PROVE  LeaderInFront'
  BY <1>2, <1>10, PcsMembers DEF GroupEnd, GroupEndWith, At, LeaderPcs
<1>11. ASSUME NEW w \in Writers, AppendRecord(w)
       PROVE  LeaderInFront'
  BY <1>2, <1>11, PcsMembers DEF AppendRecord, At, LeaderPcs
<1>12. ASSUME NEW w \in Writers, SyncLog(w)
       PROVE  LeaderInFront'
  BY <1>2, <1>12, PcsMembers DEF SyncLog, At, LeaderPcs
<1>13. ASSUME NEW w \in Writers, InsertMem(w)
       PROVE  LeaderInFront'
  BY <1>2, <1>13, PcsMembers DEF InsertMem, At, LeaderPcs
<1>14. ASSUME NEW w \in Writers, Finish(w)
       PROVE  LeaderInFront'
  <2>1. raced' = raced /\ pc' = [pc EXCEPT ![w] = "idle"] /\ Head(writerque) = w
    BY <1>14 DEF Finish, Goto, Intact, IsFront
  <2>2. ASSUME ~raced, NEW v \in Writers, pc'[v] \in LeaderPcs
        PROVE  FALSE
    <3>1. v # w /\ pc[v] \in LeaderPcs
      BY <2>1, <2>2 DEF LeaderPcs, TypeOK
    <3> QED
      BY <2>1, <2>2, <3>1 DEF IsFront
  <2>3. \A v \in Writers : pc'[v] = "raced_emplace" => raced'
    BY <2>1 DEF TypeOK
  <2> QED
    BY <2>1, <2>2, <2>3
<1>15. ASSUME NEW w \in Writers, Abort(w)
       PROVE  LeaderInFront'
  BY <1>15 DEF Abort, IsFront
<1> QED
  BY <1>1, <1>3, <1>4, <1>5, <1>6, <1>7, <1>8, <1>9, <1>10, <1>11, <1>12, <1>13,
     <1>14, <1>15 DEF Next, Step, ControlStep

LEMMA FrontIsUnique == LeaderInFront => SingleLeader
BY DEF LeaderInFront, SingleLeader, IsFront

\* DBImpl::Write lets one client at a time write the log and the memtable, for any
\* number of clients and although its mutex does not exclude, until two
\* emplace_backs overlap.
THEOREM OneLeader == Spec => []SingleLeader
<1>1. Init => LeaderInFront
  BY LeaderInFrontInit
<1>2. TypeOK /\ LeaderInFront /\ [Next]_vars => LeaderInFront'
  BY LeaderInFrontStep
<1> QED
  BY <1>1, <1>2, TypeCorrect, FrontIsUnique, PTL DEF Spec

(***************************************************************************)
(* Sequence numbers                                                        *)
(***************************************************************************)

\* The clients whose pc carries a claim about sequence numbers.
NumberedPcs == {"unlock", "append"} \cup LoggedPcs

OrderInv == SequenceInv /\ LogOrdered

LEMMA OrderInit == Init => OrderInv
<1> SUFFICES ASSUME Init PROVE OrderInv
  OBVIOUS
<1>1. log = <<>> /\ \A w \in Writers : pc[w] = "idle"
  BY DEF Init
<1> QED
  BY <1>1 DEF OrderInv, SequenceInv, LogOrdered, LoggedPcs

\* A step that leaves the log, the sequence numbers and the numbered batches
\* alone, and moves no client into or out of the steps between GroupEnd and
\* Finish, keeps the order.
LEMMA OrderFrame ==
  ASSUME OrderInv, raced => raced',
         UNCHANGED <<log, LastSequence, last_sequence>>,
         \A v \in Writers :
           /\ pc'[v] = "group" => pc[v] = "group"
           /\ pc'[v] \in NumberedPcs =>
                pc[v] \in NumberedPcs /\ updates'[v].seq = updates[v].seq
                                     /\ updates'[v].count = updates[v].count
           /\ pc[v] \in LoggedPcs => pc'[v] \in LoggedPcs
  PROVE  OrderInv'
BY DEF OrderInv, SequenceInv, LogOrdered, NumberedPcs

LEMMA OrderStep ==
  ASSUME TypeOK, LeaderInFront, OrderInv, [Next]_vars
  PROVE  OrderInv'
<1> USE DEF clientVars, dataVars, localVars
<1>1. CASE UNCHANGED vars
  BY <1>1, OrderFrame DEF vars
<1>2. ASSUME NEW w \in Writers, Call(w)
      PROVE  OrderInv'
  <2>1. pc' = [pc EXCEPT ![w] = "lock"] /\ \A v \in Writers \ {w} : updates'[v] = updates[v]
    BY <1>2 DEF Call, Goto, TypeOK
  <2>2. \A v \in Writers : pc'[v] = IF v = w THEN "lock" ELSE pc[v]
    BY <2>1 DEF TypeOK
  <2>3. pc[w] = "idle" /\ UNCHANGED <<log, LastSequence, last_sequence, raced>>
    BY <1>2 DEF Call, At
  <2> QED
    BY <2>1, <2>2, <2>3, OrderFrame DEF NumberedPcs, LoggedPcs
<1>3. ASSUME NEW w \in Writers, ControlStep(w)
      PROVE  OrderInv'
  <2>1. UNCHANGED <<log, LastSequence, last_sequence, updates, raced>>
    BY <1>3 DEF ControlStep, Lock, WaitLock, WaitCond, Wake, WakeLock, WakeUnlock,
                MakeRoom, UnlockForLog, Relock
  <2>2. PICK l \in Pcs :
          /\ Goto(w, l)
          /\ l # "group"
          /\ l \in NumberedPcs => pc[w] \in NumberedPcs
          /\ pc[w] \in LoggedPcs => l \in LoggedPcs
    BY <1>3 DEF ControlStep, Lock, WaitLock, WaitCond, Wake, WakeLock, WakeUnlock,
                MakeRoom, UnlockForLog, Relock, At, Pcs, WaitPcs, LeaderPcs,
                NumberedPcs, LoggedPcs
  <2>3. \A v \in Writers : pc'[v] = IF v = w THEN l ELSE pc[v]
    BY <2>2 DEF Goto, TypeOK
  <2> QED
    BY <2>1, <2>2, <2>3, OrderFrame
<1>4. ASSUME NEW w \in Writers, Emplace(w) \/ EmplaceRaced(w)
      PROVE  OrderInv'
  <2>1. /\ UNCHANGED <<log, LastSequence, last_sequence, updates>>
        /\ Emplaced(w) /\ pc[w] \in {"emplace", "raced_emplace"}
    BY <1>4 DEF Emplace, EmplaceRaced, At
  <2>2. raced => raced'
    BY <2>1 DEF Emplaced
  <2>3. \A v \in Writers :
          \/ pc'[v] = pc[v]
          \/ /\ pc'[v] \in {"check", "raced_emplace"}
             /\ pc[v] \in {"emplace", "raced_emplace"}
    BY <2>1 DEF Emplaced, Emplacing
  <2> QED
    BY <2>1, <2>2, <2>3, OrderFrame DEF NumberedPcs, LoggedPcs
<1>5. ASSUME NEW w \in Writers, Check(w)
      PROVE  OrderInv'
  <2>1. /\ UNCHANGED <<log, LastSequence, last_sequence, updates, raced>>
        /\ pc[w] = "check"
        /\ \E l \in {"idle", "room", "wait_lock"} : Goto(w, l)
    BY <1>5 DEF Check, At
  <2>2. \A v \in Writers : \/ pc'[v] = pc[v]
                           \/ /\ pc[v] = "check"
                              /\ pc'[v] \in {"idle", "room", "wait_lock"}
    BY <2>1 DEF Goto, TypeOK
  <2> QED
    BY <2>1, <2>2, OrderFrame DEF NumberedPcs, LoggedPcs
<1>6. ASSUME NEW w \in Writers, ReadSequence(w)
      PROVE  OrderInv'
  <2>1. /\ UNCHANGED <<log, LastSequence, updates, raced>>
        /\ pc[w] = "read_seq"
    BY <1>6 DEF ReadSequence, At
  <2>2. \A v \in Writers :
          /\ pc'[v] = IF v = w THEN "group" ELSE pc[v]
          /\ last_sequence'[v] = IF v = w THEN LastSequence ELSE last_sequence[v]
    BY <1>6 DEF ReadSequence, Goto, TypeOK
  <2> QED
    BY <2>1, <2>2 DEF OrderInv, SequenceInv, LogOrdered, LoggedPcs
<1>7. ASSUME NEW w \in Writers, GroupNext(w)
      PROVE  OrderInv'
  <2>1. /\ UNCHANGED <<log, LastSequence, last_sequence, pc, raced>>
        /\ pc[w] = "group"
        /\ \A v \in Writers \ {w} : updates'[v] = updates[v]
    BY <1>7 DEF GroupNext, At, TypeOK
  <2> QED
    BY <2>1, OrderFrame DEF NumberedPcs, LoggedPcs
<1>8. ASSUME NEW w \in Writers, GroupEnd(w)
      PROVE  OrderInv'
  <2>1. /\ UNCHANGED <<log, LastSequence, raced>>
        /\ pc[w] = "group"
    BY <1>8 DEF GroupEnd, GroupEndWith, At
  <2>2. \A v \in Writers :
          /\ pc'[v] = IF v = w THEN "unlock" ELSE pc[v]
          /\ last_sequence'[v] = IF v = w THEN last_sequence[w] + updates[w].count
                                ELSE last_sequence[v]
          /\ v # w => updates'[v] = updates[v]
    BY <1>8 DEF GroupEnd, GroupEndWith, Goto, TypeOK
  <2>3. updates'[w].seq = last_sequence[w] + 1 /\ updates'[w].count = updates[w].count
    BY <1>8 DEF GroupEnd, GroupEndWith, SetSequence, TypeOK
  <2> QED
    BY <2>1, <2>2, <2>3 DEF OrderInv, SequenceInv, LogOrdered, LoggedPcs
<1>9. ASSUME NEW w \in Writers, AppendRecord(w)
      PROVE  OrderInv'
  <2>1. /\ UNCHANGED <<LastSequence, last_sequence, updates, raced>>
        /\ pc[w] = "append"
        /\ log' = Append(log, updates[w])
        /\ \E l \in {"sync", "insert"} : Goto(w, l)
    BY <1>9 DEF AppendRecord, At
  <2>2. \A v \in Writers : /\ v = w => pc'[v] \in {"sync", "insert"}
                           /\ v # w => pc'[v] = pc[v]
    BY <2>1 DEF Goto, TypeOK
  <2> SUFFICES ASSUME ~raced
               PROVE  OrderInv'
    BY <2>1 DEF OrderInv, SequenceInv, LogOrdered
  <2>3. \A v \in Writers \ {w} : pc[v] \notin LeaderPcs
    BY <2>1, FrontIsUnique DEF SingleLeader, LeaderPcs
  <2>4. /\ updates[w].seq = LastSequence + 1
        /\ last_sequence[w] = LastSequence + updates[w].count
        /\ updates[w] \in Batch
    BY <2>1 DEF OrderInv, SequenceInv, LoggedPcs, TypeOK
  <2>5. \A i \in DOMAIN log : log[i].seq + log[i].count =< LastSequence + 1
    BY <2>1, <2>3 DEF OrderInv, SequenceInv, LoggedPcs, LeaderPcs
  <2>6. /\ Len(log) \in Nat /\ DOMAIN log = 1..Len(log)
        /\ DOMAIN log' = 1..(Len(log) + 1)
        /\ log'[Len(log) + 1] = updates[w]
        /\ \A i \in 1..Len(log) : log'[i] = log[i] /\ log[i] \in Batch
    BY <2>1 DEF TypeOK
  <2>7. LogOrdered'
    <3> SUFFICES ASSUME NEW i \in DOMAIN log', NEW j \in DOMAIN log', i < j
                 PROVE  log'[i].seq + log'[i].count =< log'[j].seq
      BY DEF LogOrdered
    <3>1. CASE j = Len(log) + 1
      BY <2>4, <2>5, <2>6, <3>1
    <3>2. CASE j # Len(log) + 1
      BY <2>6, <3>2 DEF OrderInv, LogOrdered
    <3> QED
      BY <3>1, <3>2
  <2>8. \A i \in DOMAIN log' : log'[i].seq + log'[i].count =< last_sequence'[w] + 1
    <3> SUFFICES ASSUME NEW i \in DOMAIN log'
                 PROVE  log'[i].seq + log'[i].count =< last_sequence[w] + 1
      BY <2>1
    <3>1. updates[w].count \in Nat /\ updates[w].seq \in Nat /\ LastSequence \in Nat
      BY <2>4 DEF Batch, TypeOK
    <3>2. CASE i = Len(log) + 1
      BY <2>4, <2>6, <3>1, <3>2
    <3>3. CASE i # Len(log) + 1
      <4>1. i \in DOMAIN log /\ log'[i] = log[i]
        BY <2>6, <3>3
      <4>2. log[i].seq \in Nat /\ log[i].count \in Nat
        BY <2>6, <4>1 DEF Batch
      <4> QED
        BY <2>4, <2>5, <3>1, <4>1, <4>2
    <3> QED
      BY <3>2, <3>3
  <2>9. SequenceInv'
    <3>1. \A v \in Writers : pc'[v] = "group" => last_sequence'[v] = LastSequence'
      BY <2>1, <2>2, <2>3 DEF LeaderPcs
    <3>2. \A v \in Writers : pc'[v] \in NumberedPcs =>
            /\ updates'[v].seq = LastSequence' + 1
            /\ last_sequence'[v] = LastSequence' + updates'[v].count
      BY <2>1, <2>2, <2>3, <2>4 DEF LeaderPcs, NumberedPcs, LoggedPcs
    <3>3. pc'[w] \in LoggedPcs
      BY <2>2 DEF LoggedPcs
    <3> QED
      BY <2>8, <3>1, <3>2, <3>3 DEF SequenceInv, NumberedPcs
  <2> QED
    BY <2>7, <2>9 DEF OrderInv
<1>10. ASSUME NEW w \in Writers, SyncLog(w) \/ InsertMem(w)
       PROVE  OrderInv'
  <2>1. /\ UNCHANGED <<log, LastSequence, last_sequence, updates, raced>>
        /\ pc[w] \in LoggedPcs
        /\ \E l \in {"insert", "relock"} : Goto(w, l)
    BY <1>10 DEF SyncLog, InsertMem, At, LoggedPcs
  <2>2. \A v \in Writers : /\ v = w => pc'[v] \in {"insert", "relock"}
                           /\ v # w => pc'[v] = pc[v]
    BY <2>1 DEF Goto, TypeOK
  <2> QED
    BY <2>1, <2>2, OrderFrame DEF NumberedPcs, LoggedPcs
<1>11. ASSUME NEW w \in Writers, Finish(w)
       PROVE  OrderInv'
  <2>1. /\ UNCHANGED <<log, last_sequence, updates, raced>>
        /\ LastSequence' = last_sequence[w]
        /\ pc[w] = "finish"
    BY <1>11 DEF Finish, At
  <2>2. \A v \in Writers : pc'[v] = IF v = w THEN "idle" ELSE pc[v]
    BY <1>11 DEF Finish, Goto, TypeOK
  <2> SUFFICES ASSUME ~raced
               PROVE  OrderInv'
    BY <2>1 DEF OrderInv, SequenceInv, LogOrdered
  <2>3. \A v \in Writers : pc'[v] \notin LeaderPcs
    BY <2>1, <2>2, FrontIsUnique DEF SingleLeader, LeaderPcs
  <2>4. \A i \in DOMAIN log : log[i].seq + log[i].count =< last_sequence[w] + 1
    <3> SUFFICES ASSUME NEW i \in DOMAIN log
                 PROVE  log[i].seq + log[i].count =< last_sequence[w] + 1
      OBVIOUS
    <3>1. /\ last_sequence[w] = LastSequence + updates[w].count
          /\ updates[w] \in Batch
          /\ LastSequence \in Nat
      BY <2>1 DEF OrderInv, SequenceInv, LoggedPcs, TypeOK
    <3>4. log[i] \in Batch
      BY DEF TypeOK
    <3>2. \A v \in Writers : pc[v] \in LoggedPcs => v = w
      BY <2>2, <2>3 DEF LoggedPcs, LeaderPcs
    <3>3. \/ log[i].seq + log[i].count =< LastSequence + 1
          \/ log[i].seq + log[i].count =< last_sequence[w] + 1
      BY <3>2 DEF OrderInv, SequenceInv
    <3> QED
      BY <3>1, <3>3, <3>4 DEF Batch
  <2>5. SequenceInv'
    BY <2>1, <2>3, <2>4 DEF SequenceInv, LoggedPcs, LeaderPcs
  <2> QED
    BY <2>1, <2>5 DEF OrderInv, LogOrdered
<1>12. ASSUME NEW w \in Writers, Abort(w)
       PROVE  OrderInv'
  BY <1>12, OrderFrame DEF Abort
<1> QED
  BY <1>1, <1>2, <1>3, <1>4, <1>5, <1>6, <1>7, <1>8, <1>9, <1>10, <1>11, <1>12
  DEF Next, Step, ControlStep

\* Write hands out every sequence number once: the ranges of the log's records are
\* disjoint and increasing, for any number of clients and any grouping, until two
\* emplace_backs overlap.
THEOREM SequencesOrdered == Spec => []LogOrdered
<1>1. Init => LeaderInFront /\ OrderInv
  BY LeaderInFrontInit, OrderInit
<1>2. TypeOK /\ LeaderInFront /\ OrderInv /\ [Next]_vars => LeaderInFront' /\ OrderInv'
  BY LeaderInFrontStep, OrderStep
<1>3. OrderInv => LogOrdered
  BY DEF OrderInv
<1> QED
  BY <1>1, <1>2, <1>3, TypeCorrect, PTL DEF Spec

(***************************************************************************)
(* The log is written ahead                                                *)
(***************************************************************************)

AheadInv == LoggedInv /\ WriteAhead

LEMMA AheadInit == Init => AheadInv
BY DEF Init, AheadInv, LoggedInv, WriteAhead

\* A step that does not touch the memtable, at most appends to the log, and
\* neither changes the batch of a client between AppendRecord and InsertMem nor
\* brings a client there, keeps the log ahead.
LEMMA AheadFrame ==
  ASSUME AheadInv, mem' = mem,
         \A i \in DOMAIN log : i \in DOMAIN log' /\ log'[i] = log[i],
         \A v \in Writers : pc'[v] \in {"sync", "insert"} =>
           \/ pc[v] \in {"sync", "insert"} /\ updates'[v] = updates[v]
           \/ \E i \in DOMAIN log' : log'[i] = updates'[v]
  PROVE  AheadInv'
<1>1. LoggedInv'
  BY DEF AheadInv, LoggedInv
<1>2. WriteAhead'
  BY DEF AheadInv, WriteAhead, InsertInto
<1> QED
  BY <1>1, <1>2 DEF AheadInv

LEMMA AheadStep ==
  ASSUME TypeOK, AheadInv, [Next]_vars
  PROVE  AheadInv'
<1> USE DEF clientVars, dataVars, localVars
<1>1. CASE UNCHANGED vars
  BY <1>1, AheadFrame DEF vars
<1>2. ASSUME NEW w \in Writers, NEW l \in Pcs, Goto(w, l),
             l \in {"sync", "insert"} => pc[w] \in {"sync", "insert"},
             l \notin {"sync", "insert"} \/ updates'[w] = updates[w],
             \A v \in Writers \ {w} : updates'[v] = updates[v],
             UNCHANGED <<log, mem>>
      PROVE  AheadInv'
  <2>1. \A v \in Writers : pc'[v] = IF v = w THEN l ELSE pc[v]
    BY <1>2 DEF Goto, TypeOK
  <2> QED
    BY <1>2, <2>1, AheadFrame
<1>3. ASSUME NEW w \in Writers, Call(w)
      PROVE  AheadInv'
  <2>1. \A v \in Writers \ {w} : updates'[v] = updates[v]
    BY <1>3 DEF Call, TypeOK
  <2> QED
    BY <1>2, <1>3, <2>1, PcsMembers DEF Call
<1>4. ASSUME NEW w \in Writers, ControlStep(w)
      PROVE  AheadInv'
  <2>1. UNCHANGED <<log, mem, updates>>
    BY <1>4 DEF ControlStep, Lock, WaitLock, WaitCond, Wake, WakeLock, WakeUnlock,
                MakeRoom, UnlockForLog, Relock
  <2>2. \E l \in Pcs : Goto(w, l) /\ l \notin {"sync", "insert"}
    BY <1>4 DEF ControlStep, Lock, WaitLock, WaitCond, Wake, WakeLock, WakeUnlock,
                MakeRoom, UnlockForLog, Relock, Pcs, WaitPcs, LeaderPcs
  <2> QED
    BY <1>2, <2>1, <2>2
<1>5. ASSUME NEW w \in Writers, Emplace(w) \/ EmplaceRaced(w)
      PROVE  AheadInv'
  <2>1. UNCHANGED <<log, mem, updates>> /\ Emplaced(w)
    BY <1>5 DEF Emplace, EmplaceRaced
  <2>2. \A v \in Writers : pc'[v] = pc[v] \/ pc'[v] \in {"check", "raced_emplace"}
    BY <2>1 DEF Emplaced
  <2> QED
    BY <2>1, <2>2, AheadFrame
<1>6. ASSUME NEW w \in Writers, Check(w)
      PROVE  AheadInv'
  <2>1. /\ UNCHANGED <<log, mem, updates>>
        /\ \E l \in {"idle", "room", "wait_lock"} : Goto(w, l)
    BY <1>6 DEF Check
  <2> QED
    BY <1>2, <2>1, PcsMembers
<1>7. ASSUME NEW w \in Writers, ReadSequence(w)
      PROVE  AheadInv'
  BY <1>2, <1>7, PcsMembers DEF ReadSequence
<1>8. ASSUME NEW w \in Writers, GroupNext(w)
      PROVE  AheadInv'
  <2>1. /\ UNCHANGED <<log, mem, pc>>
        /\ pc[w] = "group"
        /\ \A v \in Writers \ {w} : updates'[v] = updates[v]
    BY <1>8 DEF GroupNext, At, TypeOK
  <2> QED
    BY <2>1, AheadFrame
<1>9. ASSUME NEW w \in Writers, GroupEnd(w)
      PROVE  AheadInv'
  <2>1. \A v \in Writers \ {w} : updates'[v] = updates[v]
    BY <1>9 DEF GroupEnd, GroupEndWith, TypeOK
  <2> QED
    BY <1>2, <1>9, <2>1, PcsMembers DEF GroupEnd, GroupEndWith
<1>10. ASSUME NEW w \in Writers, AppendRecord(w)
       PROVE  AheadInv'
  <2>1. /\ UNCHANGED <<mem, updates>>
        /\ log' = Append(log, updates[w])
        /\ \A v \in Writers \ {w} : pc'[v] = pc[v]
    BY <1>10 DEF AppendRecord, Goto, TypeOK
  <2>2. /\ \A i \in DOMAIN log : i \in DOMAIN log' /\ log'[i] = log[i]
        /\ \E i \in DOMAIN log' : log'[i] = updates'[w]
    <3>1. Len(log) + 1 \in DOMAIN log' /\ log'[Len(log) + 1] = updates[w]
      BY <2>1 DEF TypeOK
    <3>2. \A i \in DOMAIN log : i \in DOMAIN log' /\ log'[i] = log[i]
      BY <2>1 DEF TypeOK
    <3> QED
      BY <2>1, <3>1, <3>2
  <2> QED
    BY <2>1, <2>2, AheadFrame
<1>11. ASSUME NEW w \in Writers, SyncLog(w)
       PROVE  AheadInv'
  <2>1. /\ UNCHANGED <<log, mem, updates>>
        /\ pc[w] = "sync"
        /\ \E l \in {"insert", "relock"} : Goto(w, l)
    BY <1>11 DEF SyncLog, At
  <2> QED
    BY <1>2, <2>1, PcsMembers
<1>12. ASSUME NEW w \in Writers, InsertMem(w)
       PROVE  AheadInv'
  <2>1. /\ UNCHANGED <<log, updates>>
        /\ pc[w] = "insert"
        /\ mem' = mem \cup InsertInto(updates[w])
    BY <1>12 DEF InsertMem, At
  <2>2. \A v \in Writers : pc'[v] = IF v = w THEN "relock" ELSE pc[v]
    BY <1>12 DEF InsertMem, Goto, TypeOK
  <2>3. LoggedInv'
    BY <2>1, <2>2 DEF AheadInv, LoggedInv
  <2>4. PICK i \in DOMAIN log : log[i] = updates[w]
    BY <2>1 DEF AheadInv, LoggedInv
  <2>5. \A e \in mem' : \E k \in DOMAIN log : e \in InsertInto(log[k])
    BY <2>1, <2>4 DEF AheadInv, WriteAhead
  <2>6. WriteAhead'
    BY <2>1, <2>5 DEF WriteAhead, InsertInto
  <2> QED
    BY <2>3, <2>6 DEF AheadInv
<1>13. ASSUME NEW w \in Writers, Finish(w)
       PROVE  AheadInv'
  BY <1>2, <1>13, PcsMembers DEF Finish
<1>14. ASSUME NEW w \in Writers, Abort(w)
       PROVE  AheadInv'
  BY <1>14, AheadFrame DEF Abort
<1> QED
  BY <1>1, <1>3, <1>4, <1>5, <1>6, <1>7, <1>8, <1>9, <1>10, <1>11, <1>12, <1>13,
     <1>14 DEF Next, Step, ControlStep

\* Write never puts an entry in the memtable that the log does not hold under the
\* same sequence number, even after emplace_backs have overlapped.
THEOREM LogWrittenAhead == Spec => []WriteAhead
<1>1. TypeOK /\ AheadInv /\ [Next]_vars => AheadInv'
  BY AheadStep
<1>2. AheadInv => WriteAhead
  BY DEF AheadInv
<1> QED
  BY <1>1, <1>2, AheadInit, TypeCorrect, PTL DEF Spec

(***************************************************************************)
(* A batch becomes visible at once                                         *)
(***************************************************************************)

\* The record i is in the memtable as a whole, or its Sync failed, or it is the
\* last one and the leader that appended it is still on its way to the memtable.
Settled(i) ==
  \/ InsertInto(log[i]) \subseteq mem
  \/ i \in unsynced
  \/ i = Len(log) /\ \E w \in Writers : pc[w] \in {"sync", "insert"} /\ log[i] = updates[w]

VisibleInv == ~raced => \A i \in DOMAIN log : Settled(i)

LEMMA VisibleInit == Init => VisibleInv
BY DEF Init, VisibleInv

\* A step that leaves the log alone, takes nothing out of the memtable, and keeps
\* the clients on their way to the memtable there with their batches.
LEMMA VisibleFrame ==
  ASSUME VisibleInv, raced => raced', log' = log, mem \subseteq mem',
         unsynced \subseteq unsynced',
         \A v \in Writers : pc[v] \in {"sync", "insert"} =>
           pc'[v] \in {"sync", "insert"} /\ updates'[v] = updates[v]
  PROVE  VisibleInv'
<1> SUFFICES ASSUME ~raced', NEW i \in DOMAIN log
             PROVE  Settled(i)'
  BY DEF VisibleInv
<1>1. Settled(i)
  BY DEF VisibleInv
<1>2. CASE InsertInto(log[i]) \subseteq mem
  BY <1>2 DEF Settled, InsertInto
<1>3. CASE i \in unsynced
  BY <1>3 DEF Settled
<1>4. CASE i = Len(log) /\ \E w \in Writers : pc[w] \in {"sync", "insert"} /\ log[i] = updates[w]
  BY <1>4 DEF Settled
<1> QED
  BY <1>1, <1>2, <1>3, <1>4 DEF Settled

LEMMA VisibleStep ==
  ASSUME TypeOK, LeaderInFront, VisibleInv, [Next]_vars
  PROVE  VisibleInv'
<1> USE DEF clientVars, dataVars, localVars
<1>1. CASE UNCHANGED vars
  BY <1>1, VisibleFrame DEF vars
<1>2. ASSUME NEW w \in Writers, NEW l \in Pcs, Goto(w, l),
             pc[w] \notin {"sync", "insert"},
             \A v \in Writers \ {w} : updates'[v] = updates[v],
             UNCHANGED <<log, mem, unsynced, raced>>
      PROVE  VisibleInv'
  <2>1. \A v \in Writers \ {w} : pc'[v] = pc[v]
    BY <1>2 DEF Goto, TypeOK
  <2> QED
    BY <1>2, <2>1, VisibleFrame
<1>3. ASSUME NEW w \in Writers, Call(w)
      PROVE  VisibleInv'
  <2>1. \A v \in Writers \ {w} : updates'[v] = updates[v]
    BY <1>3 DEF Call, TypeOK
  <2> QED
    BY <1>2, <1>3, <2>1, PcsMembers DEF Call, At
<1>4. ASSUME NEW w \in Writers, ControlStep(w)
      PROVE  VisibleInv'
  <2>1. UNCHANGED <<log, mem, unsynced, updates, raced>>
    BY <1>4 DEF ControlStep, Lock, WaitLock, WaitCond, Wake, WakeLock, WakeUnlock,
                MakeRoom, UnlockForLog, Relock
  <2>2. pc[w] \notin {"sync", "insert"} /\ \E l \in Pcs : Goto(w, l)
    BY <1>4 DEF ControlStep, Lock, WaitLock, WaitCond, Wake, WakeLock, WakeUnlock,
                MakeRoom, UnlockForLog, Relock, At, Pcs, WaitPcs, LeaderPcs
  <2> QED
    BY <1>2, <2>1, <2>2
<1>5. ASSUME NEW w \in Writers, Emplace(w) \/ EmplaceRaced(w)
      PROVE  VisibleInv'
  <2>1. UNCHANGED <<log, mem, unsynced, updates>> /\ Emplaced(w)
        /\ pc[w] \in {"emplace", "raced_emplace"}
    BY <1>5 DEF Emplace, EmplaceRaced, At
  <2>2. raced => raced'
    BY <2>1 DEF Emplaced
  <2>3. \A v \in Writers : pc[v] \in {"sync", "insert"} => pc'[v] = pc[v]
    BY <2>1 DEF Emplaced, Emplacing
  <2> QED
    BY <2>1, <2>2, <2>3, VisibleFrame
<1>6. ASSUME NEW w \in Writers, Check(w)
      PROVE  VisibleInv'
  <2>1. /\ UNCHANGED <<log, mem, unsynced, updates, raced>>
        /\ \E l \in {"idle", "room", "wait_lock"} : Goto(w, l)
        /\ pc[w] = "check"
    BY <1>6 DEF Check, At
  <2> QED
    BY <1>2, <2>1, PcsMembers
<1>7. ASSUME NEW w \in Writers, ReadSequence(w)
      PROVE  VisibleInv'
  BY <1>2, <1>7, PcsMembers DEF ReadSequence, At
<1>8. ASSUME NEW w \in Writers, GroupNext(w)
      PROVE  VisibleInv'
  <2>1. /\ UNCHANGED <<log, mem, unsynced, pc, raced>>
        /\ pc[w] = "group"
        /\ \A v \in Writers \ {w} : updates'[v] = updates[v]
    BY <1>8 DEF GroupNext, At, TypeOK
  <2> QED
    BY <2>1, VisibleFrame
<1>9. ASSUME NEW w \in Writers, GroupEnd(w)
      PROVE  VisibleInv'
  <2>1. \A v \in Writers \ {w} : updates'[v] = updates[v]
    BY <1>9 DEF GroupEnd, GroupEndWith, TypeOK
  <2> QED
    BY <1>2, <1>9, <2>1, PcsMembers DEF GroupEnd, GroupEndWith, At
<1>10. ASSUME NEW w \in Writers, AppendRecord(w)
       PROVE  VisibleInv'
  <2>1. /\ UNCHANGED <<mem, unsynced, updates, raced>>
        /\ pc[w] = "append"
        /\ log' = Append(log, updates[w])
        /\ \E l \in {"sync", "insert"} : Goto(w, l)
    BY <1>10 DEF AppendRecord, At
  <2>2. pc'[w] \in {"sync", "insert"}
    BY <2>1 DEF Goto, TypeOK
  <2> SUFFICES ASSUME ~raced, NEW i \in DOMAIN log'
               PROVE  Settled(i)'
    BY <2>1 DEF VisibleInv
  <2>3. \A v \in Writers : pc[v] \notin {"sync", "insert"}
    BY <2>1, FrontIsUnique DEF SingleLeader, LeaderPcs
  <2>4. /\ Len(log') = Len(log) + 1 /\ Len(log) \in Nat
        /\ DOMAIN log = 1..Len(log) /\ DOMAIN log' = 1..(Len(log) + 1)
        /\ log'[Len(log) + 1] = updates[w]
        /\ \A k \in 1..Len(log) : log'[k] = log[k]
    BY <2>1 DEF TypeOK
  <2>5. CASE i = Len(log) + 1
    <3>1. i = Len(log') /\ log'[i] = updates'[w]
      BY <2>1, <2>4, <2>5
    <3> QED
      BY <2>2, <3>1 DEF Settled
  <2>6. CASE i # Len(log) + 1
    <3>1. i \in DOMAIN log /\ log'[i] = log[i]
      BY <2>4, <2>6
    <3>2. Settled(i)
      BY <3>1 DEF VisibleInv
    <3>3. InsertInto(log[i]) \subseteq mem \/ i \in unsynced
      BY <2>3, <3>2 DEF Settled
    <3> QED
      BY <2>1, <3>1, <3>3 DEF Settled, InsertInto
  <2> QED
    BY <2>5, <2>6
<1>11. ASSUME NEW w \in Writers, SyncLog(w)
       PROVE  VisibleInv'
  <2>1. UNCHANGED <<log, mem, updates, raced>> /\ pc[w] = "sync"
    BY <1>11 DEF SyncLog, At
  <2>2. CASE Goto(w, "insert") /\ UNCHANGED unsynced
    <3>1. \A v \in Writers : pc'[v] = IF v = w THEN "insert" ELSE pc[v]
      BY <2>2 DEF Goto, TypeOK
    <3> QED
      BY <2>1, <2>2, <3>1, VisibleFrame
  <2>3. CASE Goto(w, "relock") /\ unsynced' = unsynced \cup {Len(log)}
    <3> SUFFICES ASSUME ~raced, NEW i \in DOMAIN log
                 PROVE  Settled(i)'
      BY <2>1 DEF VisibleInv
    <3>1. Settled(i)
      BY DEF VisibleInv
    <3>2. InsertInto(log[i]) \subseteq mem \/ i \in unsynced \/ i = Len(log)
      BY <3>1 DEF Settled
    <3> QED
      BY <2>1, <2>3, <3>2 DEF Settled, InsertInto
  <2> QED
    BY <1>11, <2>2, <2>3 DEF SyncLog
<1>12. ASSUME NEW w \in Writers, InsertMem(w)
       PROVE  VisibleInv'
  <2>1. /\ UNCHANGED <<log, unsynced, updates, raced>>
        /\ pc[w] = "insert"
        /\ mem' = mem \cup InsertInto(updates[w])
    BY <1>12 DEF InsertMem, At
  <2> SUFFICES ASSUME ~raced, NEW i \in DOMAIN log
               PROVE  Settled(i)'
    BY <2>1 DEF VisibleInv
  <2>2. \A v \in Writers : pc[v] \in {"sync", "insert"} => v = w
    BY <2>1, FrontIsUnique DEF SingleLeader, LeaderPcs
  <2>3. Settled(i)
    BY DEF VisibleInv
  <2>4. InsertInto(log[i]) \subseteq mem' \/ i \in unsynced
    BY <2>1, <2>2, <2>3 DEF Settled
  <2> QED
    BY <2>1, <2>4 DEF Settled, InsertInto
<1>13. ASSUME NEW w \in Writers, Finish(w)
       PROVE  VisibleInv'
  BY <1>2, <1>13, PcsMembers DEF Finish, At
<1>14. ASSUME NEW w \in Writers, Abort(w)
       PROVE  VisibleInv'
  BY <1>14, VisibleFrame DEF Abort
<1> QED
  BY <1>1, <1>3, <1>4, <1>5, <1>6, <1>7, <1>8, <1>9, <1>10, <1>11, <1>12, <1>13,
     <1>14 DEF Next, Step, ControlStep

\* A record still on its way to the memtable lies above LastSequence.
LEMMA SettledVisible ==
  ASSUME TypeOK, OrderInv, VisibleInv
  PROVE  AtomicVisibility
<1> SUFFICES ASSUME ~raced, NEW i \in DOMAIN log
             PROVE  \/ log[i].seq > LastSequence
                    \/ i \in unsynced
                    \/ InsertInto(log[i]) \subseteq mem
  BY DEF AtomicVisibility
<1>1. Settled(i)
  BY DEF VisibleInv
<1>2. ASSUME NEW w \in Writers, pc[w] \in {"sync", "insert"}, log[i] = updates[w]
      PROVE  log[i].seq > LastSequence
  <2>1. updates[w].seq = LastSequence + 1 /\ LastSequence \in Nat
    BY <1>2 DEF OrderInv, SequenceInv, LoggedPcs, TypeOK
  <2> QED
    BY <1>2, <2>1
<1> QED
  BY <1>1, <1>2 DEF Settled

\* Once Write has published the sequence number of a batch, whether or not it was
\* grouped, a reader that takes LastSequence as its snapshot finds the batch as a
\* whole in the memtable, unless the Sync of its record failed: for any number of
\* clients, until two emplace_backs overlap.
THEOREM VisibleAtOnce == Spec => []AtomicVisibility
<1>1. Init => LeaderInFront /\ OrderInv /\ VisibleInv
  BY LeaderInFrontInit, OrderInit, VisibleInit
<1>2. TypeOK /\ LeaderInFront /\ OrderInv /\ VisibleInv /\ [Next]_vars
        => LeaderInFront' /\ OrderInv' /\ VisibleInv'
  BY LeaderInFrontStep, OrderStep, VisibleStep
<1>3. TypeOK /\ OrderInv /\ VisibleInv => AtomicVisibility
  BY SettledVisible
<1> QED
  BY <1>1, <1>2, <1>3, TypeCorrect, PTL DEF Spec

(***************************************************************************)
(* What has returned is in the log                                         *)
(***************************************************************************)

\* Under one condition per line: nobody is ever marked done; the deque holds each
\* of its clients once, and only clients that are inside Write; a client that
\* waits has a batch of its own operations; a leader's batch holds, of its own
\* operations, those of the present call only; what a client's present call is
\* has not returned; and the batch of a client outside Write is in the log.
QueueInv ==
  ~raced =>
    /\ \A i, j \in DOMAIN writerque : writerque[i] = writerque[j] => i = j
    /\ \A i \in DOMAIN writerque :
         writerque[i] \in Writers /\ pc[writerque[i]] \in WaitPcs \cup LeaderPcs

Present(w, op) == op.call[1] = w => op.call[2] = calls[w]

OwnInv ==
  /\ \A w \in Writers : pc[w] \notin LeaderPcs \cup {"idle"} =>
       \A n \in DOMAIN updates[w].ops : updates[w].ops[n].call = <<w, calls[w]>>
  /\ ~raced => \A w \in Writers : pc[w] # "idle" =>
       \A n \in DOMAIN updates[w].ops : Present(w, updates[w].ops[n])

InLog(op) == \E i \in DOMAIN log : \E j \in DOMAIN log[i].ops : log[i].ops[j] = op

ReturnInv ==
  /\ \A w \in Writers : ~done[w]
  /\ \A c \in returned :
       /\ c[2] =< calls[c[1]]
       /\ pc[c[1]] # "idle" => c[2] < calls[c[1]]
  /\ \A w \in Writers : pc[w] \in LoggedPcs \cup {"idle"} =>
       \A n \in DOMAIN updates[w].ops : InLog(updates[w].ops[n])

LEMMA ReturnInit == Init => QueueInv /\ OwnInv /\ ReturnInv
<1> SUFFICES ASSUME Init PROVE QueueInv /\ OwnInv /\ ReturnInv
  OBVIOUS
<1>1. /\ writerque = <<>> /\ returned = {}
      /\ \A w \in Writers : pc[w] = "idle" /\ ~done[w] /\ updates[w].ops = <<>>
  BY DEF Init, EmptyBatch
<1> QED
  BY <1>1 DEF QueueInv, OwnInv, ReturnInv, LeaderPcs

\* Nobody that stays in the deque leaves Write.
LEMMA QueueFrame ==
  ASSUME QueueInv, raced => raced', writerque' = writerque,
         \A v \in Writers : pc[v] \in WaitPcs \cup LeaderPcs =>
           pc'[v] \in WaitPcs \cup LeaderPcs
  PROVE  QueueInv'
BY DEF QueueInv

LEMMA QueueStep ==
  ASSUME TypeOK, LeaderInFront, QueueInv, ReturnInv, [Next]_vars
  PROVE  QueueInv'
<1> USE DEF clientVars, dataVars, localVars
<1>1. CASE UNCHANGED vars
  BY <1>1, QueueFrame DEF vars
<1>2. ASSUME NEW w \in Writers, NEW l \in Pcs, Goto(w, l),
             pc[w] \in WaitPcs \cup LeaderPcs => l \in WaitPcs \cup LeaderPcs,
             UNCHANGED <<writerque, raced>>
      PROVE  QueueInv'
  <2>1. \A v \in Writers : pc'[v] = IF v = w THEN l ELSE pc[v]
    BY <1>2 DEF Goto, TypeOK
  <2> QED
    BY <1>2, <2>1, QueueFrame
<1>3. ASSUME NEW w \in Writers, Call(w)
      PROVE  QueueInv'
  BY <1>2, <1>3, PcsMembers DEF Call, At, WaitPcs, LeaderPcs
<1>4. ASSUME NEW w \in Writers, ControlStep(w)
      PROVE  QueueInv'
  <2>1. UNCHANGED <<writerque, raced>>
    BY <1>4 DEF ControlStep, Lock, WaitLock, WaitCond, Wake, WakeLock, WakeUnlock,
                MakeRoom, UnlockForLog, Relock
  <2>2. \E l \in Pcs :
          /\ Goto(w, l)
          /\ pc[w] \in WaitPcs \cup LeaderPcs => l \in WaitPcs \cup LeaderPcs
    BY <1>4 DEF ControlStep, Lock, WaitLock, WaitCond, Wake, WakeLock, WakeUnlock,
                MakeRoom, UnlockForLog, Relock, At, Pcs, WaitPcs, LeaderPcs
  <2> QED
    BY <1>2, <2>1, <2>2
<1>5. ASSUME NEW w \in Writers, Emplace(w)
      PROVE  QueueInv'
  <2> SUFFICES ASSUME ~raced'
               PROVE  QueueInv'
    BY DEF QueueInv
  <2>1. ~raced /\ pc[w] = "emplace" /\ writerque' = Append(writerque, w)
    BY <1>5 DEF Emplace, Emplaced, At
  <2>2. pc'[w] = "check" /\ \A v \in Writers : pc[v] \in WaitPcs \cup LeaderPcs => pc'[v] = pc[v]
    BY <1>5 DEF Emplace, Emplaced, Emplacing, At, WaitPcs, LeaderPcs
  <2>3. /\ Len(writerque) \in Nat /\ DOMAIN writerque = 1..Len(writerque)
        /\ DOMAIN writerque' = 1..(Len(writerque) + 1)
        /\ writerque'[Len(writerque) + 1] = w
        /\ \A i \in 1..Len(writerque) : writerque'[i] = writerque[i]
    BY <2>1 DEF TypeOK
  <2>4. \A i \in 1..Len(writerque) :
          writerque[i] \in Writers /\ pc[writerque[i]] \in WaitPcs \cup LeaderPcs
    BY <2>1, <2>3 DEF QueueInv
  <2>5. \A i \in 1..Len(writerque) : writerque[i] # w
    BY <2>1, <2>4 DEF WaitPcs, LeaderPcs
  <2>6. \A i, j \in 1..Len(writerque) : writerque[i] = writerque[j] => i = j
    BY <2>1, <2>3 DEF QueueInv
  <2>7. \A i, j \in DOMAIN writerque' : writerque'[i] = writerque'[j] => i = j
    BY <2>3, <2>5, <2>6
  <2>8. \A i \in DOMAIN writerque' :
          writerque'[i] \in Writers /\ pc'[writerque'[i]] \in WaitPcs \cup LeaderPcs
    <3>1. "check" \in WaitPcs
      BY DEF WaitPcs
    <3> QED
      BY <2>2, <2>3, <2>4, <3>1
  <2> QED
    BY <2>7, <2>8 DEF QueueInv
<1>6. ASSUME NEW w \in Writers, EmplaceRaced(w)
      PROVE  QueueInv'
  BY <1>6 DEF EmplaceRaced, Emplaced, At, LeaderInFront, QueueInv
<1>7. ASSUME NEW w \in Writers, Check(w)
      PROVE  QueueInv'
  <2>1. /\ UNCHANGED <<writerque, raced>>
        /\ \E l \in {"room", "wait_lock"} : Goto(w, l)
    BY <1>7 DEF Check, ReturnInv
  <2> QED
    BY <1>2, <2>1, PcsMembers DEF WaitPcs, LeaderPcs
<1>8. ASSUME NEW w \in Writers, ReadSequence(w)
      PROVE  QueueInv'
  BY <1>2, <1>8, PcsMembers DEF ReadSequence, LeaderPcs
<1>9. ASSUME NEW w \in Writers, GroupNext(w)
      PROVE  QueueInv'
  BY <1>9, QueueFrame DEF GroupNext
<1>10. ASSUME NEW w \in Writers, GroupEnd(w)
       PROVE  QueueInv'
  BY <1>2, <1>10, PcsMembers DEF GroupEnd, GroupEndWith, LeaderPcs
<1>11. ASSUME NEW w \in Writers, AppendRecord(w) \/ SyncLog(w) \/ InsertMem(w)
       PROVE  QueueInv'
  <2>1. /\ UNCHANGED <<writerque, raced>>
        /\ \E l \in {"sync", "insert", "relock"} : Goto(w, l)
    BY <1>11 DEF AppendRecord, SyncLog, InsertMem
  <2> QED
    BY <1>2, <2>1, PcsMembers DEF LeaderPcs
<1>12. ASSUME NEW w \in Writers, Finish(w)
       PROVE  QueueInv'
  <2>1. raced' = raced /\ writerque # <<>> /\ writerque[1] = w
        /\ writerque' = SubSeq(writerque, 2, Len(writerque))
    BY <1>12 DEF Finish, Intact, IsFront, NowWriter, TypeOK
  <2> SUFFICES ASSUME ~raced
               PROVE  QueueInv'
    BY <2>1 DEF QueueInv
  <2>2. \A v \in Writers \ {w} : pc'[v] = pc[v]
    BY <1>12 DEF Finish, Goto, TypeOK
  <2>3. /\ Len(writerque) \in Nat \ {0} /\ DOMAIN writerque = 1..Len(writerque)
        /\ DOMAIN writerque' = 1..(Len(writerque) - 1)
        /\ \A i \in 1..(Len(writerque) - 1) : writerque'[i] = writerque[i + 1]
    BY <2>1 DEF TypeOK
  <2>4. /\ \A i, j \in 1..Len(writerque) : writerque[i] = writerque[j] => i = j
        /\ \A i \in 1..Len(writerque) :
             writerque[i] \in Writers /\ pc[writerque[i]] \in WaitPcs \cup LeaderPcs
    BY <2>3 DEF QueueInv
  <2>5. \A i \in DOMAIN writerque' :
          i + 1 \in 1..Len(writerque) /\ i + 1 # 1 /\ writerque'[i] = writerque[i + 1]
    BY <2>3
  <2>6. \A i, j \in DOMAIN writerque' : writerque'[i] = writerque'[j] => i = j
    BY <2>3, <2>4, <2>5
  <2>7. ASSUME NEW i \in DOMAIN writerque'
        PROVE  writerque'[i] \in Writers /\ pc'[writerque'[i]] \in WaitPcs \cup LeaderPcs
    <3>1. 1 \in 1..Len(writerque)
      BY <2>3
    <3>2. writerque'[i] \in Writers \ {w} /\ pc[writerque'[i]] \in WaitPcs \cup LeaderPcs
      BY <2>1, <2>4, <2>5, <3>1
    <3> QED
      BY <2>2, <3>2
  <2> QED
    BY <2>6, <2>7 DEF QueueInv
<1>13. ASSUME NEW w \in Writers, Abort(w)
       PROVE  QueueInv'
  BY <1>13, QueueFrame DEF Abort
<1> QED
  BY <1>1, <1>3, <1>4, <1>5, <1>6, <1>7, <1>8, <1>9, <1>10, <1>11, <1>12,
     <1>13 DEF Next, Step, ControlStep

\* Whoever waits keeps its calls and its batch, and whoever enters a wait has them
\* from before.
LEMMA OwnFrame ==
  ASSUME OwnInv, raced => raced',
         \A v \in Writers :
           /\ pc'[v] # "idle" =>
                pc[v] # "idle" /\ updates'[v].ops = updates[v].ops /\ calls'[v] = calls[v]
           /\ pc'[v] \notin LeaderPcs \cup {"idle"} => pc[v] \notin LeaderPcs \cup {"idle"}
  PROVE  OwnInv'
BY DEF OwnInv, Present

\* The operations that AppendBatch leaves in the leader's batch come from the two.
LEMMA AppendBatchOps ==
  ASSUME NEW b \in Batch, NEW source \in Batch, NEW r \in AppendBatch(b, source),
         NEW n \in DOMAIN r.ops
  PROVE  \/ \E m \in DOMAIN b.ops : r.ops[n] = b.ops[m]
         \/ \E m \in DOMAIN source.ops : r.ops[n] = source.ops[m]
<1>0. PICK k \in 0..Len(source.ops) :
        r = [seq |-> b.seq, count |-> source.count + b.count,
             ops |-> b.ops \o SubSeq(source.ops, 1, k)]
  BY DEF AppendBatch
<1>1. r.ops = b.ops \o SubSeq(source.ops, 1, k)
  BY <1>0
<1>2. b.ops \in Seq(Op) /\ source.ops \in Seq(Op) /\ Len(source.ops) \in Nat
  BY DEF Batch
<1> DEFINE tail == SubSeq(source.ops, 1, k)
<1>3. /\ tail \in Seq(Op) /\ Len(tail) = k
      /\ \A m \in 1..k : tail[m] = source.ops[m] /\ m \in DOMAIN source.ops
  BY <1>2
<1>7. r.ops = b.ops \o tail
  BY <1>1
<1> HIDE DEF tail
<1>4. /\ DOMAIN r.ops = 1..(Len(b.ops) + k)
      /\ DOMAIN b.ops = 1..Len(b.ops) /\ Len(b.ops) \in Nat
      /\ \A m \in 1..(Len(b.ops) + k) :
           r.ops[m] = IF m =< Len(b.ops) THEN b.ops[m] ELSE tail[m - Len(b.ops)]
  BY <1>2, <1>3, <1>7, SMTT(20)
<1>5. CASE n =< Len(b.ops)
  BY <1>4, <1>5
<1>6. CASE ~(n =< Len(b.ops))
  <2>1. n - Len(b.ops) \in 1..k
    BY <1>4, <1>6
  <2> QED
    BY <1>3, <1>4, <1>6, <2>1
<1> QED
  BY <1>5, <1>6

LEMMA OwnStep ==
  ASSUME TypeOK, LeaderInFront, QueueInv, ReturnInv, OwnInv, [Next]_vars
  PROVE  OwnInv'
<1> USE DEF clientVars, dataVars, localVars
<1>1. CASE UNCHANGED vars
  BY <1>1, OwnFrame DEF vars
<1>2. ASSUME NEW w \in Writers, NEW l \in Pcs, Goto(w, l),
             pc[w] # "idle",
             pc[w] \in LeaderPcs => l \in LeaderPcs \cup {"idle"},
             UNCHANGED <<updates, calls, raced>>
      PROVE  OwnInv'
  <2>1. \A v \in Writers : pc'[v] = IF v = w THEN l ELSE pc[v]
    BY <1>2 DEF Goto, TypeOK
  <2> QED
    BY <1>2, <2>1, OwnFrame
<1>3. ASSUME NEW w \in Writers, Call(w)
      PROVE  OwnInv'
  <2>1. PICK types \in Batches :
          updates' = [updates EXCEPT ![w] = MakeBatch(w, calls[w] + 1, types)]
    BY <1>3 DEF Call
  <2>2. \A v \in Writers \ {w} :
          pc'[v] = pc[v] /\ calls'[v] = calls[v] /\ updates'[v] = updates[v]
    BY <1>3, <2>1 DEF Call, Goto, TypeOK
  <2>3. /\ pc'[w] = "lock" /\ calls'[w] = calls[w] + 1 /\ raced' = raced
        /\ updates'[w] = MakeBatch(w, calls[w] + 1, types)
    BY <1>3, <2>1 DEF Call, Goto, TypeOK
  <2>4. \A n \in DOMAIN updates'[w].ops : updates'[w].ops[n].call = <<w, calls'[w]>>
    BY <2>3 DEF MakeBatch
  <2>5. \A n \in DOMAIN updates'[w].ops : Present(w, updates[w].ops[n])'
    BY <2>4 DEF Present
  <2> QED
    BY <2>2, <2>3, <2>4, <2>5 DEF OwnInv, Present
<1>4. ASSUME NEW w \in Writers, ControlStep(w)
      PROVE  OwnInv'
  <2>1. UNCHANGED <<updates, calls, raced>>
    BY <1>4 DEF ControlStep, Lock, WaitLock, WaitCond, Wake, WakeLock, WakeUnlock,
                MakeRoom, UnlockForLog, Relock
  <2>2. /\ pc[w] # "idle"
        /\ \E l \in Pcs : Goto(w, l) /\ (pc[w] \in LeaderPcs => l \in LeaderPcs \cup {"idle"})
    BY <1>4 DEF ControlStep, Lock, WaitLock, WaitCond, Wake, WakeLock, WakeUnlock,
                MakeRoom, UnlockForLog, Relock, At, Pcs, WaitPcs, LeaderPcs
  <2> QED
    BY <1>2, <2>1, <2>2
<1>5. ASSUME NEW w \in Writers, Emplace(w) \/ EmplaceRaced(w)
      PROVE  OwnInv'
  <2>1. UNCHANGED <<updates, calls>> /\ Emplaced(w) /\ pc[w] \in {"emplace", "raced_emplace"}
    BY <1>5 DEF Emplace, EmplaceRaced, At
  <2>2. raced => raced'
    BY <2>1 DEF Emplaced
  <2>3. \A v \in Writers :
          \/ pc'[v] = pc[v]
          \/ /\ pc[v] \in {"emplace", "raced_emplace"}
             /\ pc'[v] \in {"check", "raced_emplace"}
    BY <2>1 DEF Emplaced, Emplacing
  <2> QED
    BY <2>1, <2>2, <2>3, OwnFrame DEF LeaderPcs
<1>6. ASSUME NEW w \in Writers, Check(w)
      PROVE  OwnInv'
  <2>1. /\ UNCHANGED <<updates, calls, raced>>
        /\ \E l \in {"idle", "room", "wait_lock"} : Goto(w, l)
        /\ pc[w] = "check"
    BY <1>6 DEF Check, At
  <2> QED
    BY <1>2, <2>1, PcsMembers DEF LeaderPcs
<1>7. ASSUME NEW w \in Writers, ReadSequence(w)
      PROVE  OwnInv'
  BY <1>2, <1>7, PcsMembers DEF ReadSequence, At, LeaderPcs
<1>8. ASSUME NEW w \in Writers, GroupNext(w)
      PROVE  OwnInv'
  <2>1. /\ UNCHANGED <<pc, calls, raced>>
        /\ pc[w] = "group" /\ it[w] \in DOMAIN writerque
        /\ \A v \in Writers \ {w} : updates'[v] = updates[v]
    BY <1>8 DEF GroupNext, At, TypeOK
  <2>2. \A v \in Writers : pc'[v] \notin LeaderPcs \cup {"idle"} =>
          \A n \in DOMAIN updates'[v].ops : updates'[v].ops[n].call = <<v, calls'[v]>>
    BY <2>1 DEF OwnInv, LeaderPcs
  <2>3. ASSUME ~raced, NEW n \in DOMAIN updates'[w].ops
        PROVE  updates'[w].ops[n].call[1] = w => updates'[w].ops[n].call[2] = calls[w]
    <3>1. PICK v \in Writers : v = writerque[it[w]]
      BY <1>8, <2>1 DEF GroupNext, Intact, TypeOK
    <3>2. PICK b \in AppendBatch(updates[w], updates[v]) : updates'[w] = b
      BY <1>8, <3>1 DEF GroupNext, TypeOK
    <3>3. updates[w] \in Batch /\ updates[v] \in Batch
      BY DEF TypeOK
    <3>4. \/ \E m \in DOMAIN updates[w].ops : b.ops[n] = updates[w].ops[m]
          \/ \E m \in DOMAIN updates[v].ops : b.ops[n] = updates[v].ops[m]
      BY <3>2, <3>3, AppendBatchOps
    <3>5. \A m \in DOMAIN updates[w].ops :
            updates[w].ops[m].call[1] = w => updates[w].ops[m].call[2] = calls[w]
      BY <2>1, <2>3 DEF OwnInv, Present
    <3>6. v # w => pc[v] \in WaitPcs
      <4>1. pc[v] \in WaitPcs \cup LeaderPcs
        BY <2>1, <2>3, <3>1 DEF QueueInv
      <4> QED
        BY <2>1, <2>3, <4>1, FrontIsUnique DEF SingleLeader, LeaderPcs
    <3>7. v # w => \A m \in DOMAIN updates[v].ops : updates[v].ops[m].call[1] # w
      <4>1. pc[v] \in WaitPcs => pc[v] \notin LeaderPcs \cup {"idle"}
        BY DEF WaitPcs, LeaderPcs
      <4>2. v # w => \A m \in DOMAIN updates[v].ops : updates[v].ops[m].call = <<v, calls[v]>>
        BY <3>6, <4>1 DEF OwnInv
      <4> QED
        BY <4>2
    <3> QED
      BY <3>2, <3>4, <3>5, <3>7
  <2>4. ~raced' => \A v \in Writers : pc'[v] # "idle" =>
          \A n \in DOMAIN updates'[v].ops : Present(v, updates[v].ops[n])'
    BY <2>1, <2>3 DEF OwnInv, Present
  <2> QED
    BY <2>2, <2>4 DEF OwnInv
<1>9. ASSUME NEW w \in Writers, GroupEnd(w)
      PROVE  OwnInv'
  <2>1. UNCHANGED <<calls, raced>> /\ pc[w] = "group"
    BY <1>9 DEF GroupEnd, GroupEndWith, At
  <2>2. \A v \in Writers : /\ pc'[v] = IF v = w THEN "unlock" ELSE pc[v]
                           /\ updates'[v].ops = updates[v].ops
    BY <1>9 DEF GroupEnd, GroupEndWith, Goto, SetSequence, TypeOK
  <2> QED
    BY <2>1, <2>2, OwnFrame DEF LeaderPcs
<1>10. ASSUME NEW w \in Writers, AppendRecord(w) \/ SyncLog(w) \/ InsertMem(w)
       PROVE  OwnInv'
  <2>1. /\ UNCHANGED <<updates, calls, raced>>
        /\ pc[w] # "idle"
        /\ \E l \in {"sync", "insert", "relock"} : Goto(w, l)
    BY <1>10 DEF AppendRecord, SyncLog, InsertMem, At
  <2> QED
    BY <1>2, <2>1, PcsMembers DEF LeaderPcs
<1>11. ASSUME NEW w \in Writers, Finish(w)
       PROVE  OwnInv'
  BY <1>2, <1>11, PcsMembers DEF Finish, At
<1>12. ASSUME NEW w \in Writers, Abort(w)
       PROVE  OwnInv'
  BY <1>12, OwnFrame DEF Abort
<1> QED
  BY <1>1, <1>3, <1>4, <1>5, <1>6, <1>7, <1>8, <1>9, <1>10, <1>11, <1>12
  DEF Next, Step, ControlStep

\* A step that returns to no client and marks none done, in which the log only
\* grows, and after which a client that has logged its batch had done so before.
LEMMA ReturnFrame ==
  ASSUME TypeOK, ReturnInv, returned' = returned, done' = done,
         \A i \in DOMAIN log : i \in DOMAIN log' /\ log'[i] = log[i],
         \A v \in Writers :
           /\ \/ calls'[v] = calls[v] /\ (pc'[v] # "idle" => pc[v] # "idle")
              \/ calls'[v] = calls[v] + 1
           /\ pc'[v] \in LoggedPcs \cup {"idle"} =>
                \/ /\ pc[v] \in LoggedPcs \cup {"idle"}
                   /\ updates'[v] = updates[v]
                \/ \E i \in DOMAIN log' : log'[i] = updates'[v]
  PROVE  ReturnInv'
<1>1. \A v \in Writers : ~done'[v]
  BY DEF ReturnInv
<1>2. ASSUME NEW c \in returned
      PROVE  /\ c[2] =< calls'[c[1]]
             /\ pc'[c[1]] # "idle" => c[2] < calls'[c[1]]
  <2>1. c[1] \in Writers /\ c[2] \in Nat /\ calls[c[1]] \in Nat
    BY DEF TypeOK
  <2>2. c[2] =< calls[c[1]] /\ (pc[c[1]] # "idle" => c[2] < calls[c[1]])
    BY DEF ReturnInv
  <2> QED
    BY <2>1, <2>2
<1>3. ASSUME NEW v \in Writers, pc'[v] \in LoggedPcs \cup {"idle"},
             NEW n \in DOMAIN updates'[v].ops
      PROVE  InLog(updates[v].ops[n])'
  <2>1. CASE pc[v] \in LoggedPcs \cup {"idle"} /\ updates'[v] = updates[v]
    <3>1. InLog(updates[v].ops[n])
      BY <1>3, <2>1 DEF ReturnInv
    <3> QED
      BY <2>1, <3>1 DEF InLog
  <2>2. CASE \E i \in DOMAIN log' : log'[i] = updates'[v]
    BY <1>3, <2>2 DEF InLog
  <2> QED
    BY <1>3, <2>1, <2>2
<1> QED
  BY <1>1, <1>2, <1>3 DEF ReturnInv

LEMMA ReturnStep ==
  ASSUME TypeOK, ReturnInv, [Next]_vars
  PROVE  ReturnInv'
<1> USE DEF clientVars, dataVars, localVars
<1>1. CASE UNCHANGED vars
  BY <1>1, ReturnFrame DEF vars
<1>2. ASSUME NEW w \in Writers, NEW l \in Pcs, Goto(w, l), pc[w] # "idle",
             l \in LoggedPcs \cup {"idle"} => pc[w] \in LoggedPcs /\ updates'[w] = updates[w],
             \A v \in Writers \ {w} : updates'[v] = updates[v],
             UNCHANGED <<returned, done, log, calls>>
      PROVE  ReturnInv'
  <2>1. \A v \in Writers : pc'[v] = IF v = w THEN l ELSE pc[v]
    BY <1>2 DEF Goto, TypeOK
  <2> QED
    BY <1>2, <2>1, ReturnFrame
<1>3. ASSUME NEW w \in Writers, Call(w)
      PROVE  ReturnInv'
  <2>1. /\ \A v \in Writers : pc'[v] = IF v = w THEN "lock" ELSE pc[v]
        /\ \A v \in Writers \ {w} : updates'[v] = updates[v] /\ calls'[v] = calls[v]
        /\ calls'[w] = calls[w] + 1
    BY <1>3 DEF Call, Goto, TypeOK
  <2>2. UNCHANGED <<returned, log>>
    BY <1>3 DEF Call
  <2>3. done' = done
    BY <1>3 DEF Call, ReturnInv, TypeOK
  <2> QED
    BY <2>1, <2>2, <2>3, ReturnFrame DEF LoggedPcs
<1>4. ASSUME NEW w \in Writers, ControlStep(w)
      PROVE  ReturnInv'
  <2>1. UNCHANGED <<returned, done, log, calls, updates>>
    BY <1>4 DEF ControlStep, Lock, WaitLock, WaitCond, Wake, WakeLock, WakeUnlock,
                MakeRoom, UnlockForLog, Relock
  <2>2. /\ pc[w] # "idle"
        /\ \E l \in Pcs : Goto(w, l) /\ (l \in LoggedPcs \cup {"idle"} => pc[w] \in LoggedPcs)
    BY <1>4 DEF ControlStep, Lock, WaitLock, WaitCond, Wake, WakeLock, WakeUnlock,
                MakeRoom, UnlockForLog, Relock, At, Pcs, WaitPcs, LeaderPcs, LoggedPcs
  <2> QED
    BY <1>2, <2>1, <2>2
<1>5. ASSUME NEW w \in Writers, Emplace(w) \/ EmplaceRaced(w)
      PROVE  ReturnInv'
  <2>1. /\ UNCHANGED <<returned, done, log, calls, updates>> /\ Emplaced(w)
        /\ pc[w] \in {"emplace", "raced_emplace"}
    BY <1>5 DEF Emplace, EmplaceRaced, At
  <2>2. \A v \in Writers :
          \/ pc'[v] = pc[v]
          \/ /\ pc[v] \in {"emplace", "raced_emplace"}
             /\ pc'[v] \in {"check", "raced_emplace"}
    BY <2>1 DEF Emplaced, Emplacing
  <2> QED
    BY <2>1, <2>2, ReturnFrame DEF LoggedPcs
<1>6. ASSUME NEW w \in Writers, Check(w)
      PROVE  ReturnInv'
  <2>1. /\ UNCHANGED <<returned, done, log, calls, updates>>
        /\ \E l \in {"room", "wait_lock"} : Goto(w, l)
        /\ pc[w] = "check"
    BY <1>6 DEF Check, At, ReturnInv
  <2> QED
    BY <1>2, <2>1, PcsMembers DEF LoggedPcs
<1>7. ASSUME NEW w \in Writers, ReadSequence(w)
      PROVE  ReturnInv'
  BY <1>2, <1>7, PcsMembers DEF ReadSequence, At, LoggedPcs
<1>8. ASSUME NEW w \in Writers, GroupNext(w)
      PROVE  ReturnInv'
  <2>1. /\ UNCHANGED <<returned, done, log, calls, pc>>
        /\ pc[w] = "group"
        /\ \A v \in Writers \ {w} : updates'[v] = updates[v]
    BY <1>8 DEF GroupNext, At, TypeOK
  <2> QED
    BY <2>1, ReturnFrame DEF LoggedPcs
<1>9. ASSUME NEW w \in Writers, GroupEnd(w)
      PROVE  ReturnInv'
  <2>1. \A v \in Writers \ {w} : updates'[v] = updates[v]
    BY <1>9 DEF GroupEnd, GroupEndWith, TypeOK
  <2> QED
    BY <1>2, <1>9, <2>1, PcsMembers DEF GroupEnd, GroupEndWith, At, LoggedPcs
<1>10. ASSUME NEW w \in Writers, AppendRecord(w)
       PROVE  ReturnInv'
  <2>1. /\ UNCHANGED <<returned, done, calls, updates>>
        /\ pc[w] = "append"
        /\ log' = Append(log, updates[w])
        /\ \A v \in Writers \ {w} : pc'[v] = pc[v]
    BY <1>10 DEF AppendRecord, At, Goto, TypeOK
  <2>2. /\ \A i \in DOMAIN log : i \in DOMAIN log' /\ log'[i] = log[i]
        /\ Len(log) + 1 \in DOMAIN log' /\ log'[Len(log) + 1] = updates[w]
    BY <2>1 DEF TypeOK
  <2>3. \E i \in DOMAIN log' : log'[i] = updates'[w]
    BY <2>1, <2>2
  <2> QED
    BY <2>1, <2>2, <2>3, ReturnFrame
<1>11. ASSUME NEW w \in Writers, SyncLog(w) \/ InsertMem(w)
       PROVE  ReturnInv'
  <2>1. /\ UNCHANGED <<returned, done, log, calls, updates>>
        /\ pc[w] \in LoggedPcs /\ pc[w] # "idle"
        /\ \E l \in {"insert", "relock"} : Goto(w, l)
    BY <1>11 DEF SyncLog, InsertMem, At, LoggedPcs
  <2> QED
    BY <1>2, <2>1, PcsMembers
<1>12. ASSUME NEW w \in Writers, Finish(w)
       PROVE  ReturnInv'
  <2>1. /\ UNCHANGED <<log, calls, updates>>
        /\ returned' = returned \cup {<<w, calls[w]>>}
        /\ pc[w] = "finish"
    BY <1>12 DEF Finish, At
  <2>2. \A v \in Writers : pc'[v] = IF v = w THEN "idle" ELSE pc[v]
    BY <1>12 DEF Finish, Goto, TypeOK
  <2>3. \A v \in Writers : ~done'[v]
    <3>1. \A v \in Writers :
            done'[v] = (done[v] \/ \E i \in 2..NowWriter(w) : writerque[i] = v)
      BY <1>12 DEF Finish
    <3>2. 2..NowWriter(w) = {}
      BY DEF NowWriter
    <3> QED
      BY <3>1, <3>2 DEF ReturnInv
  <2>4. \A v \in Writers : pc'[v] \in LoggedPcs \cup {"idle"} =>
          \A n \in DOMAIN updates[v].ops : InLog(updates[v].ops[n])
    BY <2>1, <2>2 DEF ReturnInv, LoggedPcs
  <2>5. \A v \in Writers : pc'[v] \in LoggedPcs \cup {"idle"} =>
          \A n \in DOMAIN updates'[v].ops : InLog(updates[v].ops[n])'
    BY <2>1, <2>4 DEF InLog
  <2>6. ASSUME NEW c \in returned'
        PROVE  /\ c[2] =< calls'[c[1]]
               /\ pc'[c[1]] # "idle" => c[2] < calls'[c[1]]
    <3>1. CASE c = <<w, calls[w]>>
      <4>1. calls[w] \in Nat
        BY DEF TypeOK
      <4> QED
        BY <2>1, <2>2, <3>1, <4>1
    <3>2. CASE c \in returned
      <4>1. c[1] \in Writers
        BY <3>2 DEF TypeOK
      <4>2. c[2] =< calls[c[1]] /\ (pc[c[1]] # "idle" => c[2] < calls[c[1]])
        BY <3>2 DEF ReturnInv
      <4> QED
        BY <2>1, <2>2, <4>1, <4>2
    <3> QED
      BY <2>1, <3>1, <3>2
  <2> QED
    BY <2>3, <2>5, <2>6 DEF ReturnInv
<1>13. ASSUME NEW w \in Writers, Abort(w)
       PROVE  ReturnInv'
  BY <1>13, ReturnFrame DEF Abort
<1> QED
  BY <1>1, <1>3, <1>4, <1>5, <1>6, <1>7, <1>8, <1>9, <1>10, <1>11, <1>12, <1>13
  DEF Next, Step, ControlStep

LEMMA PastCallsLogged ==
  ASSUME TypeOK, OwnInv, ReturnInv
  PROVE  ReturnedLogged
<1> SUFFICES ASSUME ~raced, NEW c \in returned, NEW n \in 1..Len(updates[c[1]].ops),
                    updates[c[1]].ops[n].call = c
             PROVE  InLog(updates[c[1]].ops[n])
  BY DEF ReturnedLogged, InLog
<1>1. c[1] \in Writers /\ c[2] \in Nat /\ calls[c[1]] \in Nat
  BY DEF TypeOK
<1>2. n \in DOMAIN updates[c[1]].ops
  BY <1>1 DEF TypeOK, Batch
<1>3. pc[c[1]] = "idle"
  <2> SUFFICES ASSUME pc[c[1]] # "idle"
               PROVE  FALSE
    OBVIOUS
  <2>1. c[2] = calls[c[1]]
    BY <1>1, <1>2 DEF OwnInv, Present
  <2>2. c[2] < calls[c[1]]
    BY DEF ReturnInv
  <2> QED
    BY <1>1, <2>1, <2>2
<1> QED
  BY <1>1, <1>2, <1>3 DEF ReturnInv

\* A call of Write that has returned Ok has every operation of its batch in the
\* log, also the calls whose leader grouped others and whose Sync failed: for any
\* number of clients, until two emplace_backs overlap.
THEOREM ReturnsLogged == Spec => []ReturnedLogged
<1>1. Init => LeaderInFront /\ QueueInv /\ OwnInv /\ ReturnInv
  BY LeaderInFrontInit, ReturnInit
<1>2. /\ TypeOK /\ LeaderInFront /\ QueueInv /\ OwnInv /\ ReturnInv
      /\ [Next]_vars
      => LeaderInFront' /\ QueueInv' /\ OwnInv' /\ ReturnInv'
  BY LeaderInFrontStep, QueueStep, OwnStep, ReturnStep
<1>3. TypeOK /\ OwnInv /\ ReturnInv => ReturnedLogged
  BY PastCallsLogged
<1> QED
  BY <1>1, <1>2, <1>3, TypeCorrect, PTL DEF Spec
=============================================================================
