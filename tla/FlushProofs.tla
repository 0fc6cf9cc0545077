---------------------------- MODULE FlushProofs ----------------------------
(***************************************************************************)
(* Proofs about Flush, for every script of writes, every set of keys and   *)
(* every size of the write buffer.                                         *)
(***************************************************************************)
EXTENDS Flush, FiniteSetTheorems, NumberLemmas, TLAPS

USE DEF memVars, verVars, bgFlags, diskVars, logVars, wVars, rVars, bgLocals, bVars, dbVars

(***************************************************************************)
(* What the threads leave alone.                                           *)
(***************************************************************************)
LEMMA ReaderFrame ==
  ASSUME Reader \/ RCall
  PROVE  UNCHANGED <<memVars, LastSequence, logfilenum, verVars, shutting_down_, bg_error,
                     diskVars, logVars, wVars, bgLocals, dpc>>
BY DEF Reader, RCall, RLock, RSnapshot, RCopyMem, RCopyImm, RCopyCurrent, RSearch, RRelock,
       RFinish

LEMMA BackgroundFrame ==
  ASSUME Background
  PROVE  UNCHANGED <<mem_, content, LastSequence, logfilenum, shutting_down_,
                     started_background_thread, entry, writes, acked, unsynced, logVars, rVars>>
BY DEF Background, BLock, BLockBuilt, BLockLogged, BLockDeleted, BLockAt, BSkip, BStart, BBuild,
       BBuildFailed, BApply, BLogEdit, BInstall, BLogFailed, BFail, BReset, BList, BDelete,
       BFinish, BAgain, BNotify, BUnlock

LEMMA WriterFrame ==
  ASSUME Writer \/ WCall
  PROVE  UNCHANGED <<log_number, nowversion, live, shutting_down_, bg_error, tables, manifest,
                     rVars, bgLocals, dpc>>
BY DEF Writer, WCall, WLock, WSlowdown, WLeaveRoom, WSeesImm, WWaitFlush, WWake, WRotate,
     WRotateFails, WUnlock, WAppend, WSync, WSyncFails,
       WInsert, WRelock, WFinish

LEMMA WriterAlive ==
  ASSUME Writer \/ WCall
  PROVE  wpc # "dead" /\ wpc' # "dead"
BY DEF Writer, WCall, WLock, WSlowdown, WLeaveRoom, WSeesImm, WWaitFlush, WWake, MustRotate,
       WRotate, WRotateFails, WUnlock, WAppend, WSync, WSyncFails, WInsert, WRelock, WFinish

LEMMA DestructorFrame ==
  ASSUME DLock \/ Destructor
  PROVE  UNCHANGED <<memVars, LastSequence, logfilenum, verVars, background_compaction_,
                     bg_error, started_background_thread, diskVars, logVars, wVars, rVars,
                     bVars>>
BY DEF Destructor, DLock, DCheck, DWait, DWake

-----------------------------------------------------------------------------
(***************************************************************************)
(* Type correctness.  A memtable is made by a rotation, which needs one    *)
(* that is not empty, so that there are never more of them than writes     *)
(* and one.                                                                *)
(***************************************************************************)
PreInsert == {"lock", "room", "slow", "towait", "wait", "wake", "unlock", "append", "sync",
              "insert"}

RotationInv ==
  /\ writes <= Len(Script)
  /\ \A m \in Tables : m > mem_ => content[m] = {}
  /\ mem_ <= writes + 1 /\ (content[mem_] # {} => mem_ <= writes)
  /\ wpc \in PreInsert => mem_ <= writes /\ (content[mem_] # {} => mem_ < writes)

\* The table under construction has a memtable to come from.
BuildInv == bpc = "build" => imm_ # NoTable

LEMMA LenScript == Len(Script) \in Nat /\ \A i \in 1 .. Len(Script) : Script[i] \subseteq Op
BY ScriptAssumption

LEMMA NoKeyType == NoKey \in Keys
BY KeysAssumption DEF NoKey

\* A memtable without entries has room.
LEMMA FullNotEmpty ==
  ASSUME ~HasRoom PROVE content[mem_] # {}
BY FS_EmptySet, BoundsAssumption DEF HasRoom

LEMMA NewestIn ==
  ASSUME NEW S \in SUBSET Entry, NEW n \in Nat, \A e \in S : e.seq <= n, S # {}
  PROVE  Newest(S) \in S /\ \A f \in S : f.seq <= Newest(S).seq
<1> DEFINE T == {e.seq : e \in S}
<1>1. T \subseteq Nat /\ (\A y \in T : y <= n)
  BY DEF Entry
<1>2. T # {}
  OBVIOUS
<1>3. PICK x \in T : \A y \in T : y <= x
  BY <1>1, <1>2, GreatestNat
<1>4. PICK e \in S : e.seq = x
  OBVIOUS
<1>5. \A f \in S : f.seq <= e.seq
  BY <1>3, <1>4
<1> QED BY <1>5 DEF Newest

\* TypeOK in two parts, for the provers' sake.
FlagsOK ==
  /\ locked \in BOOLEAN /\ background_compaction_ \in BOOLEAN /\ shutting_down_ \in BOOLEAN
  /\ bg_error \in BOOLEAN /\ started_background_thread \in BOOLEAN /\ ok \in BOOLEAN
  /\ torn \in BOOLEAN

DataOK ==
  /\ mem_ \in Tables /\ imm_ \in Tables \cup {NoTable}
  /\ content \in [Tables -> SUBSET Entry]
  /\ LastSequence \in Nat
  /\ logfilenum \in Nat /\ next_file_number \in Nat /\ log_number \in Nat
  /\ nowversion \subseteq Nat /\ live \subseteq Nat /\ opened \in Openings
  /\ DOMAIN logs \subseteq Nat /\ \A n \in DOMAIN logs : logs[n] \subseteq Entry
  /\ DOMAIN tables \subseteq Nat /\ \A n \in DOMAIN tables : tables[n] \subseteq Entry
  /\ manifest \in [log : Nat, tables : SUBSET Nat]
  /\ buf_ \subseteq Entry /\ unlogged \subseteq Entry
  /\ wpc \in {"idle", "lock", "room", "slow", "towait", "wait", "wake", "unlock", "append",
              "sync", "insert", "relock", "finish", "dead"}
  /\ entry \in Entry /\ writes \in Nat
  /\ acked \subseteq Entry /\ unsynced \subseteq Entry
  /\ rpc \in {"idle", "lock", "snapshot", "mem", "imm", "current", "search", "relock",
              "finish", "dead"}
  /\ key \in Keys /\ snapshot \in Nat
  /\ mem \in Tables \cup {NoTable} /\ imm \in Tables \cup {NoTable}
  /\ current \subseteq Nat /\ gets \in Nat
  /\ result \in [kind : {"none", "value", "notfound", "error"}, seq : Nat]
  /\ bpc \in {"none", "lock", "start", "build", "built", "apply", "log", "logged",
              "install", "reset", "list", "delete", "deleted", "finish", "again", "notify",
              "unlock", "done", "dead"}
  /\ meta \in Nat /\ edit \in Nat /\ obsolete \subseteq Nat
  /\ dpc \in {"none", "check", "towait", "wait", "wake", "closed", "dead"}

TypeInv == FlagsOK /\ DataOK /\ RotationInv /\ BuildInv

LEMMA TypeInvType == TypeInv => TypeOK
BY Zenon DEF TypeInv, FlagsOK, DataOK, TypeOK

\* The steps that write to the log, and what they may do to it.
LogStep == WAppend \/ WSync \/ WSyncFails

LEMMA LogSteps ==
  ASSUME LogStep
  PROVE  \/ wpc = "append" /\ Flush(buf_ \cup {entry})
         \/ wpc = "sync" /\ (Flush(buf_) \/ UNCHANGED <<logs, logVars>>)
BY Zenon DEF LogStep, WAppend, WSync, WSyncFails, Flush

\* No record leaves the buffer but for the log or for the lost ones, and the log
\* loses none.
LEMMA FlushKeeps ==
  ASSUME DOMAIN logs \subseteq Nat, NEW S, buf_ \subseteq S,
         Flush(S) \/ (S = buf_ /\ UNCHANGED <<logs, logVars>>)
  PROVE  /\ DOMAIN logs' = DOMAIN logs
         /\ \A n \in DOMAIN logs : logs[n] \subseteq logs'[n] /\ logs'[n] \subseteq logs[n] \cup S
         /\ unlogged \subseteq unlogged' /\ unlogged' \subseteq unlogged \cup S
         /\ buf_' \subseteq S
         /\ logfilenum \in DOMAIN logs => S \subseteq logs'[logfilenum] \cup buf_' \cup unlogged'
<1>1. CASE FlushOk(S)
  BY <1>1 DEF FlushOk
<1>2. CASE FlushError(S)
  BY <1>2 DEF FlushError
<1>3. CASE FlushTorn(S)
  BY <1>3 DEF FlushTorn
<1>4. CASE S = buf_ /\ UNCHANGED <<logs, logVars>>
  BY <1>4
<1> QED BY <1>1, <1>2, <1>3, <1>4 DEF Flush

LEMMA LogType ==
  ASSUME DataOK, LogStep
  PROVE  /\ DOMAIN logs' \subseteq Nat /\ \A n \in DOMAIN logs' : logs'[n] \subseteq Entry
         /\ buf_' \subseteq Entry /\ unlogged' \subseteq Entry
<1>1. PICK S \in SUBSET Entry : /\ buf_ \subseteq S
                                /\ Flush(S) \/ (S = buf_ /\ UNCHANGED <<logs, logVars>>)
  <2>1. buf_ \in SUBSET Entry /\ buf_ \cup {entry} \in SUBSET Entry
    BY DEF DataOK
  <2>2. CASE Flush(buf_ \cup {entry})
    BY <2>1, <2>2
  <2>3. CASE Flush(buf_) \/ UNCHANGED <<logs, logVars>>
    BY <2>1, <2>3
  <2> QED BY <2>2, <2>3, LogSteps
<1>2. DOMAIN logs \subseteq Nat /\ \A n \in DOMAIN logs : logs[n] \subseteq Entry
  BY DEF DataOK
<1>3. /\ DOMAIN logs' = DOMAIN logs
      /\ \A n \in DOMAIN logs : logs'[n] \subseteq logs[n] \cup S
      /\ unlogged' \subseteq unlogged \cup S /\ buf_' \subseteq S
  BY <1>1, <1>2, FlushKeeps
<1>4. unlogged \subseteq Entry
  BY DEF DataOK
<1> QED BY <1>2, <1>3, <1>4

LEMMA LogDomain ==
  ASSUME DOMAIN logs \subseteq Nat, LogStep PROVE DOMAIN logs' = DOMAIN logs
BY LogSteps, FlushKeeps

LEMMA FlagsStep ==
  ASSUME FlagsOK, Next PROVE FlagsOK'
<1> USE DEF FlagsOK
<1>1. CASE Death
  BY <1>1, Zenon DEF Death, RTornCopy, WThrows, BUseAfterFree, Dies
<1>2. CASE Client
  BY <1>2, Zenon DEF Client, WCall, RCall, DLock
<1>3. CASE Writer
  <2>1. CASE WRotate
    BY <2>1, Zenon DEF WRotate, MaybeCompaction, Schedule
  <2>2. CASE LogStep
    <3>1. torn' \in {torn, TRUE}
      BY <2>2, LogSteps, Zenon DEF Flush, FlushOk, FlushError, FlushTorn
    <3> QED BY <2>2, <3>1, Zenon DEF LogStep, WAppend, WSync, WSyncFails
  <2> QED BY <1>3, <2>1, <2>2, Zenon DEF Writer, LogStep, WLock, WSlowdown, WLeaveRoom,
       WSeesImm,
             WWaitFlush, WWake, WRotateFails, WUnlock, WInsert, WRelock, WFinish
<1>4. CASE Reader
  <2>1. CASE RFinish
    BY <2>1, Zenon DEF RFinish, MaybeCompaction, Schedule
  <2> QED BY <1>4, <2>1, Zenon DEF Reader, RLock, RSnapshot, RCopyMem, RCopyImm, RCopyCurrent,
             RSearch, RRelock
<1>5. CASE Background
  <2>1. CASE BLock \/ BLockBuilt \/ BLockLogged \/ BLockDeleted
    BY <2>1, Zenon DEF BLock, BLockBuilt, BLockLogged, BLockDeleted, BLockAt
  <2>2. CASE BFinish
    BY <2>2, Zenon DEF BFinish
  <2>5. CASE BAgain
    BY <2>5, Zenon DEF BAgain, WantsCompaction
  <2>6. CASE BNotify
    BY <2>6, Zenon DEF BNotify
  <2>3. CASE BBuildFailed \/ BLogFailed
    BY <2>3, Zenon DEF BBuildFailed, BLogFailed, BFail
  <2>4. CASE BBuild \/ BLogEdit
    BY <2>4, Zenon DEF BBuild, BLogEdit
  <2>7. CASE BInstall \/ BReset \/ BList \/ BDelete \/ BUnlock
    BY <2>7, Zenon DEF BInstall, BReset, BList, BDelete, BUnlock
  <2> QED BY <1>5, <2>1, <2>2, <2>3, <2>4, <2>5, <2>6, <2>7, Zenon DEF Background, BSkip, BStart,
             BApply
<1>6. CASE Destructor
  BY <1>6, Zenon DEF Destructor, DCheck, DWait, DWake
<1> QED BY <1>1, <1>2, <1>3, <1>4, <1>5, <1>6 DEF Next

LEMMA SearchOrderType ==
  ASSUME DataOK
  PROVE  SearchOrder(MemtableEntries(mem), MemtableEntries(imm)) \in
           [kind : {"none", "value", "notfound", "error"}, seq : Nat]
<1>1. ASSUME NEW m \in Tables \cup {NoTable}, Visible(MemtableEntries(m)) # {}
      PROVE  Found(Newest(Visible(MemtableEntries(m)))) \in
               [kind : {"none", "value", "notfound", "error"}, seq : Nat]
  <2> DEFINE V == Visible(MemtableEntries(m))
  <2>1. V \subseteq Entry /\ \A e \in V : e.seq <= snapshot
    BY DEF DataOK, Visible, MemtableEntries
  <2>2. snapshot \in Nat
    BY DEF DataOK
  <2>3. Newest(V) \in Entry
    BY <1>1, <2>1, <2>2, NewestIn
  <2> QED BY <2>3 DEF Found, Entry
<1>2. VersionGet \in [kind : {"none", "value", "notfound", "error"}, seq : Nat]
  BY DEF VersionGet, TableCacheGet, TableOpen, ReadBlock
<1>3. mem \in Tables \cup {NoTable} /\ imm \in Tables \cup {NoTable}
  BY DEF DataOK
<1> QED BY <1>1, <1>2, <1>3 DEF SearchOrder

LEMMA TypeInitially == Init => TypeInv
<1> SUFFICES ASSUME Init PROVE TypeInv
  OBVIOUS
<1>1. key \in Keys
  BY NoKeyType DEF Init
<1>2. 1 \in Tables /\ Tables \subseteq Nat
  BY LenScript DEF Tables
<1>3. FlagsOK
  BY Zenon DEF Init, FlagsOK
<1>4. DataOK
  <2>1. entry \in Entry /\ manifest \in [log : Nat, tables : SUBSET Nat]
    BY <1>1, BoundsAssumption DEF Init, Entry
  <2>2. content \in [Tables -> SUBSET Entry]
    BY DEF Init
  <2>3. DOMAIN logs \subseteq Nat /\ \A n \in DOMAIN logs : logs[n] \subseteq Entry
    BY BoundsAssumption DEF Init
  <2>4. DOMAIN tables \subseteq Nat /\ \A n \in DOMAIN tables : tables[n] \subseteq Entry
    BY DEF Init
  <2>5. result \in [kind : {"none", "value", "notfound", "error"}, seq : Nat]
    BY DEF Init, NoResult
  <2>6. /\ mem_ \in Tables /\ logfilenum \in Nat /\ next_file_number \in Nat
        /\ log_number \in Nat
    BY <1>2, BoundsAssumption DEF Init
  <2> QED BY <1>1, <2>1, <2>2, <2>3, <2>4, <2>5, <2>6 DEF Init, DataOK
<1>5. RotationInv
  BY <1>2, LenScript DEF Init, RotationInv, PreInsert
<1>6. BuildInv
  BY DEF Init, BuildInv
<1> QED BY <1>3, <1>4, <1>5, <1>6 DEF TypeInv

LEMMA RotateType ==
  ASSUME DataOK, RotationInv, WRotate PROVE DataOK' /\ RotationInv'
<1>1. mem_ \in Nat /\ writes \in Nat /\ mem_ < writes /\ writes <= Len(Script) /\ content[mem_] # {}
  BY FullNotEmpty, LenScript DEF WRotate, MustRotate, RotationInv, PreInsert, DataOK, Tables
<1>2. mem_ + 1 \in Tables
  BY <1>1, LenScript DEF Tables
<1>3. DOMAIN logs' \subseteq Nat /\ \A n \in DOMAIN logs' : logs'[n] \subseteq Entry
  BY DEF WRotate, Put, DataOK
<1>4. bpc' \in {bpc, "lock"}
  BY DEF WRotate, MaybeCompaction, Schedule, DataOK
<1>5. DataOK'
  BY <1>2, <1>3, <1>4 DEF WRotate, DataOK
<1>6. content' = content /\ content[mem_ + 1] = {}
  BY <1>1, <1>2 DEF WRotate, RotationInv
<1>7. RotationInv'
  BY <1>1, <1>6, LenScript DEF WRotate, RotationInv, Tables
<1> QED BY <1>5, <1>7

LEMMA WriterType ==
  ASSUME DataOK, RotationInv, Writer \/ WCall PROVE DataOK' /\ RotationInv'
<1>1. CASE WCall
  <2>1. entry' \in Entry
    BY <1>1, LenScript DEF WCall, DataOK, Op, Entry
  <2>2. DataOK'
    BY <1>1, <2>1 DEF WCall, DataOK
  <2>3. mem_ \in Nat /\ writes \in Nat
    BY LenScript DEF DataOK, Tables
  <2>4. /\ wpc = "idle" /\ writes' = writes + 1 /\ writes < Len(Script)
        /\ mem_' = mem_ /\ content' = content
    BY <1>1 DEF WCall
  <2>5. RotationInv'
    BY <2>3, <2>4, LenScript DEF RotationInv
  <2> QED BY <2>2, <2>5
<1>2. CASE WRotate
  BY <1>2, RotateType
<1>3. CASE WLock
  <2>1. DataOK'
    BY <1>3 DEF WLock, DataOK
  <2>2. RotationInv'
    BY <1>3 DEF WLock, RotationInv, PreInsert
  <2> QED BY <2>1, <2>2
<1>8. CASE WLeaveRoom
  <2>1. DataOK'
    BY <1>8 DEF WLeaveRoom, DataOK
  <2>2. RotationInv'
    BY <1>8 DEF WLeaveRoom, RotationInv, PreInsert
  <2> QED BY <2>1, <2>2
<1>9. CASE WSeesImm
  <2>1. DataOK'
    BY <1>9 DEF WSeesImm, DataOK
  <2>2. RotationInv'
    BY <1>9 DEF WSeesImm, MustRotate, RotationInv, PreInsert
  <2> QED BY <2>1, <2>2
<1>10. CASE WWaitFlush
  <2>1. DataOK'
    BY <1>10 DEF WWaitFlush, DataOK
  <2>2. RotationInv'
    BY <1>10 DEF WWaitFlush, RotationInv, PreInsert
  <2> QED BY <2>1, <2>2
<1>11. CASE WWake
  <2>1. DataOK'
    BY <1>11 DEF WWake, DataOK
  <2>2. RotationInv'
    BY <1>11 DEF WWake, RotationInv, PreInsert
  <2> QED BY <2>1, <2>2
<1>12. CASE WRelock
  <2>1. DataOK'
    BY <1>12 DEF WRelock, DataOK
  <2>2. RotationInv'
    BY <1>12 DEF WRelock, RotationInv, PreInsert
  <2> QED BY <2>1, <2>2
<1>4. CASE WUnlock
  <2>1. entry' \in Entry
    BY <1>4 DEF WUnlock, DataOK, Entry
  <2>2. DataOK'
    BY <1>4, <2>1 DEF WUnlock, DataOK
  <2>3. RotationInv'
    BY <1>4 DEF WUnlock, RotationInv, PreInsert
  <2> QED BY <2>2, <2>3
<1>5. CASE WAppend
  <2>1. DataOK'
    BY <1>5, LogType DEF LogStep, WAppend, DataOK
  <2>2. RotationInv'
    BY <1>5 DEF WAppend, RotationInv, PreInsert
  <2> QED BY <2>1, <2>2
<1>13. CASE WSync
  <2>1. DataOK'
    BY <1>13, LogType DEF LogStep, WSync, DataOK
  <2>2. RotationInv'
    BY <1>13 DEF WSync, RotationInv, PreInsert
  <2> QED BY <2>1, <2>2
<1>14. CASE WSyncFails
  <2>1. DataOK'
    BY <1>14, LogType DEF LogStep, WSyncFails, DataOK
  <2>2. RotationInv'
    BY <1>14 DEF WSyncFails, RotationInv, PreInsert
  <2> QED BY <2>1, <2>2
<1>15. CASE WSlowdown
  <2>1. DataOK'
    BY <1>15 DEF WSlowdown, DataOK
  <2>2. RotationInv'
    BY <1>15 DEF WSlowdown, RotationInv, PreInsert
  <2> QED BY <2>1, <2>2
<1>16. CASE WRotateFails
  <2>1. DataOK'
    BY <1>16 DEF WRotateFails, DataOK
  <2>2. RotationInv'
    BY <1>16 DEF WRotateFails, MustRotate, RotationInv, PreInsert
  <2> QED BY <2>1, <2>2
<1>6. CASE WInsert
  <2>1. DataOK'
    BY <1>6 DEF WInsert, DataOK
  <2>2. RotationInv'
    BY <1>6 DEF WInsert, RotationInv, PreInsert, DataOK, Tables
  <2> QED BY <2>1, <2>2
<1>7. CASE WFinish
  <2>0. entry.seq \in Nat
    BY DEF DataOK, Entry
  <2>1. DataOK'
    BY <1>7, <2>0 DEF WFinish, DataOK
  <2>2. RotationInv'
    BY <1>7 DEF WFinish, RotationInv, PreInsert
  <2> QED BY <2>1, <2>2
<1> QED BY <1>1, <1>2, <1>3, <1>4, <1>5, <1>6, <1>7, <1>8, <1>9, <1>10,
           <1>11, <1>12, <1>13, <1>14, <1>15, <1>16 DEF Writer

LEMMA ReaderType ==
  ASSUME DataOK, Reader \/ RCall PROVE DataOK'
<1>1. CASE RCall
  BY <1>1 DEF RCall, DataOK
<1>2. CASE RLock
  BY <1>2 DEF RLock, DataOK
<1>3. CASE RSnapshot
  BY <1>3 DEF RSnapshot, DataOK
<1>4. CASE RCopyMem
  BY <1>4 DEF RCopyMem, DataOK
<1>5. CASE RCopyImm
  BY <1>5 DEF RCopyImm, DataOK
<1>6. CASE RCopyCurrent
  BY <1>6 DEF RCopyCurrent, DataOK
<1>7. CASE RRelock
  BY <1>7 DEF RRelock, DataOK
<1>8. CASE RSearch
  BY <1>8, SearchOrderType DEF RSearch, DataOK
<1>9. CASE RFinish
  <2>1. bpc' \in {bpc, "lock"}
    BY <1>9 DEF RFinish, MaybeCompaction, Schedule
  <2>2. result' \in [kind : {"none", "value", "notfound", "error"}, seq : Nat]
    BY <1>9 DEF RFinish, NoResult
  <2> QED BY <1>9, <2>1, <2>2, NoKeyType DEF RFinish, DataOK
<1> QED BY <1>1, <1>2, <1>3, <1>4, <1>5, <1>6, <1>7, <1>8, <1>9 DEF Reader

LEMMA BackgroundType ==
  ASSUME DataOK, BuildInv, Background PROVE DataOK'
<1>1. CASE BLock
  BY <1>1 DEF BLock, BLockAt, DataOK
<1>2. CASE BLockBuilt
  BY <1>2 DEF BLockBuilt, BLockAt, DataOK
<1>3. CASE BLockLogged
  BY <1>3 DEF BLockLogged, BLockAt, DataOK
<1>4. CASE BLockDeleted
  BY <1>4 DEF BLockDeleted, BLockAt, DataOK
<1>5. CASE BSkip
  BY <1>5 DEF BSkip, DataOK
<1>6. CASE BStart
  BY <1>6 DEF BStart, DataOK
<1>7. CASE BApply
  BY <1>7 DEF BApply, DataOK
<1>8. CASE BInstall
  BY <1>8 DEF BInstall, DataOK
<1>9. CASE BReset
  BY <1>9 DEF BReset, DataOK
<1>10. CASE BUnlock
  BY <1>10 DEF BUnlock, DataOK
<1>11. CASE BBuildFailed
  BY <1>11 DEF BBuildFailed, BFail, NotifyAll, DataOK
<1>12. CASE BLogFailed
  BY <1>12 DEF BLogFailed, BFail, NotifyAll, DataOK
<1>13. CASE BFinish
  BY <1>13 DEF BFinish, DataOK
<1>18. CASE BAgain
  BY <1>18 DEF BAgain, DataOK
<1>19. CASE BNotify
  BY <1>19 DEF BNotify, NotifyAll, DataOK
<1>14. CASE BBuild
  <2>1. DOMAIN tables' \subseteq Nat /\ \A n \in DOMAIN tables' : tables'[n] \subseteq Entry
    <3>1. CASE tables' = tables
      BY <3>1 DEF DataOK
    <3>2. CASE tables' = Put(tables, meta, content[imm_])
      <4>1. imm_ \in Tables
        BY <1>14 DEF DataOK, BuildInv, BBuild
      <4> QED BY <3>2, <4>1 DEF Put, DataOK
    <3> QED BY <1>14, <3>1, <3>2 DEF BBuild
  <2> QED BY <1>14, <2>1 DEF BBuild, DataOK
<1>15. CASE BLogEdit
  <2>0. [log |-> edit, tables |-> nowversion \cup {meta}] \in [log : Nat, tables : SUBSET Nat]
    BY DEF DataOK
  <2>1. manifest' \in [log : Nat, tables : SUBSET Nat]
    <3>1. manifest' \in {manifest, [log |-> edit, tables |-> nowversion \cup {meta}]}
      BY <1>15, Zenon DEF BLogEdit
    <3> QED BY <2>0, <3>1 DEF DataOK
  <2> QED BY <1>15, <2>1 DEF BLogEdit, DataOK
<1>16. CASE BList
  BY <1>16 DEF BList, Obsolete, DataOK
<1>17. CASE BDelete
  <2>1. DOMAIN logs' \subseteq Nat /\ \A n \in DOMAIN logs' : logs'[n] \subseteq Entry
    BY <1>17 DEF BDelete, Without, DataOK
  <2>2. DOMAIN tables' \subseteq Nat /\ \A n \in DOMAIN tables' : tables'[n] \subseteq Entry
    BY <1>17 DEF BDelete, Without, DataOK
  <2> QED BY <1>17, <2>1, <2>2 DEF BDelete, DataOK
<1> QED BY <1>1, <1>2, <1>3, <1>4, <1>5, <1>6, <1>7, <1>8, <1>9, <1>10, <1>11, <1>12, <1>13,
     <1>14, <1>15, <1>16,
           <1>17, <1>18, <1>19 DEF Background

LEMMA RestType ==
  ASSUME DataOK, Death \/ DLock \/ Destructor PROVE DataOK'
<1>1. CASE Death
  BY <1>1 DEF Death, RTornCopy, WThrows, BUseAfterFree, Dies, DataOK
<1>2. CASE DLock
  BY <1>2 DEF DLock, DataOK
<1>3. CASE DCheck
  BY <1>3 DEF DCheck, DataOK
<1>4. CASE DWait
  BY <1>4 DEF DWait, DataOK
<1>5. CASE DWake
  BY <1>5 DEF DWake, DataOK
<1> QED BY <1>1, <1>2, <1>3, <1>4, <1>5 DEF Destructor

\* What the writer waits in does not matter to RotationInv.
LEMMA RotationKept ==
  ASSUME RotationInv, UNCHANGED <<mem_, content, writes>>,
         wpc' = wpc \/ (wpc = "wait" /\ wpc' = "wake") \/ wpc' = "dead"
  PROVE  RotationInv'
BY DEF RotationInv, PreInsert

\* The background thread at most wakes the writer.
LEMMA WriterWoken ==
  ASSUME Background
  PROVE  wpc' = wpc \/ (wpc = "wait" /\ wpc' = "wake")
BY DEF Background, BLock, BLockBuilt, BLockLogged, BLockDeleted, BLockAt, BSkip, BStart,
       BBuild, BBuildFailed, BApply, BLogEdit, BInstall, BLogFailed, BFail, BReset, BList,
       BDelete, BFinish, BAgain, BNotify, BUnlock, NotifyAll

LEMMA BuildStep ==
  ASSUME TypeInv, Next PROVE BuildInv'
<1> USE DEF BuildInv, TypeInv
<1>1. CASE Writer \/ WCall
  <2>1. mem_ # NoTable
    BY LenScript DEF DataOK, Tables, NoTable
  <2>2. CASE WRotate
    BY <2>1, <2>2 DEF WRotate
  <2> QED BY <1>1, <2>2 DEF Writer, WCall, WLock, WSlowdown, WLeaveRoom, WSeesImm, WWaitFlush,
       WWake,
             WRotateFails, WUnlock, WAppend, WSync, WSyncFails, WInsert, WRelock, WFinish
<1>2. CASE Reader \/ RCall
  BY <1>2 DEF Reader, RCall, RLock, RSnapshot, RCopyMem, RCopyImm, RCopyCurrent, RSearch,
       RRelock, RFinish, MaybeCompaction, Schedule
<1>3. CASE Background
  BY <1>3 DEF Background, BLock, BLockBuilt, BLockLogged, BLockDeleted, BLockAt, BSkip, BStart,
       BBuild, BBuildFailed, BApply, BLogEdit, BInstall, BLogFailed, BFail, BReset, BList,
       BDelete, BFinish, BAgain, BNotify, BUnlock
<1>4. CASE Death
  BY <1>4 DEF Death, RTornCopy, WThrows, BUseAfterFree, Dies
<1>5. CASE DLock \/ Destructor
  BY <1>5, DestructorFrame
<1> QED BY <1>1, <1>2, <1>3, <1>4, <1>5 DEF Next, Client

LEMMA TypeStep == TypeInv /\ [Next]_vars => TypeInv'
<1> SUFFICES ASSUME TypeInv, [Next]_vars PROVE TypeInv'
  OBVIOUS
<1> USE DEF TypeInv
<1>1. CASE Writer \/ WCall
  BY <1>1, FlagsStep, BuildStep, WriterType DEF Next, Client
<1>2. CASE Reader \/ RCall
  BY <1>2, FlagsStep, BuildStep, ReaderType, ReaderFrame, RotationKept DEF Next, Client
<1>3. CASE Background
  BY <1>3, FlagsStep, BuildStep, BackgroundType, BackgroundFrame, WriterWoken,
       RotationKept DEF Next
<1>4. CASE Death
  BY <1>4, FlagsStep, BuildStep, RestType, RotationKept DEF Next, Death, RTornCopy, WThrows,
       BUseAfterFree, Dies
<1>5. CASE DLock \/ Destructor
  BY <1>5, FlagsStep, BuildStep, RestType, DestructorFrame, RotationKept DEF Next, Client
<1>6. CASE UNCHANGED vars
  <2>1. FlagsOK'
    BY <1>6, Zenon DEF vars, FlagsOK
  <2>2. DataOK'
    BY <1>6 DEF vars, DataOK
  <2>3. RotationInv'
    BY <1>6, RotationKept DEF vars
  <2>4. BuildInv'
    BY <1>6 DEF vars, BuildInv
  <2> QED BY <2>1, <2>2, <2>3, <2>4
<1> QED BY <1>1, <1>2, <1>3, <1>4, <1>5, <1>6 DEF Next, Client

\* The types of one session's state; in particular there is a memtable for every
\* rotation that MakeRoomForwrite can make.
THEOREM FlushTypeCorrect == Spec => []TypeOK
<1>1. Spec => []TypeInv
  BY TypeInitially, TypeStep, PTL DEF Spec
<1> QED BY <1>1, TypeInvType, PTL

-----------------------------------------------------------------------------
(***************************************************************************)
(* The destructor.  The flag background_compaction_ is up for as long as   *)
(* BackgroundCall works, and nothing is scheduled any more once            *)
(* shutting_down_ is set.                                                  *)
(***************************************************************************)
Working == {"lock", "start", "build", "built", "apply", "log", "logged", "install", "reset",
            "list", "delete", "deleted", "finish"}

CloseInv ==
  /\ bpc \in Working => background_compaction_
  /\ dpc \notin {"none", "dead"} => shutting_down_
  /\ bpc = "dead" => dpc = "dead"
  /\ CloseWaits

\* Only a rotation and the end of a Get schedule work, and what they can do.
LEMMA ScheduleFrame ==
  ASSUME Writer \/ WCall \/ Reader \/ RCall
  PROVE  \/ UNCHANGED <<background_compaction_, started_background_thread, bpc>>
         \/ /\ ~shutting_down_ /\ ~background_compaction_
            /\ background_compaction_' = TRUE /\ started_background_thread' = TRUE
            /\ bpc' = IF started_background_thread THEN bpc ELSE "lock"
<1>1. CASE WRotate
  BY <1>1, Zenon DEF WRotate, MaybeCompaction, Schedule, WantsCompaction
<1>2. CASE RFinish
  BY <1>2, Zenon DEF RFinish, MaybeCompaction, Schedule, WantsCompaction
<1> QED BY <1>1, <1>2 DEF Writer, WCall, WLock, WSlowdown, WLeaveRoom, WSeesImm, WWaitFlush,
     WWake,
           WRotateFails, WUnlock, WAppend, WSync, WSyncFails, WInsert, WRelock, WFinish,
           Reader, RCall, RLock, RSnapshot,
           RCopyMem, RCopyImm, RCopyCurrent, RSearch, RRelock

\* What the background thread does to its place and to the flag.
LEMMA BackgroundMoves ==
  ASSUME Background
  PROVE  /\ \/ bpc \in Working /\ bpc' \in Working /\ UNCHANGED background_compaction_
            \/ bpc = "finish" /\ bpc' = "again"
            \/ bpc = "again" /\ bpc' = "notify"
            \/ bpc = "notify" /\ bpc' = "unlock"
            \/ bpc = "unlock" /\ bpc' = "done"
         /\ dpc' = dpc \/ (dpc = "wait" /\ dpc' = "wake")
BY DEF Background, BLock, BLockBuilt, BLockLogged, BLockDeleted, BLockAt, BSkip, BStart,
       BBuild, BBuildFailed, BApply, BLogEdit, BInstall, BLogFailed, BFail, BReset, BList,
       BDelete, BFinish, BAgain, BNotify, BUnlock, NotifyAll, Working

LEMMA CloseStep == TypeInv /\ CloseInv /\ [Next]_vars => CloseInv'
<1> SUFFICES ASSUME TypeInv, CloseInv, [Next]_vars PROVE CloseInv'
  OBVIOUS
<1> USE DEF CloseInv, CloseWaits
<1>0. bpc \in Working \cup {"none", "again", "notify", "unlock", "done", "dead"}
  BY DEF TypeInv, DataOK, Working
<1>1. CASE Writer \/ WCall
  BY <1>1, WriterFrame, ScheduleFrame DEF Working
<1>2. CASE Reader \/ RCall
  BY <1>2, ReaderFrame, ScheduleFrame DEF Working
<1>3. CASE Background
  BY <1>3, BackgroundFrame, BackgroundMoves DEF Working
<1>4. CASE Death
  BY <1>4 DEF Death, RTornCopy, WThrows, BUseAfterFree, Dies, Working
<1>5. CASE DLock
  BY <1>5 DEF DLock
<1>6. CASE Destructor
  BY <1>0, <1>6 DEF Destructor, DCheck, DWait, DWake
<1>7. CASE UNCHANGED vars
  BY <1>7 DEF vars
<1> QED BY <1>1, <1>2, <1>3, <1>4, <1>5, <1>6, <1>7 DEF Next, Client

\* ~DBImpl does not return before BackgroundCall has cleared background_compaction_,
\* however many rotations, reads and wake-ups come before.  What BackgroundCall still
\* does after that, MaybeCompaction, notify_all and the unlock, it does not wait for.
THEOREM CloseWaitsHolds == Spec => []CloseWaits
<1>1. Init => CloseInv
  BY DEF Init, CloseInv, CloseWaits, Working
<1>2. Spec => [](TypeInv /\ CloseInv)
  BY <1>1, TypeInitially, TypeStep, CloseStep, PTL DEF Spec
<1>3. CloseInv => CloseWaits
  BY DEF CloseInv
<1> QED BY <1>2, <1>3, PTL

-----------------------------------------------------------------------------
(***************************************************************************)
(* What the memtables hold.  Their entries are the acknowledged writes and *)
(* the one in flight, and an older memtable holds older entries.           *)
(***************************************************************************)
StartInv ==
  /\ ~started_background_thread => bpc \in {"none", "dead"}
  /\ bpc = "dead" => wpc = "dead" /\ rpc = "dead"
  /\ wpc = "dead" => bpc = "dead" /\ rpc = "dead"

InFlight(e) == wpc \in {"relock", "finish", "dead"} /\ e = entry
HeldAcked ==
  \A m \in Tables : \A e \in content[m] : e \notin unsynced /\ (e \in acked \/ InFlight(e))
AckedHeld ==
  \A e \in acked : e.seq <= LastSequence /\ (e \in unsynced \/ \E m \in Tables : e \in content[m])
EntryNext ==
  /\ wpc \in {"append", "sync", "insert", "relock", "finish"} => entry.seq = LastSequence + 1
  /\ wpc \in {"relock", "finish"} => entry \in unsynced \/ entry \in content[mem_]
UnsyncedOld == \A e \in unsynced : e.seq <= LastSequence \/ InFlight(e)
MemOrder == \A m, n \in Tables : m < n => \A e \in content[m], f \in content[n] : e.seq < f.seq
ContentInv == HeldAcked /\ AckedHeld /\ EntryNext /\ UnsyncedOld /\ MemOrder

LEMMA StartStep == StartInv /\ [Next]_vars => StartInv'
<1> SUFFICES ASSUME StartInv, [Next]_vars PROVE StartInv'
  OBVIOUS
<1> USE DEF StartInv
<1>1. CASE Writer \/ WCall
  <2>1. wpc # "dead" /\ wpc' # "dead"
    BY <1>1, WriterAlive
  <2> QED BY <1>1, <2>1, WriterFrame, ScheduleFrame
<1>2. CASE Reader \/ RCall
  <2>1. rpc # "dead" /\ rpc' # "dead"
    BY <1>2 DEF Reader, RCall, RLock, RSnapshot, RCopyMem, RCopyImm, RCopyCurrent, RSearch,
           RRelock, RFinish
  <2> QED BY <1>2, <2>1, ReaderFrame, ScheduleFrame
<1>3. CASE Background
  BY <1>3, BackgroundFrame, BackgroundMoves, WriterWoken DEF Working
<1>4. CASE Death
  BY <1>4 DEF Death, RTornCopy, WThrows, BUseAfterFree, Dies
<1>5. CASE DLock \/ Destructor
  BY <1>5, DestructorFrame
<1>6. CASE UNCHANGED vars
  BY <1>6 DEF vars
<1> QED BY <1>1, <1>2, <1>3, <1>4, <1>5, <1>6 DEF Next, Client

\* A step that leaves the memtables alone and at most wakes or kills the writer.
LEMMA ContentKept ==
  ASSUME ContentInv, UNCHANGED <<mem_, content, LastSequence, entry, acked, unsynced>>,
         wpc' = wpc \/ (wpc = "wait" /\ wpc' = "wake") \/ wpc' = "dead"
  PROVE  ContentInv'
BY DEF ContentInv, HeldAcked, InFlight, AckedHeld, EntryNext, UnsyncedOld, MemOrder

LEMMA InsertContent ==
  ASSUME TypeInv, ContentInv, WInsert PROVE ContentInv'
<1> USE DEF TypeInv
<1>1. /\ content' = [content EXCEPT ![mem_] = @ \cup {entry}]
      /\ UNCHANGED <<mem_, LastSequence, entry, acked,
                     unsynced>> /\ wpc = "insert" /\ wpc' = "relock"
  BY DEF WInsert
<1>2. mem_ \in Tables /\ content \in [Tables -> SUBSET Entry]
  BY DEF DataOK
<1>3. /\ content'[mem_] = content[mem_] \cup {entry}
      /\ \A m \in Tables : m # mem_ => content'[m] = content[m]
  BY <1>1, <1>2
<1>4. entry.seq = LastSequence + 1 /\ LastSequence \in Nat
  BY <1>1 DEF ContentInv, EntryNext, DataOK
<1>5. \A m \in Tables : \A e \in content[m] : e \in acked /\ e.seq <= LastSequence
  BY <1>1 DEF ContentInv, HeldAcked, InFlight, AckedHeld
<1>6. \A m \in Tables : \A e \in content[m] : e.seq \in Nat /\ e.seq < entry.seq
  BY <1>2, <1>4, <1>5 DEF Entry
<1>12. unsynced \subseteq Entry /\ \A e \in unsynced : e.seq <= LastSequence
  BY <1>1 DEF ContentInv, UnsyncedOld, InFlight, DataOK
<1>13. entry \notin unsynced
  BY <1>4, <1>12 DEF Entry
<1>7. HeldAcked'
  BY <1>1, <1>3, <1>5, <1>13 DEF ContentInv, HeldAcked, InFlight
<1>8. AckedHeld'
  BY <1>1, <1>2, <1>3 DEF ContentInv, AckedHeld
<1>9. EntryNext'
  BY <1>1, <1>3, <1>4 DEF EntryNext
<1>10. MemOrder'
  <2> SUFFICES ASSUME NEW m \in Tables, NEW n \in Tables, m < n,
                      NEW e \in content'[m], NEW f \in content'[n]
               PROVE  e.seq < f.seq
    BY DEF MemOrder
  <2>1. CASE n = mem_
    <3>1. e \in content[m]
      BY <2>1, <1>3, LenScript DEF Tables
    <3> QED BY <2>1, <1>3, <1>6, <3>1 DEF ContentInv, MemOrder
  <2>2. CASE n # mem_
    <3>1. f \in content[n]
      BY <1>3, <2>2
    <3>2. m # mem_
      BY <3>1, LenScript DEF RotationInv, Tables
    <3> QED BY <1>3, <3>1, <3>2 DEF ContentInv, MemOrder
  <2> QED BY <2>1, <2>2
<1>11. UnsyncedOld'
  BY <1>1, <1>12 DEF UnsyncedOld
<1> QED BY <1>7, <1>8, <1>9, <1>10, <1>11 DEF ContentInv

LEMMA ContentStep == TypeInv /\ StartInv /\ ContentInv /\ [Next]_vars => ContentInv'
<1> SUFFICES ASSUME TypeInv, StartInv, ContentInv, [Next]_vars PROVE ContentInv'
  OBVIOUS
<1>1. CASE WInsert
  BY <1>1, InsertContent
<1>2. CASE WFinish
  <2>1. /\ LastSequence' = entry.seq /\ acked' = acked \cup {entry}
        /\ wpc = "finish" /\ wpc' = "idle" /\ UNCHANGED <<mem_, content, entry, unsynced>>
    BY <1>2 DEF WFinish
  <2>2. /\ entry.seq = LastSequence + 1 /\ LastSequence \in Nat /\ mem_ \in Tables
        /\ acked \subseteq Entry /\ unsynced \subseteq Entry
        /\ entry \in unsynced \/ entry \in content[mem_]
    BY <2>1 DEF ContentInv, EntryNext, TypeInv, DataOK
  <2>3. HeldAcked'
    BY <2>1 DEF ContentInv, HeldAcked, InFlight
  <2>4. AckedHeld'
    BY <2>1, <2>2 DEF ContentInv, AckedHeld, Entry
  <2>6. UnsyncedOld'
    BY <2>1, <2>2 DEF ContentInv, UnsyncedOld, InFlight, Entry
  <2>5. EntryNext' /\ MemOrder'
    BY <2>1 DEF ContentInv, EntryNext, UnsyncedOld, MemOrder
  <2> QED BY <2>3, <2>4, <2>5, <2>6 DEF ContentInv
<1>3. CASE WUnlock
  <2>1. /\ entry' = [entry EXCEPT !.seq = LastSequence + 1] /\ wpc = "unlock" /\ wpc' = "append"
        /\ UNCHANGED <<mem_, content, LastSequence, acked, unsynced>>
    BY <1>3 DEF WUnlock
  <2>2. entry'.seq = LastSequence + 1
    BY <2>1 DEF TypeInv, DataOK, Entry
  <2> QED BY <2>1, <2>2 DEF ContentInv, HeldAcked, InFlight, AckedHeld, EntryNext,
       UnsyncedOld, MemOrder
<1>4. CASE WRotate
  <2>1. wpc = "room" /\ UNCHANGED <<content, LastSequence, entry, acked, unsynced, wpc>>
    BY <1>4 DEF WRotate, MustRotate
  <2> QED BY <2>1 DEF ContentInv, HeldAcked, InFlight, AckedHeld, EntryNext, UnsyncedOld,
       MemOrder
<1>5. CASE WRelock
  BY <1>5 DEF WRelock, ContentInv, HeldAcked, InFlight, AckedHeld, EntryNext, UnsyncedOld,
       MemOrder
<1>6. CASE WCall
  <2>1. wpc = "idle" /\ wpc' = "lock" /\ UNCHANGED <<mem_, content, LastSequence, acked,
                                                     unsynced>>
    BY <1>6 DEF WCall
  <2> QED BY <2>1 DEF ContentInv, HeldAcked, InFlight, AckedHeld, EntryNext, UnsyncedOld,
       MemOrder
<1>7. CASE \/ WLock \/ WSlowdown \/ WLeaveRoom \/ WSeesImm \/ WWaitFlush \/ WWake
           \/ WRotateFails \/ WAppend \/ WSync
  <2>1. /\ wpc \notin {"relock", "finish", "dead"} /\ wpc' \notin {"relock", "finish", "dead"}
        /\ wpc' \in {"append", "sync", "insert"} => wpc \in {"append", "sync", "insert"}
        /\ UNCHANGED <<mem_, content, LastSequence, entry, acked, unsynced>>
    BY <1>7 DEF WLock, WSlowdown, WLeaveRoom, WSeesImm, WWaitFlush, WWake, WRotateFails,
           MustRotate, WAppend, WSync
  <2> QED BY <2>1 DEF ContentInv, HeldAcked, InFlight, AckedHeld, EntryNext, UnsyncedOld,
       MemOrder
<1>13. CASE WSyncFails
  <2>1. /\ wpc = "sync" /\ wpc' = "relock" /\ unsynced' = unsynced \cup {entry}
        /\ UNCHANGED <<mem_, content, LastSequence, entry, acked>>
    BY <1>13 DEF WSyncFails
  <2>2. /\ entry.seq = LastSequence + 1 /\ LastSequence \in Nat
        /\ content \in [Tables -> SUBSET Entry]
    BY <2>1 DEF ContentInv, EntryNext, TypeInv, DataOK
  <2>3. \A m \in Tables : \A e \in content[m] : e.seq <= LastSequence
    BY <2>1 DEF ContentInv, HeldAcked, AckedHeld, InFlight
  <2>4. \A m \in Tables : entry \notin content[m]
    BY <2>2, <2>3
  <2>5. HeldAcked'
    BY <2>1, <2>4 DEF ContentInv, HeldAcked, InFlight
  <2>6. AckedHeld' /\ MemOrder'
    BY <2>1 DEF ContentInv, AckedHeld, MemOrder
  <2>7. EntryNext' /\ UnsyncedOld'
    BY <2>1 DEF ContentInv, EntryNext, UnsyncedOld, InFlight
  <2> QED BY <2>5, <2>6, <2>7 DEF ContentInv
<1>8. CASE Reader \/ RCall
  BY <1>8, ReaderFrame, ContentKept
<1>9. CASE Background
  BY <1>9, BackgroundFrame, WriterWoken, ContentKept
<1>10. CASE Death
  BY <1>10, ContentKept DEF Death, RTornCopy, WThrows, BUseAfterFree, Dies
<1>11. CASE DLock \/ Destructor
  BY <1>11, DestructorFrame, ContentKept
<1>12. CASE UNCHANGED vars
  BY <1>12, ContentKept DEF vars
<1> QED BY <1>1, <1>2, <1>3, <1>4, <1>5, <1>6, <1>7, <1>8, <1>9, <1>10, <1>11, <1>12,
           <1>13 DEF Next, Client, Writer

-----------------------------------------------------------------------------
(***************************************************************************)
(* The flush.  A session flushes its first memtable at most, and until its *)
(* table is in the current version imm_ keeps it: every memtable before    *)
(* mem_ is imm_ or in the version.                                         *)
(***************************************************************************)
BeforeInstall == {"none", "lock", "start", "build", "built", "apply", "log", "logged", "install"}
Flushing == {"build", "built", "apply", "log", "logged", "install", "reset"}

OlderKept ==
  /\ imm_ < mem_
  /\ \A m \in 1 .. mem_ - 1 : m = imm_ \/ (m = 1 /\ nowversion # {})
FlushedFirst ==
  /\ nowversion # {} => mem_ > 1
  /\ \A t \in nowversion : t \in DOMAIN tables => tables[t] = content[1]
FlushPlace ==
  /\ bpc \in BeforeInstall => nowversion = {}
  /\ bpc \in Flushing => imm_ = 1
  /\ bpc = "reset" => nowversion # {}
TableBuilt ==
  (bpc \in {"built", "apply"} /\ ok) \/ bpc \in {"log", "logged"} \/ (bpc = "install" /\ ok) =>
    meta \in DOMAIN tables /\ tables[meta] = content[1]
FlushInv == OlderKept /\ FlushedFirst /\ FlushPlace /\ TableBuilt

\* A step that schedules work at most, and touches neither memtables nor files.
LEMMA FlushKept ==
  ASSUME StartInv, wpc # "dead" \/ rpc # "dead", FlushInv,
         UNCHANGED <<mem_, imm_, content, nowversion, tables, meta, ok>>,
         bpc' = bpc \/ bpc' = IF started_background_thread THEN bpc ELSE "lock"
  PROVE  FlushInv'
<1>1. bpc' = bpc \/ (bpc = "none" /\ bpc' = "lock")
  BY DEF StartInv
<1> QED BY <1>1 DEF FlushInv, OlderKept, FlushedFirst, FlushPlace, TableBuilt, BeforeInstall,
               Flushing

LEMMA WriterFlush ==
  ASSUME TypeInv, StartInv, FlushInv, Writer \/ WCall PROVE FlushInv'
<1> USE DEF TypeInv
<1>0. /\ wpc # "dead"
      /\ bpc' = bpc \/ bpc' = IF started_background_thread THEN bpc ELSE "lock"
      /\ UNCHANGED <<nowversion, tables, meta, ok>>
  <2>1. wpc # "dead"
    BY WriterAlive
  <2> QED BY <2>1, WriterFrame, ScheduleFrame
<1>1. mem_ \in Nat /\ mem_ >= 1
  BY LenScript DEF DataOK, Tables
<1>2. CASE WRotate
  <2>1. imm_ = NoTable /\ imm_' = mem_ /\ mem_' = mem_ + 1 /\ content' = content
    BY <1>2 DEF WRotate
  <2>2. bpc' = bpc \/ (bpc = "none" /\ bpc' = "lock")
    BY <1>0 DEF StartInv
  <2>3. OlderKept'
    BY <1>0, <1>1, <2>1 DEF FlushInv, OlderKept, NoTable
  <2>4. FlushedFirst'
    BY <1>0, <1>1, <2>1 DEF FlushInv, FlushedFirst
  <2>5. FlushPlace' /\ TableBuilt'
    BY <1>0, <2>1, <2>2 DEF FlushInv, FlushPlace, TableBuilt, BeforeInstall, Flushing, NoTable
  <2> QED BY <2>3, <2>4, <2>5 DEF FlushInv
<1>3. CASE WInsert
  <2>1. /\ content' = [content EXCEPT ![mem_] = @ \cup {entry}]
        /\ UNCHANGED <<mem_, imm_, bpc>>
    BY <1>3 DEF WInsert
  <2>2. mem_ > 1 => content'[1] = content[1]
    BY <1>1, <2>1 DEF DataOK, Tables
  <2>3. bpc \in Flushing => mem_ > 1
    BY DEF FlushInv, OlderKept, FlushPlace
  <2> QED BY <1>0, <2>1, <2>2, <2>3 DEF FlushInv, OlderKept, FlushedFirst, FlushPlace,
       TableBuilt,
             Flushing
<1>4. CASE ~WRotate /\ ~WInsert
  <2>1. UNCHANGED <<mem_, imm_, content>>
    BY <1>4 DEF Writer, WCall, WLock, WSlowdown, WLeaveRoom, WSeesImm, WWaitFlush, WWake,
           WRotateFails, WUnlock, WAppend, WSync, WSyncFails, WRelock, WFinish
  <2> QED BY <1>0, <2>1, FlushKept
<1> QED BY <1>2, <1>3, <1>4

LEMMA BackgroundFlush ==
  ASSUME TypeInv, FlushInv, Background PROVE FlushInv'
<1> USE DEF TypeInv, FlushInv, BeforeInstall, Flushing
<1>0. UNCHANGED <<mem_, content>> /\ mem_ \in Nat /\ mem_ >= 1
  BY BackgroundFrame, LenScript DEF DataOK, Tables
<1>1. CASE BLock \/ BLockBuilt \/ BLockLogged \/ BLockDeleted
  BY <1>0, <1>1 DEF BLock, BLockBuilt, BLockLogged, BLockDeleted, BLockAt, OlderKept,
     FlushedFirst, FlushPlace, TableBuilt
<1>2. CASE BSkip
  BY <1>0, <1>2 DEF BSkip, OlderKept, FlushedFirst, FlushPlace, TableBuilt
<1>3. CASE BStart
  <2>1. /\ imm_ # NoTable /\ bpc = "start" /\ bpc' = "build"
        /\ UNCHANGED <<imm_, nowversion, tables, ok>>
    BY <1>3 DEF BStart
  <2>2. nowversion = {} /\ imm_ \in Nat /\ imm_ >= 1 /\ imm_ < mem_
    BY <2>1, LenScript DEF FlushPlace, OlderKept, DataOK, Tables, NoTable
  <2>3. imm_ = 1
    BY <1>0, <2>2 DEF OlderKept
  <2> QED BY <1>0, <2>1, <2>3 DEF OlderKept, FlushedFirst, FlushPlace, TableBuilt
<1>4. CASE BBuild
  <2>1. /\ bpc = "build" /\ bpc' = "built" /\ UNCHANGED <<imm_, nowversion, meta>>
        /\ nowversion = {} /\ imm_ = 1
    BY <1>4 DEF BBuild, FlushPlace
  <2>2. ok' => tables' = Put(tables, meta, content[imm_])
    BY <1>4 DEF BBuild
  <2>3. ok' => meta \in DOMAIN tables' /\ tables'[meta] = content[1]
    BY <2>1, <2>2 DEF Put
  <2> QED BY <1>0, <2>1, <2>3 DEF OlderKept, FlushedFirst, FlushPlace, TableBuilt
<1>5. CASE BBuildFailed
  BY <1>0, <1>5 DEF BBuildFailed, BFail, OlderKept, FlushedFirst, FlushPlace, TableBuilt
<1>6. CASE BApply
  BY <1>0, <1>6 DEF BApply, OlderKept, FlushedFirst, FlushPlace, TableBuilt
<1>7. CASE BLogEdit
  BY <1>0, <1>7 DEF BLogEdit, OlderKept, FlushedFirst, FlushPlace, TableBuilt
<1>8. CASE BInstall
  <2>1. /\ bpc = "install" /\ bpc' = "reset" /\ ok /\ nowversion = {} /\ nowversion' = {meta}
        /\ UNCHANGED <<imm_, tables>> /\ imm_ = 1 /\ tables[meta] = content[1]
    BY <1>8 DEF BInstall, FlushPlace, TableBuilt
  <2> QED BY <1>0, <2>1 DEF OlderKept, FlushedFirst, FlushPlace, TableBuilt
<1>9. CASE BLogFailed
  BY <1>0, <1>9 DEF BLogFailed, BFail, OlderKept, FlushedFirst, FlushPlace, TableBuilt
<1>10. CASE BReset
  BY <1>0, <1>10 DEF BReset, OlderKept, FlushedFirst, FlushPlace, TableBuilt, NoTable
<1>11. CASE BList
  BY <1>0, <1>11 DEF BList, OlderKept, FlushedFirst, FlushPlace, TableBuilt
<1>12. CASE BDelete
  <2>1. /\ bpc = "delete" /\ bpc' = "deleted" /\ tables' = Without(tables, obsolete)
        /\ UNCHANGED <<imm_, nowversion>>
    BY <1>12 DEF BDelete
  <2>2. \A t \in DOMAIN tables' : t \in DOMAIN tables /\ tables'[t] = tables[t]
    BY <2>1 DEF Without
  <2> QED BY <1>0, <2>1, <2>2 DEF OlderKept, FlushedFirst, FlushPlace, TableBuilt
<1>13. CASE BFinish
  BY <1>0, <1>13 DEF BFinish, OlderKept, FlushedFirst, FlushPlace, TableBuilt
<1>14. CASE BUnlock
  BY <1>0, <1>14 DEF BUnlock, OlderKept, FlushedFirst, FlushPlace, TableBuilt
<1>15. CASE BAgain \/ BNotify
  BY <1>0, <1>15 DEF BAgain, BNotify, OlderKept, FlushedFirst, FlushPlace, TableBuilt
<1> QED BY <1>1, <1>2, <1>3, <1>4, <1>5, <1>6, <1>7, <1>8, <1>9, <1>10, <1>11, <1>12, <1>13,
           <1>14, <1>15 DEF Background

LEMMA FlushStep == TypeInv /\ StartInv /\ FlushInv /\ [Next]_vars => FlushInv'
<1> SUFFICES ASSUME TypeInv, StartInv, FlushInv, [Next]_vars PROVE FlushInv'
  OBVIOUS
<1>1. CASE Writer \/ WCall
  BY <1>1, WriterFlush
<1>2. CASE Background
  BY <1>2, BackgroundFlush
<1>3. CASE Reader \/ RCall
  <2>1. rpc # "dead"
    BY <1>3 DEF Reader, RCall, RLock, RSnapshot, RCopyMem, RCopyImm, RCopyCurrent, RSearch,
           RRelock, RFinish
  <2> QED BY <1>3, <2>1, ReaderFrame, ScheduleFrame, FlushKept
<1>4. CASE Death
  BY <1>4 DEF Death, RTornCopy, WThrows, BUseAfterFree, Dies, FlushInv, OlderKept,
       FlushedFirst, FlushPlace, TableBuilt, BeforeInstall,
     Flushing
<1>5. CASE DLock \/ Destructor
  BY <1>5, DestructorFrame DEF FlushInv, OlderKept, FlushedFirst, FlushPlace, TableBuilt
<1>6. CASE UNCHANGED vars
  BY <1>6 DEF vars, FlushInv, OlderKept, FlushedFirst, FlushPlace, TableBuilt
<1> QED BY <1>1, <1>2, <1>3, <1>4, <1>5, <1>6 DEF Next, Client

-----------------------------------------------------------------------------
(***************************************************************************)
(* Get.  It copies mem_, imm_ and the current version in this order, while *)
(* memtables move from mem_ to imm_ to the version in that same order: no  *)
(* memtable with entries of its snapshot can slip past it.                 *)
(***************************************************************************)
SnapshotPast ==
  rpc \in {"mem", "imm", "current", "search", "relock", "finish"} => snapshot <= LastSequence
MemCopied ==
  rpc \in {"imm", "current", "search"} =>
    /\ mem \in 1 .. mem_
    /\ \A m \in Tables : m > mem => \A e \in content[m] : e.seq > snapshot
OlderCopied ==
  /\ rpc = "current" => \A m \in 1 .. mem - 1 : m = imm \/ (m = 1 /\ nowversion # {})
  /\ rpc = "search" => /\ \A m \in 1 .. mem - 1 : m = imm \/ (m = 1 /\ current # {})
                       /\ current \subseteq nowversion
ReaderInv == SnapshotPast /\ MemCopied /\ OlderCopied /\ GetExact

\* A search finds what the snapshot says.
LEMMA SearchExact ==
  ASSUME TypeInv, StartInv, ContentInv, FlushInv, ReaderInv, rpc = "search",
         NEW r, r = SearchOrder(MemtableEntries(mem), MemtableEntries(imm)), r.kind # "error"
  PROVE  r.seq = IF Visible(Stored) = {} THEN 0 ELSE Newest(Visible(Stored)).seq
<1> USE DEF TypeInv
<1>1. /\ content \in [Tables -> SUBSET Entry] /\ acked \subseteq Entry /\ snapshot \in Nat
      /\ LastSequence \in Nat /\ entry \in Entry /\ mem_ \in Tables
      /\ imm \in Tables \cup {NoTable} /\ key \in Keys
  BY DEF DataOK
<1>2. mem \in Tables /\ mem # NoTable /\ mem \in Nat
  BY <1>1, LenScript DEF ReaderInv, MemCopied, Tables, NoTable
<1>3. \A m \in Tables : Visible(content[m]) \subseteq Visible(Stored)
  <2> SUFFICES ASSUME NEW m \in Tables, NEW e \in content[m], e.seq <= snapshot
               PROVE  e \in Stored
    BY DEF Visible
  <2>1. wpc # "dead" /\ snapshot <= LastSequence
    BY DEF StartInv, ReaderInv, SnapshotPast
  <2>2. ~InFlight(e)
    BY <1>1, <2>1 DEF InFlight, ContentInv, EntryNext
  <2> QED BY <2>2 DEF ContentInv, HeldAcked, Stored
<1>4. \A e \in Visible(Stored) : \E m \in Tables : e \in Visible(content[m]) /\ m <= mem
  <2> SUFFICES ASSUME NEW e \in Visible(Stored)
               PROVE  \E m \in Tables : e \in Visible(content[m]) /\ m <= mem
    OBVIOUS
  <2>1. PICK m \in Tables : e \in content[m]
    BY DEF Visible, Stored, ContentInv, AckedHeld
  <2>2. e.seq <= snapshot /\ e.seq \in Nat /\ e \in Visible(content[m])
    BY <1>1, <2>1 DEF Visible, Entry
  <2>3. m <= mem
    BY <1>1, <1>2, <2>1, <2>2, LenScript DEF ReaderInv, MemCopied, Tables
  <2> QED BY <2>1, <2>2, <2>3
<1>5. Visible(Stored) \subseteq Entry /\ \A e \in Visible(Stored) : e.seq <= snapshot
  BY <1>1 DEF Visible, Stored
<1>6. \A e \in Entry : Found(e).seq = e.seq
  BY DEF Found
\* The newest entry of a memtable m is the newest of all when every other one is in
\* a memtable before m.
<1>7. ASSUME NEW m \in Tables, Visible(content[m]) # {},
             \A e \in Visible(Stored) : \E n \in Tables : e \in Visible(content[n]) /\ n <= m
      PROVE  Visible(Stored) # {} /\
             Found(Newest(Visible(content[m]))).seq = Newest(Visible(Stored)).seq
  <2> DEFINE a == Newest(Visible(content[m]))
             b == Newest(Visible(Stored))
  <2>1. Visible(content[m]) \subseteq Visible(Stored) /\ Visible(Stored) # {}
    BY <1>3, <1>7
  <2>2. a \in Visible(content[m]) /\ \A f \in Visible(content[m]) : f.seq <= a.seq
    BY <1>1, <1>5, <1>7, <2>1, NewestIn
  <2>3. b \in Visible(Stored) /\ \A f \in Visible(Stored) : f.seq <= b.seq
    BY <1>1, <1>5, <2>1, NewestIn
  <2> HIDE DEF a, b
  <2>4. a.seq <= b.seq /\ a \in Entry /\ b \in Entry
    BY <1>5, <2>1, <2>2, <2>3
  <2>5. PICK n \in Tables : b \in Visible(content[n]) /\ n <= m
    BY <1>7, <2>3
  <2>6. b.seq <= a.seq
    <3>1. CASE n = m
      BY <2>2, <2>5, <3>1
    <3>2. CASE n < m
      BY <2>2, <2>4, <2>5, <3>2 DEF ContentInv, MemOrder, Visible, Entry
    <3> QED BY <2>5, <3>1, <3>2, LenScript DEF Tables
  <2>7. a.seq = b.seq
    BY <2>4, <2>6 DEF Entry
  <2> QED BY <1>6, <2>1, <2>4, <2>7 DEF a, b
<1>8. CASE Visible(content[mem]) # {}
  BY <1>2, <1>4, <1>7, <1>8 DEF SearchOrder, MemtableEntries
<1>9. CASE Visible(content[mem]) = {} /\ imm # NoTable /\ Visible(content[imm]) # {}
  <2>1. imm \in Tables
    BY <1>1, <1>9
  <2>2. \A e \in Visible(Stored) : \E n \in Tables : e \in Visible(content[n]) /\ n <= imm
    <3> SUFFICES ASSUME NEW e \in Visible(Stored)
                 PROVE  \E n \in Tables : e \in Visible(content[n]) /\ n <= imm
      OBVIOUS
    <3>1. PICK n \in Tables : e \in Visible(content[n]) /\ n <= mem
      BY <1>4
    <3>2. n # mem
      BY <1>9, <3>1
    <3>3. n = imm \/ n = 1
      BY <1>2, <3>1, <3>2, LenScript DEF ReaderInv, OlderCopied, Tables
    <3> QED BY <2>1, <3>1, <3>3, LenScript DEF Tables
  <2> QED BY <1>2, <1>7, <1>9, <2>1, <2>2 DEF SearchOrder, MemtableEntries
<1>10. CASE Visible(content[mem]) = {} /\ (imm = NoTable \/ Visible(content[imm]) = {})
  <2>1. r = VersionGet
    BY <1>2, <1>10 DEF SearchOrder, MemtableEntries, Visible
  <2>2. Visible(Stored) = {}
    <3> SUFFICES ASSUME NEW e \in Visible(Stored) PROVE FALSE
      OBVIOUS
    <3>1. PICK n \in Tables : e \in Visible(content[n]) /\ n <= mem
      BY <1>4
    <3>2. n # mem
      BY <1>10, <3>1
    <3>3. n = imm \/ (n = 1 /\ current # {})
      BY <1>2, <3>1, <3>2, LenScript DEF ReaderInv, OlderCopied, Tables
    <3>4. n # imm
      <4>1. n # NoTable
        BY LenScript DEF Tables, NoTable
      <4> QED BY <1>10, <3>1, <4>1
    <3>5. PICK t \in current : t \in nowversion
      BY <3>3, <3>4 DEF ReaderInv, OlderCopied
    <3>6. e.key = key /\ e \in content[1] /\ e.key \in Int
      BY <1>1, <3>1, <3>3, <3>4, KeysAssumption DEF Visible, Entry
    <3>7. Covers(t)
      BY <3>5, <3>6 DEF Covers, FlushInv, FlushedFirst
    <3>8. VersionGet.kind = "error"
      BY <3>7 DEF VersionGet, TableCacheGet, TableOpen, ReadBlock
    <3> QED BY <2>1, <3>8
  <2> QED BY <2>1, <2>2 DEF VersionGet
<1> QED BY <1>8, <1>9, <1>10

\* What the reader sees of the other threads: memtables after the one it copied get
\* only entries newer than its snapshot, and versions only grow.
LEMMA ReaderKept ==
  ASSUME TypeInv, ReaderInv, UNCHANGED rVars,
         LastSequence <= LastSequence', LastSequence' \in Nat, mem_ <= mem_', mem_' \in Nat,
         nowversion \subseteq nowversion',
         \A m \in Tables : \A e \in content'[m] : e \in content[m] \/ e.seq > LastSequence,
         \A m \in Tables : \A e \in content'[m] : e.seq \in Nat,
         \A e \in Stored \cup Stored' : e.seq \in Nat,
         \A e \in Stored' : e \in Stored \/ e.seq > LastSequence,
         \A e \in Stored : e \in Stored' \/ e.seq > LastSequence
  PROVE  ReaderInv'
<1> USE DEF TypeInv
<1>1. /\ UNCHANGED <<rpc, key, snapshot, mem, imm, current, result>>
      /\ snapshot \in Nat /\ LastSequence \in Nat /\ mem_ \in Nat
  BY LenScript DEF DataOK, Tables
<1>6. \A e \in Stored \cup Stored' : e \in Stored \/ e.seq > LastSequence
  OBVIOUS
<1>2. SnapshotPast'
  BY <1>1 DEF ReaderInv, SnapshotPast
<1>3. MemCopied'
  BY <1>1 DEF ReaderInv, SnapshotPast, MemCopied
<1>4. OlderCopied'
  BY <1>1 DEF ReaderInv, OlderCopied
<1>5. GetExact'
  <2> SUFFICES ASSUME rpc \in {"relock", "finish"} PROVE GetExact'
    BY <1>1 DEF GetExact
  <2>1. Visible(Stored)' = Visible(Stored)
    <3>1. \A e \in Stored \cup Stored' : e.seq <= snapshot => (e \in Stored <=> e \in Stored')
      BY <1>1, <1>6 DEF ReaderInv, SnapshotPast
    <3> QED BY <1>1, <3>1 DEF Visible
  <2> QED BY <1>1, <2>1 DEF ReaderInv, GetExact, Newest
<1> QED BY <1>2, <1>3, <1>4, <1>5 DEF ReaderInv

LEMMA WriterReader ==
  ASSUME TypeInv, TypeInv', ContentInv, ReaderInv, Writer \/ WCall PROVE ReaderInv'
<1> USE DEF TypeInv
<1>1. UNCHANGED <<rVars, nowversion>>
  BY WriterFrame
<1>2. /\ LastSequence \in Nat /\ LastSequence' \in Nat /\ mem_ \in Nat /\ mem_' \in Nat
      /\ content \in [Tables -> SUBSET Entry] /\ content' \in [Tables -> SUBSET Entry]
      /\ acked \subseteq Entry /\ acked' \subseteq Entry /\ mem_ \in Tables /\ entry \in Entry
  <2>1. Tables \subseteq Nat
    BY LenScript DEF Tables
  <2> QED BY <2>1 DEF DataOK
<1>3. /\ \A m \in Tables : \A e \in content'[m] : e.seq \in Nat
      /\ \A e \in Stored \cup Stored' : e.seq \in Nat
  BY <1>2 DEF Entry, Stored
<1>4. CASE WInsert
  <2>1. /\ content' = [content EXCEPT ![mem_] = @ \cup {entry}]
        /\ UNCHANGED <<LastSequence, mem_, acked, unsynced>>
    BY <1>4 DEF WInsert
  <2>2. entry.seq > LastSequence
    BY <1>2, <1>4 DEF WInsert, ContentInv, EntryNext
  <2>3. \A m \in Tables : \A e \in content'[m] : e \in content[m] \/ e.seq > LastSequence
    BY <1>2, <2>1, <2>2
  <2>4. Stored' = Stored
    BY <2>1 DEF Stored
  <2> QED BY <1>1, <1>2, <1>3, <2>1, <2>3, <2>4, ReaderKept
<1>5. CASE WFinish
  <2>1. /\ LastSequence' = entry.seq /\ acked' = acked \cup {entry}
        /\ UNCHANGED <<mem_, content, unsynced>>
    BY <1>5 DEF WFinish
  <2>2. entry.seq = LastSequence + 1
    BY <1>5 DEF WFinish, ContentInv, EntryNext
  <2>3. Stored \subseteq Stored' /\ Stored' \subseteq Stored \cup {entry}
    BY <2>1 DEF Stored
  <2>4. entry.seq > LastSequence /\ LastSequence' >= LastSequence
    BY <1>2, <2>1, <2>2
  <2> QED BY <1>1, <1>2, <1>3, <2>1, <2>3, <2>4, ReaderKept
<1>7. CASE WSyncFails
  <2>1. unsynced' = unsynced \cup {entry} /\ UNCHANGED <<LastSequence, mem_, content, acked>>
    BY <1>7 DEF WSyncFails
  <2>2. entry.seq = LastSequence + 1
    BY <1>7 DEF WSyncFails, ContentInv, EntryNext
  <2>3. Stored' \subseteq Stored /\ Stored \subseteq Stored' \cup {entry}
    BY <2>1 DEF Stored
  <2>4. entry.seq > LastSequence
    BY <1>2, <2>2
  <2> QED BY <1>1, <1>2, <1>3, <2>1, <2>3, <2>4, ReaderKept
<1>6. CASE ~WInsert /\ ~WFinish /\ ~WSyncFails
  <2>1. UNCHANGED <<LastSequence, content, acked, unsynced>> /\ mem_ <= mem_'
    BY <1>2, <1>6 DEF Writer, WCall, WLock, WSlowdown, WLeaveRoom, WSeesImm, WWaitFlush,
         WWake, WRotate,
           WRotateFails, WUnlock, WAppend, WSync, WRelock
  <2>2. Stored' = Stored
    BY <2>1 DEF Stored
  <2> QED BY <1>1, <1>2, <1>3, <2>1, <2>2, ReaderKept
<1> QED BY <1>4, <1>5, <1>6, <1>7

LEMMA ReaderReader ==
  ASSUME TypeInv, StartInv, ContentInv, FlushInv, ReaderInv, Reader \/ RCall PROVE ReaderInv'
<1> USE DEF TypeInv
<1>1. UNCHANGED <<mem_, content, LastSequence, nowversion, acked, unsynced>>
  BY ReaderFrame
<1>2. /\ mem_ \in Tables /\ mem_ \in Nat /\ mem_ >= 1 /\ LastSequence \in Nat
  BY LenScript DEF DataOK, Tables
<1>3. CASE RSnapshot
  BY <1>1, <1>2, <1>3 DEF RSnapshot, ReaderInv, SnapshotPast, MemCopied, OlderCopied, GetExact
<1>4. CASE RCopyMem
  <2>1. rpc = "mem" /\ rpc' = "imm" /\ mem' = mem_ /\ snapshot' = snapshot
    BY <1>4 DEF RCopyMem
  <2>2. \A m \in Tables : m > mem_ => content[m] = {}
    BY DEF RotationInv
  <2> QED BY <1>1, <1>2, <2>1, <2>2 DEF ReaderInv, SnapshotPast, MemCopied, OlderCopied,
       GetExact
<1>5. CASE RCopyImm
  <2>1. rpc = "imm" /\ rpc' = "current" /\ imm' = imm_ /\ UNCHANGED <<snapshot, mem>>
    BY <1>5 DEF RCopyImm
  <2>2. \A m \in 1 .. mem - 1 : m \in 1 .. mem_ - 1
    BY <1>2, <2>1 DEF ReaderInv, MemCopied
  <2>3. OlderCopied'
    BY <1>1, <2>1, <2>2 DEF OlderCopied, FlushInv, OlderKept
  <2> QED BY <1>1, <1>2, <2>1, <2>3 DEF ReaderInv, SnapshotPast, MemCopied, GetExact
<1>6. CASE RCopyCurrent
  <2>1. rpc = "current" /\ rpc' = "search" /\ current' = nowversion
        /\ UNCHANGED <<snapshot, mem, imm>>
    BY <1>6 DEF RCopyCurrent
  <2> QED BY <1>1, <1>2, <2>1 DEF ReaderInv, SnapshotPast, MemCopied, OlderCopied, GetExact
<1>7. CASE RSearch
  <2>1. /\ rpc = "search" /\ rpc' = "relock" /\ UNCHANGED <<key, snapshot>>
        /\ result' = SearchOrder(MemtableEntries(mem), MemtableEntries(imm))
    BY <1>7 DEF RSearch
  <2>2. result'.kind # "error" =>
          result'.seq = IF Visible(Stored) = {} THEN 0 ELSE Newest(Visible(Stored)).seq
    BY <2>1, SearchExact
  <2>3. Visible(Stored)' = Visible(Stored)
    BY <1>1, <2>1 DEF Visible, Stored
  <2>4. GetExact'
    BY <2>2, <2>3 DEF GetExact, Newest
  <2> QED BY <1>1, <2>1, <2>4 DEF ReaderInv, SnapshotPast, MemCopied, OlderCopied
<1>8. CASE RRelock
  <2>1. rpc = "relock" /\ rpc' = "finish" /\ UNCHANGED <<key, snapshot, result>>
    BY <1>8 DEF RRelock
  <2>2. Visible(Stored)' = Visible(Stored)
    BY <1>1, <2>1 DEF Visible, Stored
  <2>3. GetExact'
    BY <2>1, <2>2 DEF ReaderInv, GetExact, Newest
  <2> QED BY <1>1, <2>1, <2>3 DEF ReaderInv, SnapshotPast, MemCopied, OlderCopied
<1>9. CASE RCall \/ RLock \/ RFinish
  <2>1. rpc' \in {"lock", "snapshot", "idle"}
    BY <1>9 DEF RCall, RLock, RFinish
  <2> QED BY <2>1 DEF ReaderInv, SnapshotPast, MemCopied, OlderCopied, GetExact
<1> QED BY <1>3, <1>4, <1>5, <1>6, <1>7, <1>8, <1>9 DEF Reader

LEMMA ReaderStep ==
  TypeInv /\ TypeInv' /\ StartInv /\ ContentInv /\ FlushInv /\ ReaderInv /\ [Next]_vars
    => ReaderInv'
<1> SUFFICES ASSUME TypeInv, TypeInv', StartInv, ContentInv, FlushInv, ReaderInv, [Next]_vars
             PROVE  ReaderInv'
  OBVIOUS
<1>0. /\ LastSequence \in Nat /\ mem_ \in Nat
      /\ \A m \in Tables : \A e \in content[m] : e.seq \in Nat
      /\ \A e \in Stored : e.seq \in Nat
  <2>1. Tables \subseteq Nat
    BY LenScript DEF Tables
  <2>2. content \in [Tables -> SUBSET Entry] /\ acked \subseteq Entry
    BY DEF TypeInv, DataOK
  <2>3. LastSequence \in Nat /\ mem_ \in Nat
    BY <2>1 DEF TypeInv, DataOK
  <2> QED BY <2>2, <2>3 DEF Entry, Stored
<1>1. CASE Writer \/ WCall
  BY <1>1, WriterReader
<1>2. CASE Reader \/ RCall
  BY <1>2, ReaderReader
<1>3. CASE Background
  <2>1. nowversion \subseteq nowversion'
    BY <1>3 DEF Background, BLock, BLockBuilt, BLockLogged, BLockDeleted, BLockAt, BSkip,
         BStart,
       BBuild, BBuildFailed, BApply, BLogEdit, BInstall, BLogFailed, BReset, BList,
       BDelete, BFinish, BAgain, BNotify, BUnlock
  <2>2. UNCHANGED <<rVars, LastSequence, mem_, content, acked, unsynced>>
    BY <1>3, BackgroundFrame
  <2>3. Stored' = Stored
    BY <2>2 DEF Stored
  <2> QED BY <1>0, <2>1, <2>2, <2>3, ReaderKept
<1>4. CASE Death
  BY <1>4 DEF Death, RTornCopy, WThrows, BUseAfterFree, Dies, ReaderInv, SnapshotPast,
       MemCopied, OlderCopied, GetExact
<1>5. CASE DLock \/ Destructor \/ UNCHANGED vars
  <2>1. UNCHANGED <<rVars, LastSequence, mem_, content, acked, unsynced, nowversion>>
    BY <1>5, DestructorFrame DEF vars
  <2>2. Stored' = Stored
    BY <2>1 DEF Stored
  <2> QED BY <1>0, <2>1, <2>2, ReaderKept
<1> QED BY <1>1, <1>2, <1>3, <1>4, <1>5 DEF Next, Client

GetInv == TypeInv /\ StartInv /\ ContentInv /\ FlushInv /\ ReaderInv

LEMMA GetInitially == Init => GetInv
<1> SUFFICES ASSUME Init PROVE GetInv
  OBVIOUS
<1>1. TypeInv
  BY TypeInitially
<1>2. StartInv
  BY DEF Init, StartInv
<1>3. ContentInv
  BY DEF Init, ContentInv, HeldAcked, AckedHeld, EntryNext, UnsyncedOld, MemOrder
<1>4. FlushInv
  BY DEF Init, FlushInv, OlderKept, FlushedFirst, FlushPlace, TableBuilt, BeforeInstall,
       Flushing,
     NoTable
<1>5. ReaderInv
  BY DEF Init, ReaderInv, SnapshotPast, MemCopied, OlderCopied, GetExact
<1> QED BY <1>1, <1>2, <1>3, <1>4, <1>5 DEF GetInv

\* DBImpl::Get returns the newest acknowledged value of its snapshot, or that there is
\* none, or an error, wherever rotations and flushes fall between its copies of mem_,
\* imm_ and the current version, and whoever frees the mutex under it.  The writes
\* acknowledged although their Sync failed, which are not inserted, are excepted.
THEOREM GetExactHolds == Spec => []GetExact
<1>1. GetInv /\ [Next]_vars => GetInv'
  BY TypeStep, StartStep, ContentStep, FlushStep, ReaderStep DEF GetInv
<1>2. GetInv => GetExact
  BY DEF GetInv, ReaderInv
<1> QED BY <1>1, <1>2, GetInitially, PTL DEF Spec

-----------------------------------------------------------------------------
(***************************************************************************)
(* Durability.  It needs the file numbers of the session to be read back   *)
(* from the names as they were written, which ParsedNumber does not do for *)
(* all of them: DeleteObsoleteFiles may otherwise delete what is in use.   *)
(***************************************************************************)
NumbersReadBack == \A n \in 0 .. FirstLog + Len(Script) + 1 : ParsedNumber(n) = n

\* It is a condition on how far the database has counted: up to 7, one octal digit.
LEMMA WhenNumbersReadBack == NumbersReadBack <=> FirstLog + Len(Script) + 1 < 8
<1>1. FirstLog \in Nat /\ Len(Script) \in Nat
  BY BoundsAssumption, ScriptAssumption
<1>2. ASSUME FirstLog + Len(Script) + 1 < 8
      PROVE  NumbersReadBack
  BY <1>1, <1>2, ReadBack DEF NumbersReadBack
<1>3. ASSUME NumbersReadBack, FirstLog + Len(Script) + 1 >= 8
      PROVE  FALSE
  <2>1. 8 \in 0 .. FirstLog + Len(Script) + 1
    BY <1>1, <1>3
  <2>2. ParsedNumber(8) # 8
    BY ReadBack
  <2> QED BY <1>3, <2>1, <2>2 DEF NumbersReadBack
<1> QED BY <1>1, <1>2, <1>3

\* A call of Write spends one number at most: after a rotation there is room.
Spare == FirstLog + (IF bpc \in {"none", "lock", "start"} THEN 0 ELSE 1)
NumberBound ==
  /\ next_file_number <= Spare + writes + 1
  /\ wpc \in {"lock", "room", "slow", "towait", "wait", "wake"} /\ content[mem_] # {} =>
       next_file_number <= Spare + writes
NumbersBelow ==
  \A n \in DOMAIN logs \cup DOMAIN tables \cup obsolete \cup {meta} : n < next_file_number
KindsApart ==
  /\ DOMAIN logs \cap DOMAIN tables = {}
  /\ bpc = "build" => meta \notin DOMAIN logs
NumberInv == NumberBound /\ NumbersBelow /\ KindsApart

LogHeld ==
  /\ logfilenum \in DOMAIN logs /\ manifest.log <= logfilenum
  /\ content[mem_] \subseteq logs[logfilenum] \cup buf_ \cup unlogged
  /\ wpc \in {"sync", "insert"} => entry \in logs[logfilenum] \cup buf_ \cup unlogged
EditHeld ==
  /\ bpc \in {"log", "logged", "install", "reset"} => edit = logfilenum
  /\ bpc \in {"logged", "install"} /\ ok => manifest.tables = {meta} /\ manifest.log = edit
TableDurable == \E t \in manifest.tables \cap DOMAIN tables : content[1] \subseteq tables[t]
ImmLogged ==
  \E n \in DOMAIN logs : n >= manifest.log /\ content[imm_] \subseteq logs[n] \cup unlogged
ImmHeld == imm_ # NoTable => ImmLogged \/ (imm_ = 1 /\ TableDurable)
VersionHeld ==
  /\ live = nowversion
  /\ nowversion # {} => manifest.tables = nowversion /\ nowversion \subseteq DOMAIN tables
DeleteHeld ==
  /\ bpc \in {"reset", "list", "delete"} => manifest.log = log_number /\ nowversion # {}
  /\ bpc = "delete" =>
       \A n \in obsolete : n \notin nowversion /\ (n \in DOMAIN logs => n < log_number)
DurableInv == LogHeld /\ EditHeld /\ ImmHeld /\ VersionHeld /\ DeleteHeld

LEMMA NumberStep ==
  TypeInv /\ StartInv /\ NumberInv /\ [Next]_vars => NumberInv'
<1> SUFFICES ASSUME TypeInv, StartInv, NumberInv, [Next]_vars PROVE NumberInv'
  OBVIOUS
<1> USE DEF TypeInv
<1>0. /\ mem_ \in Nat /\ FirstLog \in Nat /\ next_file_number \in Nat /\ meta \in Nat
      /\ writes \in Nat
      /\ DOMAIN logs \subseteq Nat /\ DOMAIN tables \subseteq Nat /\ obsolete \subseteq Nat
  <2>1. Tables \subseteq Nat
    BY LenScript DEF Tables
  <2> QED BY <2>1, BoundsAssumption DEF DataOK
<1>7. Spare \in Nat
  BY <1>0 DEF Spare
<1>1. CASE Writer \/ WCall
  <2>0. /\ wpc # "dead" /\ UNCHANGED <<tables, obsolete, meta>>
        /\ bpc' = bpc \/ bpc' = IF started_background_thread THEN bpc ELSE "lock"
    <3>1. wpc # "dead"
      BY <1>1, WriterAlive
    <3> QED BY <1>1, <3>1, WriterFrame, ScheduleFrame
  <2>1. bpc' = bpc \/ (bpc = "none" /\ bpc' = "lock")
    BY <2>0 DEF StartInv
  <2>4. Spare' = Spare
    BY <2>1 DEF Spare
  <2>2. CASE WRotate
    <3>1. /\ DOMAIN logs' = DOMAIN logs \cup {next_file_number} /\ mem_' = mem_ + 1
          /\ next_file_number' = next_file_number + 1 /\ writes' = writes /\ wpc = "room"
          /\ content' = content
      BY <2>2 DEF WRotate, MustRotate, Put
    <3>6. content[mem_] # {}
      BY <2>2, FullNotEmpty DEF WRotate, MustRotate
    <3>7. content'[mem_'] = {}
      <4>1. mem_' \in Tables
        BY <2>2, RotateType DEF DataOK
      <4> QED BY <1>0, <3>1, <4>1 DEF RotationInv
    <3>2. NumberBound'
      BY <1>0, <1>7, <2>4, <3>1, <3>6, <3>7 DEF NumberInv, NumberBound
    <3>3. NumbersBelow'
      <4> SUFFICES ASSUME NEW n \in DOMAIN logs' \cup DOMAIN tables' \cup obsolete' \cup {meta'}
                   PROVE  n < next_file_number'
        BY DEF NumbersBelow
      <4>1. \/ n = next_file_number
            \/ n \in DOMAIN logs \cup DOMAIN tables \cup obsolete \cup {meta}
        BY <2>0, <3>1
      <4>2. n = next_file_number \/ (n < next_file_number /\ n \in Nat)
        BY <1>0, <4>1 DEF NumberInv, NumbersBelow
      <4> QED BY <1>0, <3>1, <4>2
    <3>4. next_file_number \notin DOMAIN tables /\ next_file_number # meta
      BY <1>0 DEF NumberInv, NumbersBelow
    <3>5. KindsApart'
      BY <2>0, <2>1, <3>1, <3>4 DEF NumberInv, KindsApart
    <3> QED BY <3>2, <3>3, <3>5 DEF NumberInv
  <2>3. CASE WRotateFails
    <3>1. /\ UNCHANGED <<mem_, logs, content,
                         writes>> /\ next_file_number' = next_file_number + 1
          /\ wpc = "room" /\ wpc' = "unlock"
      BY <2>3 DEF WRotateFails, MustRotate
    <3>2. content[mem_] # {}
      BY <2>3, FullNotEmpty DEF WRotateFails, MustRotate
    <3>3. NumberBound'
      BY <1>0, <1>7, <2>4, <3>1, <3>2 DEF NumberInv, NumberBound
    <3>4. NumbersBelow'
      <4>1. \A n \in DOMAIN logs \cup DOMAIN tables \cup obsolete \cup {meta} :
              n \in Nat /\ n < next_file_number
        BY <1>0 DEF NumberInv, NumbersBelow
      <4>2. \A n \in DOMAIN logs \cup DOMAIN tables \cup obsolete \cup {meta} :
              n < next_file_number'
        BY <1>0, <3>1, <4>1
      <4> QED BY <2>0, <3>1, <4>2 DEF NumbersBelow
    <3>5. KindsApart'
      BY <2>0, <2>1, <3>1 DEF NumberInv, KindsApart
    <3> QED BY <3>3, <3>4, <3>5 DEF NumberInv
  <2>5. CASE WCall
    <3>1. UNCHANGED <<mem_, logs, content, next_file_number>> /\ writes' = writes + 1
      BY <2>5 DEF WCall
    <3>2. NumberBound'
      BY <1>0, <1>7, <2>4, <3>1 DEF NumberInv, NumberBound
    <3> QED BY <2>0, <2>1, <3>1, <3>2 DEF NumberInv, NumbersBelow, KindsApart
  <2>6. CASE Writer /\ ~WRotate /\ ~WRotateFails
    <3>1. UNCHANGED <<mem_, next_file_number, writes>>
      BY <2>6 DEF Writer, WLock, WSlowdown, WLeaveRoom, WSeesImm, WWaitFlush, WWake,
             WUnlock, WAppend, WSync, WSyncFails, WInsert, WRelock, WFinish
    <3>2. DOMAIN logs' = DOMAIN logs
      <4>1. CASE LogStep
        BY <4>1, LogDomain DEF DataOK
      <4>2. CASE ~LogStep
        BY <2>6, <4>2 DEF LogStep, Writer, WLock, WSlowdown, WLeaveRoom, WSeesImm, WWaitFlush,
               WWake, WUnlock, WInsert, WRelock, WFinish
      <4> QED BY <4>1, <4>2
    <3>3. wpc' \in {"lock", "room", "slow", "towait", "wait", "wake"} =>
            wpc \in {"lock", "room", "slow", "towait", "wait", "wake"} /\ content' = content
      BY <2>6 DEF Writer, MustRotate, WLock, WSlowdown, WLeaveRoom, WSeesImm, WWaitFlush, WWake,
             WUnlock, WAppend, WSync, WSyncFails, WInsert, WRelock, WFinish
    <3>4. NumberBound'
      BY <2>4, <3>1, <3>3 DEF NumberInv, NumberBound
    <3> QED BY <2>0, <2>1, <3>1, <3>2, <3>4 DEF NumberInv, NumbersBelow, KindsApart
  <2> QED BY <1>1, <2>2, <2>3, <2>5, <2>6
<1>2. CASE Reader \/ RCall
  <2>0. rpc # "dead"
    BY <1>2 DEF Reader, RCall, RLock, RSnapshot, RCopyMem, RCopyImm, RCopyCurrent, RSearch,
           RRelock, RFinish
  <2>1. bpc' = bpc \/ (bpc = "none" /\ bpc' = "lock")
    BY <1>2, <2>0, ScheduleFrame DEF StartInv
  <2>2. UNCHANGED <<mem_, content, wpc, writes, logs, tables, next_file_number, meta, obsolete>>
    BY <1>2, ReaderFrame
  <2> QED BY <1>0, <2>1, <2>2 DEF NumberInv, NumberBound, Spare, NumbersBelow, KindsApart
<1>3. CASE Background
  <2>0. /\ UNCHANGED <<mem_, content, writes>>
        /\ wpc' \in {"lock", "room", "slow", "towait", "wait", "wake"} =>
             wpc \in {"lock", "room", "slow", "towait", "wait", "wake"}
    BY <1>3, BackgroundFrame, WriterWoken
  <2>1. CASE BLock \/ BLockBuilt \/ BLockLogged \/ BLockDeleted
    BY <1>0, <2>0, <2>1 DEF BLock, BLockBuilt, BLockLogged, BLockDeleted, BLockAt, NumberInv,
       NumberBound, Spare, Spare, NumbersBelow, KindsApart
  <2>2. CASE BStart
    <3>1. /\ UNCHANGED <<logs, tables, obsolete>> /\ meta' = next_file_number
          /\ next_file_number' = next_file_number + 1 /\ bpc = "start" /\ bpc' = "build"
      BY <2>2 DEF BStart
    <3>2. NumberBound'
      BY <1>0, <2>0, <3>1 DEF NumberInv, NumberBound, Spare
    <3>3. NumbersBelow'
      <4> SUFFICES ASSUME NEW n \in DOMAIN logs' \cup DOMAIN tables' \cup obsolete' \cup {meta'}
                   PROVE  n < next_file_number'
        BY DEF NumbersBelow
      <4>1. n = next_file_number \/ n \in DOMAIN logs \cup DOMAIN tables \cup obsolete
        BY <3>1
      <4>2. n = next_file_number \/ (n < next_file_number /\ n \in Nat)
        BY <1>0, <4>1 DEF NumberInv, NumbersBelow
      <4> QED BY <1>0, <3>1, <4>2
    <3>4. next_file_number \notin DOMAIN logs
      BY <1>0 DEF NumberInv, NumbersBelow
    <3>5. KindsApart'
      BY <3>1, <3>4 DEF NumberInv, KindsApart
    <3> QED BY <3>2, <3>3, <3>5 DEF NumberInv
  <2>3. CASE BBuild
    <3>1. DOMAIN tables' \subseteq DOMAIN tables \cup {meta}
      BY <2>3 DEF BBuild, Put
    <3>2. /\ UNCHANGED <<logs, next_file_number, meta, obsolete>>
          /\ bpc = "build" /\ bpc' = "built"
      BY <2>3 DEF BBuild
    <3> QED BY <2>0, <3>1, <3>2 DEF NumberInv, NumberBound, Spare, NumbersBelow, KindsApart
  <2>4. CASE BList
    <3>1. /\ UNCHANGED <<logs, tables, next_file_number, meta>>
          /\ bpc = "list" /\ bpc' = "delete" /\ obsolete' = Obsolete
      BY <2>4 DEF BList
    <3> QED BY <2>0, <3>1 DEF NumberInv, NumberBound, Spare, NumbersBelow, KindsApart, Obsolete
  <2>5. CASE BDelete
    <3>1. /\ UNCHANGED <<next_file_number, meta, obsolete>>
          /\ bpc = "delete" /\ bpc' = "deleted"
      BY <2>5 DEF BDelete
    <3>2. DOMAIN logs' \subseteq DOMAIN logs /\ DOMAIN tables' \subseteq DOMAIN tables
      BY <2>5 DEF BDelete, Without
    <3> QED BY <2>0, <3>1, <3>2 DEF NumberInv, NumberBound, Spare, NumbersBelow, KindsApart
  <2>6. CASE BUnlock
    <3>1. /\ UNCHANGED <<logs, tables, next_file_number>>
          /\ bpc = "unlock" /\ bpc' = "done" /\ meta' = 0 /\ obsolete' = {}
      BY <2>6 DEF BUnlock
    <3> QED BY <1>0, <2>0, <3>1 DEF NumberInv, NumberBound, Spare, NumbersBelow, KindsApart
  <2>7. CASE \/ BSkip \/ BBuildFailed \/ BApply \/ BLogEdit \/ BInstall \/ BLogFailed \/ BReset
             \/ BFinish \/ BAgain \/ BNotify
    <3>1. /\ UNCHANGED <<logs, tables, next_file_number, meta, obsolete>>
          /\ bpc' # "build" /\ bpc' \notin {"none", "lock", "start"}
      BY <2>7 DEF BSkip, BBuildFailed, BApply, BLogEdit, BInstall, BLogFailed, BFail, BReset,
           BFinish,
             BAgain, BNotify
    <3> QED BY <1>0, <2>0, <3>1 DEF NumberInv, NumberBound, Spare, NumbersBelow, KindsApart
  <2> QED BY <1>3, <2>1, <2>2, <2>3, <2>4, <2>5, <2>6, <2>7 DEF Background
<1>4. CASE Death
  BY <1>0, <1>4 DEF Death, RTornCopy, WThrows, BUseAfterFree, Dies, NumberInv, NumberBound,
       Spare, NumbersBelow, KindsApart
<1>5. CASE DLock \/ Destructor
  BY <1>5, DestructorFrame DEF NumberInv, NumberBound, Spare, NumbersBelow, KindsApart
<1>6. CASE UNCHANGED vars
  BY <1>6 DEF vars, NumberInv, NumberBound, Spare, NumbersBelow, KindsApart
<1> QED BY <1>1, <1>2, <1>3, <1>4, <1>5, <1>6 DEF Next, Client

\* A step that at most schedules work, wakes the writer or kills the process.
LEMMA DurableKept ==
  ASSUME DurableInv,
         UNCHANGED <<memVars, logfilenum, log_number, nowversion, live, diskVars, logVars,
                     entry,
                     meta, edit, ok, obsolete>>,
         wpc' \in {"sync", "insert"} => wpc \in {"sync", "insert"},
         bpc' = bpc \/ bpc' \notin {"log", "logged", "install", "reset", "list", "delete"}
  PROVE  DurableInv'
<1>1. LogHeld' /\ EditHeld'
  BY DEF DurableInv, LogHeld, EditHeld
<1>2. ImmHeld'
  BY DEF DurableInv, ImmHeld, ImmLogged, TableDurable
<1>3. VersionHeld' /\ DeleteHeld'
  BY DEF DurableInv, VersionHeld, DeleteHeld
<1> QED BY <1>1, <1>2, <1>3 DEF DurableInv

LEMMA WriterDurable ==
  ASSUME TypeInv, StartInv, FlushInv, NumberInv, DurableInv, Writer \/ WCall PROVE DurableInv'
<1> USE DEF TypeInv
<1>0. /\ UNCHANGED <<tables, manifest, nowversion, live, log_number, meta, edit, ok, obsolete>>
      /\ bpc' = bpc \/ (bpc = "none" /\ bpc' = "lock")
  <2>1. wpc # "dead"
    BY WriterAlive
  <2> QED BY <2>1, WriterFrame, ScheduleFrame DEF StartInv
<1>1. /\ mem_ \in Tables /\ mem_ \in Nat /\ mem_ >= 1 /\ imm_ \in Tables \cup {NoTable}
      /\ content \in [Tables -> SUBSET Entry] /\ DOMAIN logs \subseteq Nat
      /\ next_file_number \in Nat /\ logfilenum \in Nat /\ manifest.log \in Nat
  <2>1. Tables \subseteq Nat /\ \A m \in Tables : m >= 1
    BY LenScript DEF Tables
  <2> QED BY <2>1 DEF DataOK
<1>2. CASE WRotate
  <2>1. /\ wpc = "room" /\ wpc' = wpc /\ imm_ = NoTable /\ imm_' = mem_ /\ mem_' = mem_ + 1
        /\ content' = content /\ logfilenum' = next_file_number
        /\ logs' = Put(logs, next_file_number, {})
        /\ unlogged' = unlogged \cup buf_
    BY <1>2 DEF WRotate, MustRotate
  <2>2. next_file_number \notin DOMAIN logs /\ logfilenum < next_file_number
    BY <1>1 DEF NumberInv, NumbersBelow, DurableInv, LogHeld
  <2>3. /\ DOMAIN logs' = DOMAIN logs \cup {next_file_number} /\ logs'[next_file_number] = {}
        /\ \A n \in DOMAIN logs : logs'[n] = logs[n]
    BY <2>1, <2>2 DEF Put
  <2>4. content[mem_ + 1] = {}
    <3>1. mem_ + 1 \in Tables
      <4>1. DataOK'
        BY <1>2, RotateType
      <4> QED BY <2>1, <4>1 DEF DataOK
    <3> QED BY <1>1, <3>1 DEF RotationInv
  <2>5. LogHeld'
    BY <1>0, <1>1, <2>1, <2>2, <2>3, <2>4 DEF DurableInv, LogHeld
  <2>6. bpc \notin Flushing
    BY <2>1 DEF FlushInv, FlushPlace, NoTable
  <2>7. EditHeld' /\ VersionHeld' /\ DeleteHeld'
    <3>1. EditHeld' /\ VersionHeld'
      BY <1>0, <2>6 DEF Flushing, DurableInv, EditHeld, VersionHeld
    <3>2. DeleteHeld'
      <4>1. \A n \in obsolete : n # next_file_number
        BY <1>1 DEF NumberInv, NumbersBelow
      <4> QED BY <1>0, <2>3, <4>1 DEF DurableInv, DeleteHeld
    <3> QED BY <3>1, <3>2
  <2>8. ImmHeld'
    <3>1. /\ logfilenum \in DOMAIN logs'
          /\ content'[imm_'] \subseteq logs'[logfilenum] \cup unlogged'
      BY <2>1, <2>3 DEF DurableInv, LogHeld
    <3>2. logfilenum >= manifest'.log
      BY <1>0, <1>1 DEF DurableInv, LogHeld
    <3> QED BY <3>1, <3>2 DEF ImmHeld, ImmLogged
  <2> QED BY <2>5, <2>7, <2>8 DEF DurableInv
<1>3. CASE LogStep
  <2>1. /\ UNCHANGED <<memVars, logfilenum, entry, bpc>>
        /\ wpc \in {"append", "sync"} /\ (wpc' = "sync" => wpc = "append")
    BY <1>3 DEF LogStep, WAppend, WSync, WSyncFails
  <2>2. PICK S \in {buf_, buf_ \cup {entry}} :
          /\ Flush(S) \/ (S = buf_ /\ UNCHANGED <<logs, logVars>>)
          /\ wpc = "append" => entry \in S
    BY <1>3, LogSteps
  <2>3. logfilenum \in DOMAIN logs /\ buf_ \subseteq S
    BY <2>2 DEF DurableInv, LogHeld
  <2>4. /\ DOMAIN logs' = DOMAIN logs
        /\ \A n \in DOMAIN logs : logs[n] \subseteq logs'[n]
        /\ unlogged \subseteq unlogged'
        /\ S \subseteq logs'[logfilenum] \cup buf_' \cup unlogged'
    BY <1>1, <2>2, <2>3, FlushKeeps
  <2>5. logs[logfilenum] \cup buf_ \cup unlogged
          \subseteq logs'[logfilenum] \cup buf_' \cup unlogged'
    BY <2>3, <2>4
  <2>6. entry \in logs'[logfilenum] \cup buf_' \cup unlogged'
    <3>1. CASE wpc = "append"
      BY <2>2, <2>4, <3>1
    <3>2. CASE wpc = "sync"
      BY <2>5, <3>2 DEF DurableInv, LogHeld
    <3> QED BY <2>1, <3>1, <3>2
  <2>7. LogHeld'
    BY <1>0, <2>1, <2>3, <2>4, <2>5, <2>6 DEF DurableInv, LogHeld
  <2>8. EditHeld' /\ VersionHeld' /\ DeleteHeld'
    BY <1>0, <2>1, <2>4 DEF DurableInv, EditHeld, VersionHeld, DeleteHeld
  <2>9. ImmLogged => ImmLogged'
    <3> SUFFICES ASSUME ImmLogged PROVE ImmLogged'
      OBVIOUS
    <3>1. PICK n \in DOMAIN logs :
            n >= manifest.log /\ content[imm_] \subseteq logs[n] \cup unlogged
      BY DEF ImmLogged
    <3>2. n \in DOMAIN logs' /\ logs[n] \cup unlogged \subseteq logs'[n] \cup unlogged'
      BY <2>4
    <3> QED BY <1>0, <2>1, <3>1, <3>2 DEF ImmLogged
  <2>10. ImmHeld'
    BY <1>0, <2>1, <2>9 DEF DurableInv, ImmHeld, TableDurable
  <2> QED BY <2>7, <2>8, <2>10 DEF DurableInv
<1>4. CASE WInsert
  <2>1. /\ wpc = "insert" /\ wpc' = "relock" /\ UNCHANGED <<mem_, imm_, logfilenum, logs,
                                                            logVars, entry, bpc>>
        /\ content' = [content EXCEPT ![mem_] = @ \cup {entry}]
    BY <1>4 DEF WInsert
  <2>2. /\ content'[mem_] = content[mem_] \cup {entry}
        /\ \A m \in Tables : m # mem_ => content'[m] = content[m]
    BY <1>1, <2>1
  <2>3. LogHeld'
    BY <1>0, <2>1, <2>2 DEF DurableInv, LogHeld
  <2>4. EditHeld' /\ VersionHeld' /\ DeleteHeld'
    BY <1>0, <2>1 DEF DurableInv, EditHeld, VersionHeld, DeleteHeld
  <2>5. ImmHeld'
    <3> SUFFICES ASSUME imm_ # NoTable PROVE ImmHeld'
      BY <2>1 DEF ImmHeld
    <3>1. imm_ # mem_ /\ imm_ \in Tables
      BY <1>1 DEF FlushInv, OlderKept
    <3>2. content'[imm_] = content[imm_]
      BY <2>2, <3>1
    <3>3. CASE ImmLogged
      BY <1>0, <2>1, <3>2, <3>3 DEF ImmHeld, ImmLogged
    <3>4. CASE imm_ = 1 /\ TableDurable
      BY <1>0, <2>1, <3>2, <3>4 DEF ImmHeld, TableDurable
    <3> QED BY <3>3, <3>4 DEF DurableInv, ImmHeld
  <2> QED BY <2>3, <2>4, <2>5 DEF DurableInv
<1>5. CASE WCall \/ WUnlock
  <2>1. /\ wpc' \notin {"sync", "insert"}
        /\ UNCHANGED <<memVars, logfilenum, logs, logVars, bpc>>
    BY <1>5 DEF WCall, WUnlock
  <2>2. LogHeld' /\ EditHeld' /\ VersionHeld' /\ DeleteHeld'
    BY <1>0, <2>1 DEF DurableInv, LogHeld, EditHeld, VersionHeld, DeleteHeld
  <2>3. ImmHeld'
    BY <1>0, <2>1 DEF DurableInv, ImmHeld, ImmLogged, TableDurable
  <2> QED BY <2>2, <2>3 DEF DurableInv
<1>6. CASE \/ WLock \/ WSlowdown \/ WLeaveRoom \/ WSeesImm \/ WWaitFlush \/ WWake
           \/ WRotateFails \/ WRelock \/ WFinish
  <2>1. /\ wpc' \notin {"sync", "insert"}
        /\ UNCHANGED <<memVars, logfilenum, logs, logVars, entry, bpc>>
    BY <1>6 DEF WRotateFails, WLock, WSlowdown, WLeaveRoom, WSeesImm, WWaitFlush, WWake,
         WRelock, WFinish
  <2> QED BY <1>0, <2>1, DurableKept
<1> QED BY <1>2, <1>3, <1>4, <1>5, <1>6 DEF Writer, LogStep

\* Nothing that DeleteObsoleteFiles lists is in use.
LEMMA ListedUnused ==
  ASSUME NumbersReadBack, TypeInv, NumberInv, VersionHeld, NEW n \in Obsolete
  PROVE  n \notin nowversion /\ (n \in DOMAIN logs => n < log_number)
<1>1. /\ writes \in Nat /\ writes <= Len(Script) /\ FirstLog \in Nat /\ Len(Script) \in Nat
      /\ next_file_number \in Nat
  BY LenScript, BoundsAssumption DEF TypeInv, DataOK, RotationInv
<1>2. n \in DOMAIN logs \cup DOMAIN tables /\ n \in Nat
  BY DEF Obsolete, TypeInv, DataOK
<1>3. n < next_file_number
  BY <1>2 DEF NumberInv, NumbersBelow
<1>4. n \in 0 .. FirstLog + Len(Script) + 1
  BY <1>1, <1>2, <1>3 DEF NumberInv, NumberBound, Spare
<1>5. ParsedNumber(n) = n
  BY <1>4 DEF NumbersReadBack
<1>6. CASE n \in DOMAIN logs
  <2>1. n \notin DOMAIN tables
    BY <1>6 DEF NumberInv, KindsApart
  <2> QED BY <1>5, <1>6, <2>1 DEF Obsolete, VersionHeld
<1>7. CASE n \notin DOMAIN logs
  BY <1>5, <1>7 DEF Obsolete, VersionHeld
<1> QED BY <1>6, <1>7

LEMMA BackgroundDurable ==
  ASSUME NumbersReadBack, TypeInv, FlushInv, NumberInv, DurableInv, Background
  PROVE  DurableInv'
<1> USE DEF TypeInv
<1>0. /\ UNCHANGED <<mem_, content, logfilenum, logVars, entry>>
      /\ wpc' \in {"sync", "insert"} => wpc \in {"sync", "insert"}
  BY BackgroundFrame, WriterWoken
<1>1. CASE BLock \/ BLockBuilt \/ BLockDeleted
  BY <1>0, <1>1, DurableKept DEF BLock, BLockBuilt, BLockDeleted, BLockAt
<1>2. CASE BSkip \/ BBuildFailed \/ BLogFailed \/ BFinish \/ BAgain \/ BNotify
  BY <1>0, <1>2, DurableKept DEF BSkip, BBuildFailed, BLogFailed, BFail, BFinish,
     BAgain, BNotify
<1>3. CASE BStart \/ BUnlock
  <2>1. /\ UNCHANGED <<imm_, log_number, nowversion, live, diskVars>>
        /\ bpc' \in {"build", "done"}
    BY <1>3 DEF BStart, BUnlock
  <2>2. LogHeld' /\ EditHeld' /\ VersionHeld' /\ DeleteHeld'
    BY <1>0, <2>1 DEF DurableInv, LogHeld, EditHeld, VersionHeld, DeleteHeld
  <2>3. ImmHeld'
    BY <1>0, <2>1 DEF DurableInv, ImmHeld, ImmLogged, TableDurable
  <2> QED BY <2>2, <2>3 DEF DurableInv
<1>4. CASE BLockLogged
  <2>1. /\ UNCHANGED <<imm_, log_number, nowversion, live, diskVars, meta, edit, ok, obsolete>>
        /\ bpc = "logged" /\ bpc' = "install"
    BY <1>4 DEF BLockLogged, BLockAt
  <2>2. LogHeld' /\ EditHeld' /\ VersionHeld' /\ DeleteHeld'
    BY <1>0, <2>1 DEF DurableInv, LogHeld, EditHeld, VersionHeld, DeleteHeld
  <2>3. ImmHeld'
    BY <1>0, <2>1 DEF DurableInv, ImmHeld, ImmLogged, TableDurable
  <2> QED BY <2>2, <2>3 DEF DurableInv
<1>5. CASE BBuild
  <2>1. /\ UNCHANGED <<imm_, log_number, nowversion, live, logs, manifest, meta, edit,
                       obsolete>>
        /\ bpc = "build" /\ bpc' = "built" /\ nowversion = {} /\ imm_ = 1
        /\ tables' = tables \/ tables' = Put(tables, meta, content[imm_])
    BY <1>5 DEF BBuild, FlushInv, FlushPlace, BeforeInstall, Flushing
  <2>2. LogHeld' /\ EditHeld' /\ VersionHeld' /\ DeleteHeld'
    BY <1>0, <2>1 DEF DurableInv, LogHeld, EditHeld, VersionHeld, DeleteHeld
  <2>3. \A t \in DOMAIN tables : t \in DOMAIN tables' /\ tables'[t] \in {tables[t], content[1]}
    BY <2>1 DEF Put
  <2>4. ImmLogged => ImmLogged'
    BY <1>0, <2>1 DEF ImmLogged
  <2>5. TableDurable => TableDurable'
    <3> SUFFICES ASSUME TableDurable PROVE TableDurable'
      OBVIOUS
    <3>1. PICK t \in manifest.tables \cap DOMAIN tables : content[1] \subseteq tables[t]
      BY DEF TableDurable
    <3>2. t \in manifest.tables \cap DOMAIN tables' /\ content[1] \subseteq tables'[t]
      BY <2>3, <3>1
    <3> QED BY <1>0, <2>1, <3>2 DEF TableDurable
  <2> QED BY <2>1, <2>2, <2>4, <2>5 DEF DurableInv, ImmHeld
<1>6. CASE BApply
  <2>1. /\ UNCHANGED <<imm_, log_number, nowversion, live, diskVars, meta, ok, obsolete>>
        /\ bpc = "apply" /\ bpc' = "log" /\ edit' = logfilenum
    BY <1>6 DEF BApply
  <2>2. LogHeld' /\ EditHeld' /\ VersionHeld' /\ DeleteHeld'
    BY <1>0, <2>1 DEF DurableInv, LogHeld, EditHeld, VersionHeld, DeleteHeld
  <2>3. ImmHeld'
    BY <1>0, <2>1 DEF DurableInv, ImmHeld, ImmLogged, TableDurable
  <2> QED BY <2>2, <2>3 DEF DurableInv
<1>7. CASE BLogEdit
  <2> DEFINE new == [log |-> edit, tables |-> nowversion \cup {meta}]
  <2>1. /\ UNCHANGED <<imm_, log_number, nowversion, live, logs, tables, meta, edit, obsolete>>
        /\ bpc = "log" /\ bpc' = "logged" /\ manifest' \in {manifest, new}
        /\ ok' => manifest' = new
    BY <1>7 DEF BLogEdit
  <2>2. /\ nowversion = {} /\ imm_ = 1 /\ edit = logfilenum
        /\ meta \in DOMAIN tables /\ tables[meta] = content[1]
    BY <2>1 DEF FlushInv, FlushPlace, TableBuilt, BeforeInstall, Flushing, DurableInv, EditHeld
  <2>3. new.log = logfilenum /\ new.tables = {meta}
    BY <2>2
  <2> HIDE DEF new
  <2>4. logfilenum \in Nat /\ manifest.log \in Nat
    BY DEF DataOK
  <2>5. LogHeld'
    BY <1>0, <2>1, <2>3, <2>4 DEF DurableInv, LogHeld
  <2>6. EditHeld' /\ VersionHeld' /\ DeleteHeld'
    BY <1>0, <2>1, <2>2, <2>3 DEF DurableInv, EditHeld, VersionHeld, DeleteHeld
  <2>7. ImmHeld'
    <3>1. CASE manifest' = manifest
      BY <1>0, <2>1, <3>1 DEF DurableInv, ImmHeld, ImmLogged, TableDurable
    <3>2. CASE manifest' = new
      <4>1. meta \in manifest'.tables \cap DOMAIN tables' /\ content'[1] \subseteq tables'[meta]
        BY <1>0, <2>1, <2>2, <2>3, <3>2
      <4> QED BY <2>1, <2>2, <4>1 DEF ImmHeld, TableDurable
    <3> QED BY <2>1, <3>1, <3>2
  <2> QED BY <2>5, <2>6, <2>7 DEF DurableInv
<1>8. CASE BInstall
  <2>1. /\ UNCHANGED <<imm_, diskVars, meta, edit, ok, obsolete>> /\ ok
        /\ bpc = "install" /\ bpc' = "reset" /\ log_number' = edit
        /\ nowversion' = {meta} /\ live' = {meta} /\ edit = logfilenum
        /\ manifest.tables = {meta} /\ manifest.log = edit /\ meta \in DOMAIN tables
    BY <1>8 DEF BInstall, FlushInv, FlushPlace, TableBuilt, BeforeInstall, DurableInv, EditHeld,
       VersionHeld
  <2>2. LogHeld' /\ EditHeld' /\ VersionHeld' /\ DeleteHeld'
    BY <1>0, <2>1 DEF DurableInv, LogHeld, EditHeld, VersionHeld, DeleteHeld
  <2>3. ImmHeld'
    BY <1>0, <2>1 DEF DurableInv, ImmHeld, ImmLogged, TableDurable
  <2> QED BY <2>2, <2>3 DEF DurableInv
<1>9. CASE BReset
  <2>1. /\ UNCHANGED <<log_number, nowversion, live, diskVars, meta, edit, ok, obsolete>>
        /\ bpc = "reset" /\ bpc' = "list" /\ imm_' = NoTable
    BY <1>9 DEF BReset
  <2> QED BY <1>0, <2>1 DEF DurableInv, LogHeld, EditHeld, ImmHeld, VersionHeld, DeleteHeld
<1>10. CASE BList
  <2>1. /\ UNCHANGED <<imm_, log_number, nowversion, live, diskVars, meta, edit, ok>>
        /\ bpc = "list" /\ bpc' = "delete" /\ obsolete' = Obsolete
    BY <1>10 DEF BList
  <2>2. LogHeld' /\ EditHeld' /\ VersionHeld'
    BY <1>0, <2>1 DEF DurableInv, LogHeld, EditHeld, VersionHeld
  <2>3. DeleteHeld'
    <3>1. \A n \in Obsolete : n \notin nowversion /\ (n \in DOMAIN logs => n < log_number)
      BY ListedUnused DEF DurableInv
    <3> QED BY <2>1, <3>1 DEF DurableInv, DeleteHeld
  <2>4. ImmHeld'
    BY <1>0, <2>1 DEF DurableInv, ImmHeld, ImmLogged, TableDurable
  <2> QED BY <2>2, <2>3, <2>4 DEF DurableInv
<1>11. CASE BDelete
  <2>1. /\ UNCHANGED <<imm_, log_number, nowversion, live, manifest, meta, edit, ok, obsolete>>
        /\ bpc = "delete" /\ bpc' = "deleted"
        /\ logs' = Without(logs, obsolete) /\ tables' = Without(tables, obsolete)
    BY <1>11 DEF BDelete
  <2>2. /\ manifest.log = log_number /\ manifest.tables = nowversion
        /\ nowversion \subseteq DOMAIN tables
        /\ \A n \in obsolete : n \notin nowversion /\ (n \in DOMAIN logs => n < log_number)
    BY <2>1 DEF DurableInv, DeleteHeld, VersionHeld
  <2>3. log_number \in Nat /\ DOMAIN logs \subseteq Nat
    BY DEF DataOK
  <2>4. /\ \A n \in DOMAIN logs : n >= manifest.log => n \in DOMAIN logs' /\ logs'[n] = logs[n]
        /\ \A t \in nowversion : t \in DOMAIN tables' /\ tables'[t] = tables[t]
    BY <2>1, <2>2, <2>3 DEF Without
  <2>5. LogHeld'
    <3>1. logfilenum \in DOMAIN logs /\ logfilenum >= manifest.log
      BY <2>2, <2>3 DEF DurableInv, LogHeld
    <3>2. logfilenum \in DOMAIN logs' /\ logs'[logfilenum] = logs[logfilenum]
      BY <2>4, <3>1
    <3> QED BY <1>0, <2>1, <3>2 DEF DurableInv, LogHeld
  <2>6. EditHeld' /\ VersionHeld' /\ DeleteHeld'
    BY <2>1, <2>2, <2>4 DEF DurableInv, EditHeld, VersionHeld, DeleteHeld
  <2>7. ImmLogged => ImmLogged'
    BY <1>0, <2>1, <2>4 DEF ImmLogged
  <2>8. TableDurable => TableDurable'
    BY <1>0, <2>1, <2>2, <2>4 DEF TableDurable
  <2> QED BY <2>1, <2>5, <2>6, <2>7, <2>8 DEF DurableInv, ImmHeld
<1> QED BY <1>1, <1>2, <1>3, <1>4, <1>5, <1>6, <1>7, <1>8, <1>9, <1>10, <1>11 DEF Background

LEMMA DurableStep ==
  ASSUME NumbersReadBack
  PROVE  TypeInv /\ StartInv /\ FlushInv /\ NumberInv /\ DurableInv /\ [Next]_vars => DurableInv'
<1> SUFFICES ASSUME TypeInv, StartInv, FlushInv, NumberInv, DurableInv, [Next]_vars
             PROVE  DurableInv'
  OBVIOUS
<1>1. CASE Writer \/ WCall
  BY <1>1, WriterDurable
<1>2. CASE Background
  BY <1>2, BackgroundDurable
<1>3. CASE Reader \/ RCall
  <2>1. rpc # "dead"
    BY <1>3 DEF Reader, RCall, RLock, RSnapshot, RCopyMem, RCopyImm, RCopyCurrent, RSearch,
           RRelock, RFinish
  <2>2. bpc' = bpc \/ bpc' = "lock"
    BY <1>3, ScheduleFrame
  <2> QED BY <1>3, <2>2, ReaderFrame, DurableKept
<1>4. CASE Death
  BY <1>4, DurableKept DEF Death, RTornCopy, WThrows, BUseAfterFree, Dies
<1>5. CASE DLock \/ Destructor
  BY <1>5, DestructorFrame, DurableKept
<1>6. CASE UNCHANGED vars
  BY <1>6, DurableKept DEF vars
<1> QED BY <1>1, <1>2, <1>3, <1>4, <1>5, <1>6 DEF Next, Client

\* Every acknowledged entry is in the log of mem_, in a log or a table for imm_, or in
\* the table of the current version.
LEMMA HeldDurable ==
  ASSUME TypeInv, ContentInv, FlushInv, DurableInv PROVE AckedDurable
<1> SUFFICES ASSUME NEW e \in acked, e \notin unsynced
             PROVE  \/ e \in Durable
                    \/ e \in buf_ \cup unlogged /\ e \in content[mem_] \cup MemtableEntries(imm_)
  BY DEF AckedDurable
<1>1. PICK m \in Tables : e \in content[m]
  BY DEF ContentInv, AckedHeld
<1>2. m \in Nat /\ m >= 1 /\ mem_ \in Nat /\ m <= mem_
  <2>1. \A n \in Tables : n \in Nat /\ n >= 1
    BY LenScript DEF Tables
  <2> QED BY <1>1, <2>1 DEF TypeInv, DataOK, RotationInv
<1>3. logfilenum \in Nat /\ manifest.log \in Nat
  BY DEF TypeInv, DataOK
<1>4. ASSUME NEW n \in DOMAIN logs, n >= manifest.log, e \in logs[n] PROVE e \in Durable
  BY <1>4 DEF Durable
<1>5. ASSUME NEW t \in manifest.tables \cap DOMAIN tables, e \in tables[t] PROVE e \in Durable
  BY <1>5 DEF Durable
<1>6. CASE m = mem_
  BY <1>1, <1>3, <1>4, <1>6 DEF DurableInv, LogHeld
<1>7. CASE m = imm_
  <2>1. imm_ # NoTable
    BY <1>2, <1>7 DEF NoTable
  <2>2. CASE ImmLogged
    BY <1>1, <1>4, <1>7, <2>1, <2>2 DEF ImmLogged, MemtableEntries
  <2>3. CASE imm_ = 1 /\ TableDurable
    BY <1>1, <1>5, <1>7, <2>3 DEF TableDurable
  <2> QED BY <2>1, <2>2, <2>3 DEF DurableInv, ImmHeld
<1>8. CASE m = 1 /\ nowversion # {}
  BY <1>1, <1>5, <1>8 DEF DurableInv, VersionHeld, FlushInv, FlushedFirst
<1> QED BY <1>2, <1>6, <1>7, <1>8 DEF FlushInv, OlderKept

\* No write that Write acknowledged is ever without a durable home, as long as the
\* session's file numbers are read back from their names as they were written: not
\* between the rotation of a memtable and its flush, not when WriteLevel0Table or the
\* manifest fails, not while DeleteObsoleteFiles runs beside a writer.  A record that
\* a failed or a short write kept out of the log is durable from the flush of its
\* memtable on; one whose Sync failed is excepted.
THEOREM AckedDurableHolds == ASSUME NumbersReadBack PROVE Spec => []AckedDurable
<1> DEFINE Inv == TypeInv /\ StartInv /\ ContentInv /\ FlushInv /\ NumberInv /\ DurableInv
<1>1. Init => Inv
  <2> SUFFICES ASSUME Init PROVE NumberInv /\ DurableInv
    BY GetInitially DEF GetInv
  <2>1. FirstLog \in Nat /\ FirstLog > 0
    BY BoundsAssumption
  <2>2. DOMAIN logs = {FirstLog} /\ logs[FirstLog] = {} /\ DOMAIN tables = {}
    BY DEF Init
  <2>3. NumberInv
    BY <2>1, <2>2 DEF Init, NumberInv, NumberBound, Spare, NumbersBelow, KindsApart
  <2>4. 1 \in Tables
    BY LenScript DEF Tables
  <2>5. LogHeld
    BY <2>1, <2>2, <2>4 DEF Init, LogHeld
  <2> QED BY <2>3, <2>5 DEF Init, DurableInv, EditHeld, ImmHeld, VersionHeld, DeleteHeld
<1>2. Inv /\ [Next]_vars => Inv'
  <2> SUFFICES ASSUME Inv, [Next]_vars PROVE Inv'
    OBVIOUS
  <2>1. TypeInv' /\ StartInv' /\ ContentInv' /\ FlushInv'
    BY TypeStep, StartStep, ContentStep, FlushStep
  <2>2. NumberInv'
    BY NumberStep
  <2>3. DurableInv'
    BY DurableStep
  <2> QED BY <2>1, <2>2, <2>3
<1>3. Inv => AckedDurable
  BY HeldDurable
<1> QED BY <1>1, <1>2, <1>3, PTL DEF Spec
=============================================================================
