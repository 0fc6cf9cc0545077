------------------------------ MODULE Recovery ------------------------------
(***************************************************************************)
(* The files of a database over several lives of the process: DBImpl::Open *)
(* (NewDB, Recover, RecoverLogFile, VersionSet::Recover, LogAndApply,      *)
(* SetCurrentFile, DeleteObsoleteFiles), writes and one flush in a session *)
(* and a crash, of the process or of the machine, at any point.            *)
(*                                                                         *)
(* Every step is one operation on files that a crash can separate from the *)
(* next.  The threads of a session are the subject of Flush; here a write  *)
(* and the flush only interleave.  ~DBImpl leaves the files as a crash of  *)
(* the process does, since every Appendrecord ends with write(2).          *)
(***************************************************************************)
EXTENDS Integers, Sequences, FiniteSets, SequencesExt, FileNames

CONSTANTS WriteBuffer,  \* options.write_buffer_size, in entries
          MaxWrites,    \* bound: calls of Write
          MaxOpens      \* bound: calls of Open

ASSUME BoundsAssumption == WriteBuffer \in Nat /\ MaxWrites \in Nat /\ MaxOpens \in Nat

VARIABLES
  \* on disk
  CURRENT,      \* the number of the manifest it names; 0 when it does not exist
  manifests,    \* number -> the edits of the file and how many of them are synced
  logs,         \* number -> the records of the file and how many of them are synced
  tables,       \* number -> the entries of the table
  \* in memory
  pc,           \* the thread that opens and then writes
  next_file_number, manifest_file_number, log_number, last_sequence,  \* VersionSet
  nowversion,   \* the tables of the current version
  live,         \* the tables of all versions of versionlist
  replay, at,   \* the logs still to be replayed, the next record of the lowest
  rmem,         \* RecoverLogFile's memtable
  edit,         \* the edit on its way to the manifest
  logfilenum, mem, imm,
  bpc,          \* the flush: "idle", "build", ..., "over"
  obsolete,     \* the files DeleteObsoleteFiles is about to delete
  \* history
  opens, writes,
  acked         \* the entries of the writes that returned Ok with sync set

disk   == <<CURRENT, manifests, logs, tables>>
vset   == <<next_file_number, manifest_file_number, log_number, last_sequence,
            nowversion, live>>
opener == <<replay, at, rmem>>
hist   == <<opens, writes, acked>>
vars   == <<disk, vset, opener, hist, pc, edit, logfilenum, mem, imm, bpc, obsolete>>

Entry == [id : 1..MaxWrites, seq : Nat]
Edit  == [log : Nat, next : Nat, seq : Nat, files : SUBSET Nat]
NoEdit == [log |-> 0, next |-> 0, seq |-> 0, files |-> {}]

\* A file created (or truncated) or replaced, and a file deleted.
With(f, n, v)  == [m \in DOMAIN f \cup {n} |-> IF m = n THEN v ELSE f[m]]
Without(f, n)  == [m \in DOMAIN f \ {n} |-> f[m]]
Empty == [data |-> <<>>, synced |-> 0]
Appended(f, x) == [f EXCEPT !.data = Append(@, x)]
Synced(f)      == [f EXCEPT !.synced = Len(f.data)]

\* What the constructors set.
Volatile(opening) ==
  /\ pc' = opening
  /\ next_file_number' = 2 /\ manifest_file_number' = 0 /\ log_number' = 0
  /\ last_sequence' = 0 /\ nowversion' = {} /\ live' = {}
  /\ replay' = {} /\ at' = 1 /\ rmem' = {} /\ edit' = NoEdit
  /\ logfilenum' = 0 /\ mem' = {} /\ imm' = {} /\ bpc' = "idle" /\ obsolete' = {}

Init ==
  /\ CURRENT = 0 /\ manifests = <<>> /\ logs = <<>> /\ tables = <<>>
  /\ pc = "closed"
  /\ next_file_number = 2 /\ manifest_file_number = 0 /\ log_number = 0
  /\ last_sequence = 0 /\ nowversion = {} /\ live = {}
  /\ replay = {} /\ at = 1 /\ rmem = {} /\ edit = NoEdit
  /\ logfilenum = 0 /\ mem = {} /\ imm = {} /\ bpc = "idle" /\ obsolete = {}
  /\ opens = 0 /\ writes = 0 /\ acked = {}
-----------------------------------------------------------------------------
\* Open, up to NewDB or VersionSet::Recover.
Open ==
  /\ pc = "closed" /\ opens < MaxOpens
  /\ Volatile(IF CURRENT = 0 THEN "newdb" ELSE "versions")
  /\ opens' = opens + 1
  /\ UNCHANGED <<disk, writes, acked>>

\* Mutant: the edit has no last sequence.
NewDBManifestPartial ==
  /\ pc = "newdb"
  /\ manifests' = With(manifests, 1,
                       Appended(Empty, [log |-> 0, next |-> 2, files |-> {}]))
  /\ pc' = "newdbcurrent"
  /\ UNCHANGED <<CURRENT, logs, tables, vset, opener, hist, edit, logfilenum, mem, imm, bpc, obsolete>>

\* NewDB writes its manifest and closes it without fsync, ...
NewDBManifest ==
  /\ pc = "newdb"
  /\ manifests' = With(manifests, 1,
                       Appended(Empty, [log |-> 0, next |-> 2, seq |-> 0, files |-> {}]))
  /\ pc' = "newdbcurrent"
  /\ UNCHANGED <<CURRENT, logs, tables, vset, opener, hist, edit, logfilenum, mem, imm, bpc, obsolete>>

\* ... and then makes CURRENT name it.
NewDBCurrent ==
  /\ pc = "newdbcurrent"
  /\ CURRENT' = 1
  /\ pc' = "versions"
  /\ UNCHANGED <<manifests, logs, tables, vset, opener, hist, edit, logfilenum, mem, imm, bpc, obsolete>>

\* The edits in the manifest that CURRENT names.
Edits == IF CURRENT \in DOMAIN manifests THEN manifests[CURRENT].data ELSE <<>>
FilesOf(es) == UNION {es[i].files : i \in DOMAIN es}

\* Mutant: the new manifest takes no number of its own.
VersionRecoverNoSkip ==
  /\ pc = "versions" /\ Edits # <<>>
  /\ manifest_file_number' = Last(Edits).next
  /\ next_file_number' = Last(Edits).next
  /\ last_sequence' = Last(Edits).seq
  /\ log_number' = Last(Edits).log
  /\ live' = FilesOf(Edits)
  /\ pc' = "list"
  /\ UNCHANGED <<disk, nowversion, opener, hist, edit, logfilenum, mem, imm, bpc, obsolete>>

\* VersionSet::Recover.  Only the recovered version, which is put on versionlist,
\* knows the tables: nowversion stays the empty version of the constructor.
VersionRecover ==
  /\ pc = "versions" /\ Edits # <<>>
  /\ manifest_file_number' = Last(Edits).next
  /\ next_file_number' = Last(Edits).next + 1
  /\ last_sequence' = Last(Edits).seq
  /\ log_number' = Last(Edits).log
  /\ live' = FilesOf(Edits)
  /\ pc' = "list"
  /\ UNCHANGED <<disk, nowversion, opener, hist, edit, logfilenum, mem, imm, bpc, obsolete>>

\* Recover lists the directory: the numbers that it makes of the names.
FoundNumbers == {ParsedNumber(n) : n \in DOMAIN logs \cup DOMAIN tables}
FoundLogs    == {ParsedNumber(n) : n \in DOMAIN logs}

ListFiles ==
  /\ pc = "list" /\ live \subseteq FoundNumbers
  /\ replay' = {n \in FoundLogs : n >= log_number}
  /\ pc' = "replay"
  /\ UNCHANGED <<disk, vset, at, rmem, hist, edit, logfilenum, mem, imm, bpc, obsolete>>

\* RecoverLogFile, one record.  Recover has sorted the numbers and goes through them
\* from the lowest.  A memtable over the limit becomes a level-0 table.
Replaying == pc = "replay" /\ replay # {} /\ Min(replay) \in DOMAIN logs

ReplayRecord ==
  /\ Replaying /\ at <= Len(logs[Min(replay)].data)
  /\ LET m == rmem \cup {logs[Min(replay)].data[at]}
     IN IF Cardinality(m) > WriteBuffer
        THEN /\ tables' = With(tables, next_file_number, m)
             /\ edit' = [edit EXCEPT !.files = @ \cup {next_file_number}]
             /\ next_file_number' = next_file_number + 1
             /\ rmem' = {}
        ELSE /\ rmem' = m
             /\ UNCHANGED <<tables, edit, next_file_number>>
  /\ at' = at + 1
  /\ UNCHANGED <<CURRENT, manifests, logs, manifest_file_number, log_number, last_sequence,
                 nowversion, live, replay, hist, pc, logfilenum, mem, imm, bpc, obsolete>>

\* The rest of the memtable is dropped, and max_sequence is not used.
ReplayEnd ==
  /\ Replaying /\ at > Len(logs[Min(replay)].data)
  /\ replay' = replay \ {Min(replay)} /\ at' = 1 /\ rmem' = {}
  /\ UNCHANGED <<disk, vset, hist, pc, edit, logfilenum, mem, imm, bpc, obsolete>>

\* The error returns of Recover: no manifest or none with an edit, a table that is
\* not there, a log that cannot be opened.  Open deletes the DBImpl.
RecoverError ==
  \/ pc = "versions" /\ Edits = <<>>
  \/ pc = "list" /\ ~(live \subseteq FoundNumbers)
  \/ pc = "replay" /\ replay # {} /\ Min(replay) \notin DOMAIN logs

OpenFails ==
  /\ RecoverError
  /\ Volatile("closed")
  /\ UNCHANGED <<disk, hist>>

\* Open creates the log of the session (NewWritableFile truncates).
NewLog ==
  /\ pc = "replay" /\ replay = {}
  /\ logs' = With(logs, next_file_number, Empty)
  /\ logfilenum' = next_file_number
  /\ next_file_number' = next_file_number + 1
  /\ edit' = [edit EXCEPT !.log = next_file_number]
  /\ pc' = "manifest"
  /\ UNCHANGED <<CURRENT, manifests, tables, manifest_file_number, log_number, last_sequence,
                 nowversion, live, opener, hist, mem, imm, bpc, obsolete>>
-----------------------------------------------------------------------------
\* LogAndApply in Open: a new manifest with a snapshot of nowversion, which is
\* empty and so writes nothing, then the edit, fsync, CURRENT and the new version.
NewManifest ==
  /\ pc = "manifest"
  /\ manifests' = With(manifests, manifest_file_number, Empty)
  /\ edit' = [edit EXCEPT !.next = next_file_number, !.seq = last_sequence]
  /\ pc' = "edit"
  /\ UNCHANGED <<CURRENT, logs, tables, vset, opener, hist, logfilenum, mem, imm, bpc, obsolete>>

LogEdit == manifests' = With(manifests, manifest_file_number,
                             Appended(manifests[manifest_file_number], edit))
SyncEdit == manifests' = With(manifests, manifest_file_number,
                              Synced(manifests[manifest_file_number]))

ManifestEdit ==
  /\ pc = "edit" /\ LogEdit
  /\ pc' = "sync"
  /\ UNCHANGED <<CURRENT, logs, tables, vset, opener, hist, edit, logfilenum, mem, imm, bpc, obsolete>>

\* Mutant: the manifest is not synced before CURRENT names it.
ManifestNoSync ==
  /\ pc = "sync" /\ UNCHANGED manifests
  /\ pc' = "current"
  /\ UNCHANGED <<CURRENT, logs, tables, vset, opener, hist, edit, logfilenum, mem, imm, bpc, obsolete>>

ManifestSync ==
  /\ pc = "sync" /\ SyncEdit
  /\ pc' = "current"
  /\ UNCHANGED <<CURRENT, logs, tables, vset, opener, hist, edit, logfilenum, mem, imm, bpc, obsolete>>

\* SetCurrentFile: a temporary file, written and synced, is renamed to CURRENT.
SetCurrentFile ==
  /\ pc = "current"
  /\ CURRENT' = manifest_file_number
  /\ pc' = "install"
  /\ UNCHANGED <<manifests, logs, tables, vset, opener, hist, edit, logfilenum, mem, imm, bpc, obsolete>>

\* The files DeleteObsoleteFiles does not keep; manifests' names are not parsed.
Obsolete(lognum, alive) ==
  {<<"log", n>> : n \in {m \in DOMAIN logs : ParsedNumber(m) < lognum}}
  \cup {<<"table", n>> : n \in {m \in DOMAIN tables : ParsedNumber(m) \notin alive}}

\* Mutant: the new version is not put on versionlist.
InstallUnlisted ==
  /\ nowversion' = nowversion \cup edit.files
  /\ live' = live
  /\ log_number' = edit.log
  /\ edit' = NoEdit
  /\ obsolete' = Obsolete(log_number', live')

\* The end of LogAndApply, and the list that DeleteObsoleteFiles makes next.
Install ==
  /\ nowversion' = nowversion \cup edit.files
  /\ live' = live \cup nowversion'
  /\ log_number' = edit.log
  /\ edit' = NoEdit
  /\ obsolete' = Obsolete(log_number', live')

OpenInstall ==
  /\ pc = "install" /\ Install
  /\ pc' = "delete"
  /\ UNCHANGED <<disk, next_file_number, manifest_file_number, last_sequence, opener, hist,
                 logfilenum, mem, imm, bpc>>

DeleteFile(f) ==
  /\ f \in obsolete
  /\ obsolete' = obsolete \ {f}
  /\ logs' = IF f[1] = "log" THEN Without(logs, f[2]) ELSE logs
  /\ tables' = IF f[1] = "table" THEN Without(tables, f[2]) ELSE tables

OpenDelete(f) ==
  /\ pc = "delete" /\ DeleteFile(f)
  /\ UNCHANGED <<CURRENT, manifests, vset, opener, hist, pc, edit, logfilenum, mem, imm, bpc>>

OpenReturns ==
  /\ pc = "delete" /\ obsolete = {}
  /\ pc' = "open"
  /\ UNCHANGED <<disk, vset, opener, hist, edit, logfilenum, mem, imm, bpc, obsolete>>
-----------------------------------------------------------------------------
\* Write: the record, with fsync when the options ask for it, then the memtable.
\* An unlinked log takes the record and nobody will read it.
ToLog(rec, sync) ==
  logs' = IF logfilenum \in DOMAIN logs
          THEN LET f == Appended(logs[logfilenum], rec)
               IN With(logs, logfilenum, IF sync THEN Synced(f) ELSE f)
          ELSE logs

Pending(sync) == IF sync THEN "putsync" ELSE "put"

WriteLog(sync) ==
  /\ pc = "open" /\ writes < MaxWrites /\ Cardinality(mem) <= WriteBuffer
  /\ ToLog([id |-> writes + 1, seq |-> last_sequence + 1], sync)
  /\ writes' = writes + 1
  /\ pc' = Pending(sync)
  /\ UNCHANGED <<CURRENT, manifests, tables, vset, opener, opens, acked, edit, logfilenum,
                 mem, imm, bpc, obsolete>>

WriteReturns(sync) ==
  /\ pc = Pending(sync)
  /\ LET e == [id |-> writes, seq |-> last_sequence + 1]
     IN /\ mem' = mem \cup {e}
        /\ acked' = IF sync THEN acked \cup {e} ELSE acked
  /\ last_sequence' = last_sequence + 1
  /\ pc' = "open"
  /\ UNCHANGED <<disk, next_file_number, manifest_file_number, log_number, nowversion, live,
                 opener, opens, writes, edit, logfilenum, imm, bpc, obsolete>>

\* MakeRoomForwrite rotates the log and the memtable.  PosixEnv's background
\* thread runs one call and ends: a second rotation is never flushed.
Rotate ==
  /\ pc = "open" /\ writes < MaxWrites /\ Cardinality(mem) > WriteBuffer /\ imm = {}
  /\ logs' = With(logs, next_file_number, Empty)
  /\ logfilenum' = next_file_number
  /\ next_file_number' = next_file_number + 1
  /\ imm' = mem /\ mem' = {}
  /\ bpc' = IF bpc = "idle" THEN "build" ELSE bpc
  /\ UNCHANGED <<CURRENT, manifests, tables, manifest_file_number, log_number, last_sequence,
                 nowversion, live, opener, hist, pc, edit, obsolete>>

\* CompactMemTable: the level-0 table, written and synced, ...
FlushBuild ==
  /\ bpc = "build"
  /\ tables' = With(tables, next_file_number, imm)
  /\ next_file_number' = next_file_number + 1
  /\ edit' = [log |-> logfilenum, next |-> next_file_number + 1, seq |-> last_sequence,
              files |-> {next_file_number}]
  /\ bpc' = "edit"
  /\ UNCHANGED <<CURRENT, manifests, logs, manifest_file_number, log_number, last_sequence,
                 nowversion, live, opener, hist, pc, logfilenum, mem, imm, obsolete>>

\* ... the edit, appended to the open manifest and synced, ...
FlushEdit ==
  /\ bpc = "edit" /\ LogEdit
  /\ bpc' = "sync"
  /\ UNCHANGED <<CURRENT, logs, tables, vset, opener, hist, pc, edit, logfilenum, mem, imm, obsolete>>

FlushSync ==
  /\ bpc = "sync" /\ SyncEdit
  /\ bpc' = "install"
  /\ UNCHANGED <<CURRENT, logs, tables, vset, opener, hist, pc, edit, logfilenum, mem, imm, obsolete>>

\* ... the new version, and the files it makes obsolete.
FlushInstall ==
  /\ bpc = "install" /\ Install
  /\ imm' = {}
  /\ bpc' = "delete"
  /\ UNCHANGED <<disk, next_file_number, manifest_file_number, last_sequence, opener, hist,
                 pc, logfilenum, mem>>

FlushDelete(f) ==
  /\ bpc = "delete" /\ DeleteFile(f)
  /\ bpc' = IF obsolete' = {} THEN "over" ELSE bpc
  /\ UNCHANGED <<CURRENT, manifests, vset, opener, hist, pc, edit, logfilenum, mem, imm>>
-----------------------------------------------------------------------------
\* The process ends, closed or killed: what was written stays.
Stop ==
  /\ pc # "closed"
  /\ Volatile("closed")
  /\ UNCHANGED <<disk, hist>>

\* The machine stops: of every file some prefix stays that holds what was synced.
Cut(f, n) == [data |-> SubSeq(f.data, 1, n), synced |-> f.synced]
Unsynced(files) == {n \in DOMAIN files : files[n].synced < Len(files[n].data)}
AfterCut(files, c) == [n \in DOMAIN files |-> IF n \in DOMAIN c THEN Cut(files[n], c[n]) ELSE files[n]]
Cuts(files) == {c \in [Unsynced(files) -> 0..(MaxWrites + MaxOpens)] :
                  \A n \in DOMAIN c : c[n] \in files[n].synced..Len(files[n].data)}

PowerLoss ==
  /\ pc # "closed"
  /\ \E c \in Cuts(logs) : logs' = AfterCut(logs, c)
  /\ \E c \in Cuts(manifests) : manifests' = AfterCut(manifests, c)
  /\ Volatile("closed")
  /\ UNCHANGED <<CURRENT, tables, hist>>

Next ==
  \/ Open \/ NewDBManifest \/ NewDBCurrent \/ VersionRecover \/ ListFiles
  \/ ReplayRecord \/ ReplayEnd \/ OpenFails \/ NewLog
  \/ NewManifest \/ ManifestEdit \/ ManifestSync \/ SetCurrentFile \/ OpenInstall
  \/ (\E f \in obsolete : OpenDelete(f)) \/ OpenReturns
  \/ (\E sync \in BOOLEAN : WriteLog(sync) \/ WriteReturns(sync)) \/ Rotate
  \/ FlushBuild \/ FlushEdit \/ FlushSync \/ FlushInstall
  \/ (\E f \in obsolete : FlushDelete(f))
  \/ Stop \/ PowerLoss

Spec == Init /\ [][Next]_vars
-----------------------------------------------------------------------------
File(S) == [data : Seq(S), synced : Nat]

\* The values the variables take.
TypeOK ==
  /\ CURRENT \in Nat
  /\ \A n \in DOMAIN manifests : manifests[n] \in File(Edit) /\ n \in Nat
  /\ \A n \in DOMAIN logs : logs[n] \in File(Entry) /\ n \in Nat
  /\ \A n \in DOMAIN tables : tables[n] \subseteq Entry /\ n \in Nat
  /\ pc \in {"closed", "newdb", "newdbcurrent", "versions", "list", "replay", "manifest",
             "edit", "sync", "current", "install", "delete", "open", "put", "putsync"}
  /\ bpc \in {"idle", "build", "edit", "sync", "install", "delete", "over"}
  /\ next_file_number \in Nat /\ manifest_file_number \in Nat /\ log_number \in Nat
  /\ last_sequence \in Nat /\ nowversion \subseteq Nat /\ live \subseteq Nat
  /\ replay \subseteq Nat /\ at \in Nat /\ rmem \subseteq Entry /\ edit \in Edit
  /\ logfilenum \in Nat /\ mem \subseteq Entry /\ imm \subseteq Entry
  /\ obsolete \subseteq {"log", "table"} \X Nat
  /\ opens \in 0..MaxOpens /\ writes \in 0..MaxWrites /\ acked \subseteq Entry

\* Whenever the machine may stop, CURRENT names a manifest with an edit that is on
\* disk: SetCurrentFile comes after the manifest's fsync, and no later Open
\* truncates it by using its number again.  (Not so the manifest of NewDB.)
CurrentComplete ==
  CURRENT > 1 => CURRENT \in DOMAIN manifests /\ manifests[CURRENT].synced > 0

\* Every table that the manifest on disk speaks of exists, so that the next Open
\* does not end with "missing files" (for numbers that ParsefileName reads back).
TablesPresent ==
  \A n \in FilesOf(Edits) : ParsedNumber(n) = n => n \in DOMAIN tables

\* The oldest log that the next Open will replay, as far as it is on disk.
DurableLog == IF CURRENT \in DOMAIN manifests /\ manifests[CURRENT].synced > 0
              THEN manifests[CURRENT].data[manifests[CURRENT].synced].log ELSE 0

\* A log with synced records is deleted or truncated only after an edit is on disk
\* that makes recovery pass over it.  Rotation does not record the numbers it
\* takes in the manifest: this is about their reuse after a crash as well.
LogRetired ==
  [][\A n \in DOMAIN logs :
       (/\ logs[n].synced > 0 /\ ParsedNumber(n) = n
        /\ n \notin DOMAIN logs' \/ logs'[n].synced < logs[n].synced)
       => n < DurableLog]_vars

\* What a reader of the open database can find.
Visible(e) ==
  e.seq <= last_sequence /\ e \in (mem \cup imm) \cup (UNION {tables[n] : n \in nowversion \cap DOMAIN tables})

\* What the log is there for: a write that returned after fsync is there after every
\* Open.  It is not: the replayed memtable is dropped or its sequence is forgotten.
ReopenKeeps == pc = "open" => \A e \in acked : Visible(e)
=============================================================================
