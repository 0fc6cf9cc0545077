--------------------------- MODULE RecoveryProofs ---------------------------
(***************************************************************************)
(* The files of the database over crashes and openings, for every number   *)
(* of openings and writes and every size of the write buffer.              *)
(***************************************************************************)
EXTENDS Recovery, FiniteSetTheorems, NumberLemmas, TLAPS

SessionPcs == {"open", "put", "putsync"}

\* Before SetCurrentFile, from the moment that VersionSet::Recover has read CURRENT's
\* manifest.
OpeningPcs == {"list", "replay", "manifest", "edit", "sync", "current"}

\* After it.
InstalledPcs == {"delete"} \cup SessionPcs

\* The edits of the manifest m count up from above m.
CountsUp(m, f) ==
  /\ f.synced <= Len(f.data)
  /\ \A i \in 1..Len(f.data) : f.data[i].next > m
  /\ \A i, j \in 1..Len(f.data) : i < j => f.data[i].next <= f.data[j].next

FileInv ==
  /\ \A m \in DOMAIN manifests : CountsUp(m, manifests[m])
  /\ \A n \in DOMAIN logs : logs[n].synced <= Len(logs[n].data)

Manifest == manifests[manifest_file_number]
DurableEdit == Manifest.data[Manifest.synced]

PhaseInv ==
  /\ bpc # "idle" => pc \in SessionPcs
  /\ pc \in {"newdb", "newdbcurrent"} => CURRENT = 0
  /\ pc \in {"put", "putsync"} => writes > 0
  /\ at > 0
  /\ pc \in {"versions"} \cup OpeningPcs => CURRENT > 0
  /\ pc \notin InstalledPcs => obsolete = {}

OpeningInv ==
  pc \in OpeningPcs =>
    /\ Edits # <<>>
    /\ manifest_file_number = Edits[Len(Edits)].next
    /\ manifest_file_number < next_file_number

WrittenInv ==
  /\ pc = "edit" => /\ manifest_file_number \in DOMAIN manifests
                    /\ Manifest = Empty
  /\ pc = "sync" => /\ manifest_file_number \in DOMAIN manifests
                    /\ Manifest = [data |-> <<edit>>, synced |-> 0]
  /\ pc \in {"current", "install"} =>
                    /\ manifest_file_number \in DOMAIN manifests
                    /\ Manifest = [data |-> <<edit>>, synced |-> 1]
  /\ pc \in {"edit", "sync", "current", "install"} =>
       edit.next = next_file_number /\ manifest_file_number < next_file_number
  /\ pc \in {"manifest", "edit", "sync", "current", "install"} =>
       edit.log = logfilenum /\ logfilenum < next_file_number
  /\ pc = "install" => CURRENT = manifest_file_number /\ CURRENT > 1

SessionInv ==
  pc \in InstalledPcs =>
    /\ CURRENT = manifest_file_number /\ CURRENT > 1
    /\ manifest_file_number \in DOMAIN manifests
    /\ manifest_file_number < next_file_number
    /\ Manifest.synced > 0
    /\ Len(Manifest.data) = IF bpc = "sync" THEN Manifest.synced + 1 ELSE Manifest.synced
    /\ bpc \in {"sync", "install"} => Manifest.data[Len(Manifest.data)] = edit
    /\ bpc \notin {"edit", "sync", "install"} => edit = NoEdit
    /\ bpc # "install" => log_number = DurableEdit.log
    /\ logfilenum <= DurableEdit.next /\ logfilenum < next_file_number
    /\ DurableEdit.next <= next_file_number
    /\ bpc \in {"edit", "sync", "install"} => edit.next = next_file_number
    /\ bpc \in {"build", "edit", "sync", "install"} => imm # {}
    /\ imm = {} => next_file_number = DurableEdit.next

\* The tables of the edit on its way to the manifest.
EditTables == edit.files \subseteq DOMAIN tables

NewDBEmpty == pc = "newdbcurrent" => 1 \in DOMAIN manifests /\ FilesOf(manifests[1].data) = {}

\* The tables the manifest speaks of are those of some version.
LiveInv ==
  pc \in InstalledPcs =>
    FilesOf(Manifest.data) \subseteq
      live \cup (IF bpc \in {"sync", "install"} THEN edit.files ELSE {})

\* DeleteObsoleteFiles deletes no table of a version and no log that recovery needs.
ObsoleteInv ==
  \A f \in obsolete :
    ParsedNumber(f[2]) = f[2] => /\ f[1] = "table" => f[2] \notin live
                                 /\ f[1] = "log" => f[2] < log_number

\* The last number that the next Open is sure to pass over.
DurableNext == manifests[CURRENT].data[manifests[CURRENT].synced].next

SyncedLogs == {n \in DOMAIN logs : logs[n].synced > 0}

LogInv ==
  /\ CURRENT <= 1 => SyncedLogs = {}
  /\ CURRENT > 1 => \A n \in SyncedLogs : n <= DurableNext
  /\ pc \in OpeningPcs \cup {"install"} \cup InstalledPcs =>
       \A n \in SyncedLogs : n < next_file_number

-----------------------------------------------------------------------------
(***************************************************************************)
(* Files                                                                   *)
(***************************************************************************)

LEMMA WithFile ==
  ASSUME NEW f, NEW n, NEW v
  PROVE  /\ DOMAIN With(f, n, v) = DOMAIN f \cup {n}
         /\ With(f, n, v)[n] = v
         /\ \A m \in DOMAIN f : m # n => With(f, n, v)[m] = f[m]
BY DEF With

LEMMA WithType ==
  ASSUME NEW S, NEW f, NEW n \in Nat, NEW v \in S,
         \A m \in DOMAIN f : f[m] \in S /\ m \in Nat
  PROVE  \A m \in DOMAIN With(f, n, v) : With(f, n, v)[m] \in S /\ m \in Nat
BY DEF With

LEMMA WithoutFile ==
  ASSUME NEW f, NEW n
  PROVE  /\ DOMAIN Without(f, n) = DOMAIN f \ {n}
         /\ \A m \in DOMAIN f : m # n => Without(f, n)[m] = f[m]
BY DEF Without

LEMMA EmptyFile == \A S : Empty \in File(S) /\ Len(Empty.data) = 0 /\ Empty.synced = 0
BY DEF Empty, File

LEMMA AppendedFile ==
  ASSUME NEW S, NEW f \in File(S), NEW x \in S
  PROVE  /\ Appended(f, x) \in File(S)
         /\ Appended(f, x).synced = f.synced
         /\ Appended(f, x).data = Append(f.data, x)
         /\ Len(Appended(f, x).data) = Len(f.data) + 1
         /\ Appended(f, x).data[Len(f.data) + 1] = x
         /\ \A i \in 1..Len(f.data) : Appended(f, x).data[i] = f.data[i]
<1>1. f.data \in Seq(S) /\ f.synced \in Nat
  BY DEF File
<1>2. Appended(f, x) = [data |-> Append(f.data, x), synced |-> f.synced]
  <2>1. PICK y : y = Append(f.data, x)
    OBVIOUS
  <2>2. [f EXCEPT !.data = y] = [data |-> y, synced |-> f.synced]
    BY DEF File
  <2> QED BY <2>1, <2>2 DEF Appended
<1>3. Append(f.data, x) \in Seq(S)
  BY <1>1
<1> QED BY <1>1, <1>2, <1>3 DEF File

LEMMA SyncedFile ==
  ASSUME NEW S, NEW f \in File(S)
  PROVE  /\ Synced(f) \in File(S)
         /\ Synced(f).data = f.data /\ Synced(f).synced = Len(f.data)
<1>1. f.data \in Seq(S) /\ f.synced \in Nat
  BY DEF File
<1>2. Synced(f) = [data |-> f.data, synced |-> Len(f.data)]
  BY DEF Synced, File
<1> QED BY <1>1, <1>2 DEF File

\* What a power failure leaves of a file.
LEMMA CutFiles ==
  ASSUME NEW S, NEW files, \A n \in DOMAIN files : files[n] \in File(S), NEW c \in Cuts(files),
         NEW n \in DOMAIN files, files[n].synced <= Len(files[n].data)
  PROVE  /\ DOMAIN AfterCut(files, c) = DOMAIN files
         /\ AfterCut(files, c)[n] \in File(S)
         /\ AfterCut(files, c)[n].synced = files[n].synced
         /\ files[n].synced <= Len(AfterCut(files, c)[n].data)
         /\ Len(AfterCut(files, c)[n].data) <= Len(files[n].data)
         /\ \A i \in 1..Len(AfterCut(files, c)[n].data) :
              AfterCut(files, c)[n].data[i] = files[n].data[i]
<1>1. files[n].data \in Seq(S) /\ files[n].synced \in Nat /\ Len(files[n].data) \in Nat
  BY DEF File
<1>2. DOMAIN AfterCut(files, c) = DOMAIN files
  BY DEF AfterCut
<1>3. CASE n \in DOMAIN c
  <2>1. c[n] \in files[n].synced..Len(files[n].data)
    BY <1>3 DEF Cuts
  <2>2. AfterCut(files, c)[n] = [data |-> SubSeq(files[n].data, 1, c[n]), synced |-> files[n].synced]
    BY <1>3 DEF AfterCut, Cut
  <2>0. PICK d : d = SubSeq(files[n].data, 1, c[n])
    OBVIOUS
  <2>3. d \in Seq(S) /\ Len(d) = c[n] /\ \A i \in 1..c[n] : d[i] = files[n].data[i]
    BY <1>1, <2>0, <2>1
  <2>4. AfterCut(files, c)[n] = [data |-> d, synced |-> files[n].synced]
    BY <2>0, <2>2
  <2> QED BY <1>1, <1>2, <2>1, <2>3, <2>4 DEF File
<1>4. CASE n \notin DOMAIN c
  <2>1. AfterCut(files, c)[n] = files[n]
    BY <1>4 DEF AfterCut
  <2> QED BY <1>1, <1>2, <2>1
<1> QED BY <1>3, <1>4

\* The step of DeleteFile.
LEMMA DeletedFile ==
  ASSUME NEW f, DeleteFile(f)
  PROVE  /\ DOMAIN logs' \subseteq DOMAIN logs
         /\ \A n \in DOMAIN logs' : logs'[n] = logs[n]
         /\ \A n \in DOMAIN logs : n \notin DOMAIN logs' => f[1] = "log" /\ f[2] = n
         /\ DOMAIN tables' \subseteq DOMAIN tables
         /\ \A n \in DOMAIN tables' : tables'[n] = tables[n]
         /\ \A n \in DOMAIN tables : n \notin DOMAIN tables' => f[1] = "table" /\ f[2] = n
         /\ f \in obsolete /\ obsolete' \subseteq obsolete
<1>1. /\ f \in obsolete /\ obsolete' = obsolete \ {f}
      /\ logs' = IF f[1] = "log" THEN Without(logs, f[2]) ELSE logs
      /\ tables' = IF f[1] = "table" THEN Without(tables, f[2]) ELSE tables
  BY DEF DeleteFile
<1>2. /\ DOMAIN logs' \subseteq DOMAIN logs
      /\ \A n \in DOMAIN logs' : logs'[n] = logs[n]
      /\ \A n \in DOMAIN logs : n \notin DOMAIN logs' => f[1] = "log" /\ f[2] = n
  <2>1. CASE f[1] = "log"
    <3>1. logs' = Without(logs, f[2])
      BY <1>1, <2>1
    <3>2. DOMAIN logs' = DOMAIN logs \ {f[2]} /\ \A n \in DOMAIN logs : n # f[2] => logs'[n] = logs[n]
      BY <3>1, WithoutFile, Zenon
    <3> QED BY <2>1, <3>2
  <2>2. CASE f[1] # "log"
    BY <1>1, <2>2
  <2> QED BY <2>1, <2>2
<1>3. /\ DOMAIN tables' \subseteq DOMAIN tables
      /\ \A n \in DOMAIN tables' : tables'[n] = tables[n]
      /\ \A n \in DOMAIN tables : n \notin DOMAIN tables' => f[1] = "table" /\ f[2] = n
  <2>1. CASE f[1] = "table"
    <3>1. tables' = Without(tables, f[2])
      BY <1>1, <2>1
    <3>2. DOMAIN tables' = DOMAIN tables \ {f[2]} /\ \A n \in DOMAIN tables : n # f[2] => tables'[n] = tables[n]
      BY <3>1, WithoutFile, Zenon
    <3> QED BY <2>1, <3>2
  <2>2. CASE f[1] # "table"
    BY <1>1, <2>2
  <2> QED BY <2>1, <2>2
<1> QED BY <1>1, <1>2, <1>3
-----------------------------------------------------------------------------
(***************************************************************************)
(* Types                                                                   *)
(***************************************************************************)

Phases == {"closed", "newdb", "newdbcurrent", "versions", "list", "replay", "manifest",
           "edit", "sync", "current", "install", "delete", "open", "put", "putsync"}

LEMMA NoEditType == NoEdit \in Edit
BY DEF NoEdit, Edit

LEMMA TypeInit == Init => TypeOK
<1> SUFFICES ASSUME Init PROVE TypeOK
  OBVIOUS
<1>1. DOMAIN manifests = {} /\ DOMAIN logs = {} /\ DOMAIN tables = {}
  BY DEF Init
<1>2. 0 \in 0..MaxOpens /\ 0 \in 0..MaxWrites
  BY BoundsAssumption
<1> QED BY <1>1, <1>2, NoEditType DEF Init, TypeOK

\* A new life starts on typed files.
LEMMA VolatileType ==
  ASSUME TypeOK, NEW l \in Phases, Volatile(l), CURRENT' \in Nat,
         \A n \in DOMAIN manifests' : manifests'[n] \in File(Edit) /\ n \in Nat,
         \A n \in DOMAIN logs' : logs'[n] \in File(Entry) /\ n \in Nat,
         tables' = tables, writes' = writes, acked' = acked, opens' \in 0..MaxOpens
  PROVE  TypeOK'
BY NoEditType DEF Volatile, TypeOK, Phases

\* The manifest that LogAndApply appends to and syncs is open.
LEMMA ManifestOpen ==
  ASSUME PhaseInv, WrittenInv, SessionInv,
         pc \in {"edit", "sync"} \/ bpc \in {"edit", "sync"}
  PROVE  manifest_file_number \in DOMAIN manifests
BY DEF PhaseInv, WrittenInv, SessionInv, InstalledPcs, SessionPcs

LEMMA EditLogged ==
  ASSUME TypeOK, manifest_file_number \in DOMAIN manifests, LogEdit \/ SyncEdit
  PROVE  \A n \in DOMAIN manifests' : manifests'[n] \in File(Edit) /\ n \in Nat
<1>1. Manifest \in File(Edit) /\ edit \in Edit /\ manifest_file_number \in Nat
  BY DEF TypeOK, Manifest
<1>2. PICK v \in File(Edit) : manifests' = With(manifests, manifest_file_number, v)
  BY <1>1, AppendedFile, SyncedFile DEF LogEdit, SyncEdit, Manifest
<1>3. \A n \in DOMAIN manifests : manifests[n] \in File(Edit) /\ n \in Nat
  BY DEF TypeOK
<1>4. \A n \in DOMAIN With(manifests, manifest_file_number, v) :
        With(manifests, manifest_file_number, v)[n] \in File(Edit) /\ n \in Nat
  BY <1>1, <1>3, WithType
<1> QED BY <1>2, <1>4

LEMMA ManifestsWith ==
  ASSUME TypeOK, NEW n \in Nat, NEW v \in File(Edit), manifests' = With(manifests, n, v)
  PROVE  \A m \in DOMAIN manifests' : manifests'[m] \in File(Edit) /\ m \in Nat
<1>1. \A m \in DOMAIN manifests : manifests[m] \in File(Edit) /\ m \in Nat
  BY DEF TypeOK
<1> QED BY <1>1, WithType

LEMMA LogsWith ==
  ASSUME TypeOK, NEW n \in Nat, NEW v \in File(Entry), logs' = With(logs, n, v)
  PROVE  \A m \in DOMAIN logs' : logs'[m] \in File(Entry) /\ m \in Nat
<1>1. \A m \in DOMAIN logs : logs[m] \in File(Entry) /\ m \in Nat
  BY DEF TypeOK
<1> QED BY <1>1, WithType

LEMMA TablesWith ==
  ASSUME TypeOK, NEW n \in Nat, NEW v, v \subseteq Entry, tables' = With(tables, n, v)
  PROVE  \A m \in DOMAIN tables' : tables'[m] \subseteq Entry /\ m \in Nat
<1>1. \A m \in DOMAIN tables : tables[m] \in SUBSET Entry /\ m \in Nat
  BY DEF TypeOK
<1>2. \A m \in DOMAIN With(tables, n, v) :
        With(tables, n, v)[m] \in SUBSET Entry /\ m \in Nat
  BY <1>1, WithType
<1> QED BY <1>2

\* The numbers and entries that replay meets.
LEMMA EditsType ==
  ASSUME TypeOK
  PROVE  Edits \in Seq(Edit)
<1>1. CASE CURRENT \in DOMAIN manifests
  BY <1>1 DEF TypeOK, Edits, File
<1>2. CASE CURRENT \notin DOMAIN manifests
  BY <1>2 DEF Edits
<1> QED BY <1>1, <1>2

LEMMA LastEdit ==
  ASSUME TypeOK, Edits # <<>>
  PROVE  /\ Last(Edits) = Edits[Len(Edits)] /\ Len(Edits) \in 1..Len(Edits)
         /\ Last(Edits) \in Edit /\ FilesOf(Edits) \subseteq Nat
<1>1. Edits \in Seq(Edit)
  BY EditsType
<1> HIDE DEF Edits
<1>2. Len(Edits) \in 1..Len(Edits) /\ DOMAIN Edits = 1..Len(Edits)
  BY <1>1
<1>3. Last(Edits) = Edits[Len(Edits)]
  BY DEF Last
<1>4. \A i \in DOMAIN Edits : Edits[i] \in Edit
  BY <1>1
<1>5. FilesOf(Edits) \subseteq Nat
  BY <1>4 DEF FilesOf, Edit
<1> QED BY <1>2, <1>3, <1>4, <1>5

LEMMA FoundType ==
  ASSUME TypeOK
  PROVE  FoundLogs \subseteq Nat
BY ReadBack DEF TypeOK, FoundLogs

LEMMA LowestReplay ==
  ASSUME replay \subseteq Nat, replay # {}
  PROVE  Min(replay) \in replay
<1>1. \E x \in replay : \A y \in replay : x <= y
  BY LeastNat
<1> QED BY <1>1 DEF Min

LEMMA TypeStep ==
  ASSUME TypeOK, FileInv, PhaseInv, WrittenInv, SessionInv, [Next]_vars
  PROVE  TypeOK'
<1> USE DEF disk, vset, opener, hist
<1>1. CASE UNCHANGED vars
  BY <1>1 DEF vars, TypeOK
<1>2. CASE Open
  <2>1. /\ UNCHANGED <<disk, writes, acked>> /\ opens' \in 0..MaxOpens
        /\ \E l \in Phases : Volatile(l)
    BY <1>2, BoundsAssumption DEF Open, TypeOK, Phases
  <2> QED BY <2>1, VolatileType DEF TypeOK
<1>3. CASE NewDBManifest
  <2>1. [log |-> 0, next |-> 2, seq |-> 0, files |-> {}] \in Edit
    BY DEF Edit
  <2>2. Appended(Empty, [log |-> 0, next |-> 2, seq |-> 0, files |-> {}]) \in File(Edit)
    BY <2>1, EmptyFile, AppendedFile
  <2>3. \A n \in DOMAIN manifests' : manifests'[n] \in File(Edit) /\ n \in Nat
    BY <1>3, <2>2, ManifestsWith DEF NewDBManifest
  <2> QED BY <1>3, <2>3 DEF NewDBManifest, TypeOK
<1>4. CASE NewDBCurrent
  BY <1>4 DEF NewDBCurrent, TypeOK
<1>5. CASE VersionRecover
  <2>1. Last(Edits) \in Edit /\ FilesOf(Edits) \subseteq Nat
    BY <1>5, LastEdit DEF VersionRecover
  <2>2. /\ Last(Edits).next \in Nat /\ Last(Edits).next + 1 \in Nat
        /\ Last(Edits).seq \in Nat /\ Last(Edits).log \in Nat
    BY <2>1 DEF Edit
  <2> HIDE DEF disk
  <2>3. /\ UNCHANGED <<disk, nowversion, opener, hist, edit, logfilenum, mem, imm, bpc, obsolete>>
        /\ pc' = "list" /\ manifest_file_number' \in Nat /\ next_file_number' \in Nat
        /\ last_sequence' \in Nat /\ log_number' \in Nat /\ live' \subseteq Nat
    BY <1>5, <2>1, <2>2 DEF VersionRecover
  <2> QED BY <2>3 DEF TypeOK, disk
<1>6. CASE ListFiles
  <2>1. replay' \subseteq Nat
    BY <1>6, FoundType DEF ListFiles
  <2> QED BY <1>6, <2>1 DEF ListFiles, TypeOK
<1>7. CASE ReplayRecord
  <2>1. /\ replay # {} /\ Min(replay) \in DOMAIN logs
        /\ at <= Len(logs[Min(replay)].data) /\ at' = at + 1
        /\ UNCHANGED <<CURRENT, manifests, logs, manifest_file_number, log_number, last_sequence,
                 nowversion, live, replay, hist, pc, logfilenum, mem, imm, bpc, obsolete>>
    BY <1>7 DEF ReplayRecord, Replaying
  <2>2. PICK m : /\ m = rmem \cup {logs[Min(replay)].data[at]}
                 /\ IF Cardinality(m) > WriteBuffer
                    THEN /\ tables' = With(tables, next_file_number, m)
                         /\ edit' = [edit EXCEPT !.files = @ \cup {next_file_number}]
                         /\ next_file_number' = next_file_number + 1
                         /\ rmem' = {}
                    ELSE /\ rmem' = m
                         /\ UNCHANGED <<tables, edit, next_file_number>>
    BY <1>7 DEF ReplayRecord
  <2>3. m \subseteq Entry /\ at \in Nat
    <3>1. logs[Min(replay)] \in File(Entry) /\ at \in Nat \ {0} /\ rmem \subseteq Entry
      BY <2>1 DEF TypeOK, PhaseInv
    <3>2. logs[Min(replay)].data \in Seq(Entry)
      BY <3>1 DEF File
    <3>3. logs[Min(replay)].data[at] \in Entry
      BY <2>1, <3>1, <3>2
    <3> QED BY <2>2, <3>1, <3>3
  <2>4. CASE Cardinality(m) > WriteBuffer
    <3>1. edit' \in Edit
      <4>1. edit \in Edit /\ next_file_number \in Nat
        BY DEF TypeOK
      <4> QED BY <2>2, <2>4, <4>1 DEF Edit
    <3>2. \A n \in DOMAIN tables' : tables'[n] \subseteq Entry /\ n \in Nat
      <4>1. tables' = With(tables, next_file_number, m) /\ next_file_number \in Nat
        BY <2>2, <2>4 DEF TypeOK
      <4> QED BY <2>3, <4>1, TablesWith
    <3>3. rmem' \subseteq Entry /\ next_file_number' \in Nat /\ at' \in Nat
      BY <2>1, <2>2, <2>3, <2>4, SMTT(20) DEF TypeOK
    <3> QED BY <2>1, <3>1, <3>2, <3>3 DEF TypeOK
  <2>5. CASE ~(Cardinality(m) > WriteBuffer)
    <3>1. rmem' \subseteq Entry /\ at' \in Nat /\ UNCHANGED <<tables, edit, next_file_number>>
      BY <2>1, <2>2, <2>3, <2>5 DEF TypeOK
    <3> QED BY <2>1, <3>1 DEF TypeOK
  <2> QED BY <2>4, <2>5
<1>8. CASE ReplayEnd
  BY <1>8 DEF ReplayEnd, TypeOK
<1>9. CASE OpenFails \/ Stop
  <2>1. UNCHANGED <<disk, hist>> /\ Volatile("closed")
    BY <1>9 DEF OpenFails, Stop
  <2> QED BY <2>1, VolatileType DEF TypeOK, Phases
<1>10. CASE NewLog
  <2>1. /\ next_file_number \in Nat /\ edit \in Edit
    BY DEF TypeOK
  <2>2. \A n \in DOMAIN logs' : logs'[n] \in File(Entry) /\ n \in Nat
    BY <1>10, <2>1, LogsWith, EmptyFile DEF NewLog
  <2>3. edit' \in Edit
    BY <1>10, <2>1 DEF NewLog, Edit
  <2> QED BY <1>10, <2>1, <2>2, <2>3 DEF NewLog, TypeOK
<1>11. CASE NewManifest
  <2>1. /\ next_file_number \in Nat /\ edit \in Edit /\ last_sequence \in Nat
    BY DEF TypeOK
  <2>2. \A n \in DOMAIN manifests' : manifests'[n] \in File(Edit) /\ n \in Nat
    <3>1. manifest_file_number \in Nat
      BY DEF TypeOK
    <3> QED BY <1>11, <3>1, ManifestsWith, EmptyFile DEF NewManifest
  <2>3. edit' \in Edit
    BY <1>11, <2>1 DEF NewManifest, Edit
  <2> QED BY <1>11, <2>1, <2>2, <2>3 DEF NewManifest, TypeOK
<1>12. CASE ManifestEdit \/ ManifestSync
  <2>1. /\ LogEdit \/ SyncEdit
        /\ pc \in {"edit", "sync"} /\ pc' \in {"sync", "current"}
        /\ UNCHANGED <<CURRENT, logs, tables, vset, opener, hist, edit, logfilenum, mem, imm, bpc, obsolete>>
    BY <1>12 DEF ManifestEdit, ManifestSync
  <2>2. \A n \in DOMAIN manifests' : manifests'[n] \in File(Edit) /\ n \in Nat
    BY <2>1, ManifestOpen, EditLogged
  <2> QED BY <2>1, <2>2 DEF TypeOK
<1>13. CASE SetCurrentFile
  BY <1>13 DEF SetCurrentFile, TypeOK
<1>14. CASE OpenInstall \/ FlushInstall
  <2>1. /\ Install /\ (pc' = pc \/ pc' = "delete") /\ (bpc' = bpc \/ bpc' = "delete")
        /\ (imm' = imm \/ imm' = {})
        /\ UNCHANGED <<disk, next_file_number, manifest_file_number, last_sequence, opener, hist,
                       logfilenum, mem>>
    BY <1>14 DEF OpenInstall, FlushInstall
  <2>2. edit.files \subseteq Nat /\ edit.log \in Nat
    BY DEF TypeOK, Edit
  <2>3. /\ nowversion' = nowversion \cup edit.files /\ live' = live \cup nowversion'
        /\ log_number' = edit.log /\ edit' = NoEdit
    BY <2>1 DEF Install
  <2>4. nowversion' \subseteq Nat /\ live' \subseteq Nat /\ log_number' \in Nat /\ edit' \in Edit
    BY <2>2, <2>3, NoEditType DEF TypeOK
  <2>5. obsolete' \subseteq {"log", "table"} \X Nat
    BY <2>1 DEF Install, Obsolete, TypeOK
  <2> QED BY <2>1, <2>4, <2>5 DEF TypeOK
<1>15. ASSUME NEW f, DeleteFile(f), pc' = pc, bpc' \in {bpc, "over"},
              UNCHANGED <<CURRENT, manifests, vset, opener, hist, edit, logfilenum, mem, imm>>
       PROVE  TypeOK'
  <2>1. /\ DOMAIN logs' \subseteq DOMAIN logs /\ \A n \in DOMAIN logs' : logs'[n] = logs[n]
        /\ DOMAIN tables' \subseteq DOMAIN tables /\ \A n \in DOMAIN tables' : tables'[n] = tables[n]
        /\ obsolete' \subseteq obsolete
    BY <1>15, DeletedFile
  <2> QED BY <1>15, <2>1 DEF TypeOK
<1>16. ASSUME NEW f, OpenDelete(f) \/ FlushDelete(f)
       PROVE  TypeOK'
  <2>1. /\ DeleteFile(f) /\ pc' = pc /\ bpc' \in {bpc, "over"}
        /\ UNCHANGED <<CURRENT, manifests, vset, opener, hist, edit, logfilenum, mem, imm>>
    BY <1>16 DEF OpenDelete, FlushDelete
  <2> QED BY <1>15, <2>1
<1>17. CASE OpenReturns
  BY <1>17 DEF OpenReturns, TypeOK
<1>18. ASSUME NEW sync \in BOOLEAN, WriteLog(sync)
       PROVE  TypeOK'
  <2> DEFINE rec == [id |-> writes + 1, seq |-> last_sequence + 1]
  <2>1. /\ ToLog(rec, sync) /\ writes' = writes + 1 /\ writes < MaxWrites
        /\ pc' \in {"put", "putsync"}
        /\ UNCHANGED <<CURRENT, manifests, tables, vset, opener, opens, acked, edit, logfilenum,
                       mem, imm, bpc, obsolete>>
    BY <1>18 DEF WriteLog, Pending
  <2>2. rec \in Entry /\ writes' \in 0..MaxWrites
    BY <2>1, BoundsAssumption DEF TypeOK, Entry
  <2> HIDE DEF rec
  <2>3. \A n \in DOMAIN logs' : logs'[n] \in File(Entry) /\ n \in Nat
    <3>1. CASE logfilenum \in DOMAIN logs
      <4>1. logs[logfilenum] \in File(Entry)
        BY <3>1 DEF TypeOK
      <4>2. Appended(logs[logfilenum], rec) \in File(Entry)
        BY <2>2, <4>1, AppendedFile
      <4>3. \E v \in File(Entry) : logs' = With(logs, logfilenum, v)
        BY <2>1, <3>1, <4>2, SyncedFile DEF ToLog
      <4>4. logfilenum \in Nat
        BY DEF TypeOK
      <4> QED BY <4>3, <4>4, LogsWith
    <3>2. CASE logfilenum \notin DOMAIN logs
      BY <2>1, <3>2 DEF ToLog, TypeOK
    <3> QED BY <3>1, <3>2
  <2> QED BY <2>1, <2>2, <2>3 DEF TypeOK
<1>19. ASSUME NEW sync \in BOOLEAN, WriteReturns(sync)
       PROVE  TypeOK'
  <2> DEFINE e == [id |-> writes, seq |-> last_sequence + 1]
  <2>1. /\ mem' = mem \cup {e} /\ acked' \subseteq acked \cup {e}
        /\ last_sequence' = last_sequence + 1 /\ pc' = "open"
        /\ UNCHANGED <<disk, next_file_number, manifest_file_number, log_number, nowversion, live,
                 opener, opens, writes, edit, logfilenum, imm, bpc, obsolete>>
    BY <1>19 DEF WriteReturns
  <2>2. e \in Entry
    <3>1. writes \in 1..MaxWrites
      BY <1>19, BoundsAssumption DEF WriteReturns, Pending, PhaseInv, TypeOK
    <3> QED BY <3>1 DEF TypeOK, Entry
  <2> HIDE DEF e
  <2> QED BY <2>1, <2>2 DEF TypeOK
<1>20. CASE Rotate
  <2>1. next_file_number \in Nat
    BY DEF TypeOK
  <2>2. \A n \in DOMAIN logs' : logs'[n] \in File(Entry) /\ n \in Nat
    BY <1>20, <2>1, LogsWith, EmptyFile DEF Rotate
  <2> QED BY <1>20, <2>1, <2>2 DEF Rotate, TypeOK
<1>21. CASE FlushBuild
  <2>1. /\ next_file_number \in Nat /\ logfilenum \in Nat /\ last_sequence \in Nat /\ imm \subseteq Entry
    BY DEF TypeOK
  <2>2. \A n \in DOMAIN tables' : tables'[n] \subseteq Entry /\ n \in Nat
    BY <1>21, <2>1, TablesWith DEF FlushBuild
  <2>3. edit' \in Edit
    BY <1>21, <2>1 DEF FlushBuild, Edit
  <2> QED BY <1>21, <2>1, <2>2, <2>3 DEF FlushBuild, TypeOK
<1>22. CASE FlushEdit \/ FlushSync
  <2>1. /\ LogEdit \/ SyncEdit
        /\ bpc \in {"edit", "sync"} /\ bpc' \in {"sync", "install"}
        /\ UNCHANGED <<CURRENT, logs, tables, vset, opener, hist, pc, edit, logfilenum, mem, imm, obsolete>>
    BY <1>22 DEF FlushEdit, FlushSync
  <2>2. \A n \in DOMAIN manifests' : manifests'[n] \in File(Edit) /\ n \in Nat
    BY <2>1, ManifestOpen, EditLogged
  <2> QED BY <2>1, <2>2 DEF TypeOK
<1>23. CASE PowerLoss
  <2>1. PICK c \in Cuts(logs) : logs' = AfterCut(logs, c)
    BY <1>23 DEF PowerLoss
  <2>2. PICK d \in Cuts(manifests) : manifests' = AfterCut(manifests, d)
    BY <1>23 DEF PowerLoss
  <2>3. \A n \in DOMAIN logs' : logs'[n] \in File(Entry) /\ n \in Nat
    <3>1. DOMAIN logs' = DOMAIN logs
      BY <2>1 DEF AfterCut
    <3> QED BY <2>1, <3>1, CutFiles DEF TypeOK, FileInv, CountsUp
  <2>4. \A n \in DOMAIN manifests' : manifests'[n] \in File(Edit) /\ n \in Nat
    <3>1. DOMAIN manifests' = DOMAIN manifests
      BY <2>2 DEF AfterCut
    <3> QED BY <2>2, <3>1, CutFiles DEF TypeOK, FileInv, CountsUp
  <2>5. Volatile("closed") /\ UNCHANGED <<CURRENT, tables, hist>>
    BY <1>23 DEF PowerLoss
  <2> QED BY <2>3, <2>4, <2>5, VolatileType DEF TypeOK, Phases
<1> QED
  BY <1>1, <1>2, <1>3, <1>4, <1>5, <1>6, <1>7, <1>8, <1>9, <1>10, <1>11, <1>12, <1>13,
     <1>14, <1>16, <1>17, <1>18, <1>19, <1>20, <1>21, <1>22, <1>23 DEF Next
-----------------------------------------------------------------------------
(***************************************************************************)
(* The manifests                                                           *)
(***************************************************************************)

\* An edit on its way to a manifest counts further than those that are there.
LEMMA EditFits ==
  ASSUME TypeOK, FileInv, PhaseInv, WrittenInv, SessionInv, pc = "edit" \/ bpc = "edit"
  PROVE  /\ edit.next > manifest_file_number
         /\ \A i \in 1..Len(Manifest.data) : Manifest.data[i].next <= edit.next
<1>1. CASE bpc = "edit"
  <2>1. pc \in InstalledPcs
    BY <1>1 DEF PhaseInv, InstalledPcs, SessionPcs
  <2>2. /\ manifest_file_number \in DOMAIN manifests /\ edit.next = next_file_number
        /\ manifest_file_number < next_file_number /\ Manifest.synced > 0
        /\ Len(Manifest.data) = Manifest.synced
        /\ Manifest.data[Manifest.synced].next <= next_file_number
    BY <1>1, <2>1 DEF SessionInv, DurableEdit
  <2>3. /\ Manifest \in File(Edit) /\ next_file_number \in Nat /\ manifest_file_number \in Nat
        /\ CountsUp(manifest_file_number, Manifest)
    BY <2>2 DEF TypeOK, Manifest, FileInv
  <2>4. Manifest.data \in Seq(Edit) /\ Manifest.synced \in Nat
    BY <2>3 DEF File
  <2>5. \A i \in 1..Len(Manifest.data) : Manifest.data[i] \in Edit
    BY <2>4
  <2>6. \A i \in 1..Len(Manifest.data) : Manifest.data[i].next \in Nat
    BY <2>5 DEF Edit
  <2>7. ASSUME NEW i \in 1..Len(Manifest.data)
        PROVE  Manifest.data[i].next <= edit.next
    <3>1. CASE i = Manifest.synced
      BY <2>2, <3>1
    <3>2. CASE i # Manifest.synced
      <4>1. i < Manifest.synced /\ Manifest.synced \in 1..Len(Manifest.data)
        BY <2>2, <2>4, <3>2
      <4>2. Manifest.data[i].next <= Manifest.data[Manifest.synced].next
        BY <2>3, <4>1 DEF CountsUp
      <4> QED BY <2>2, <2>3, <2>6, <4>1, <4>2
    <3> QED BY <3>1, <3>2
  <2> QED BY <2>2, <2>3, <2>7
<1>2. CASE pc = "edit"
  <2>1. /\ Manifest = Empty /\ edit.next = next_file_number
        /\ manifest_file_number < next_file_number
    BY <1>2 DEF WrittenInv
  <2>2. Len(Manifest.data) = 0 /\ next_file_number \in Nat /\ manifest_file_number \in Nat
    BY <2>1, EmptyFile DEF TypeOK
  <2> QED BY <2>1, <2>2
<1> QED BY <1>1, <1>2

LEMMA LoggedCountsUp ==
  ASSUME TypeOK, FileInv, PhaseInv, WrittenInv, SessionInv, pc = "edit" \/ bpc = "edit"
  PROVE  CountsUp(manifest_file_number, Appended(Manifest, edit))
<1>1. manifest_file_number \in DOMAIN manifests
  BY ManifestOpen
<1>2. /\ Manifest \in File(Edit) /\ edit \in Edit /\ CountsUp(manifest_file_number, Manifest)
      /\ manifest_file_number \in Nat
  BY <1>1 DEF TypeOK, Manifest, FileInv
<1>3. /\ edit.next > manifest_file_number
      /\ \A i \in 1..Len(Manifest.data) : Manifest.data[i].next <= edit.next
  BY EditFits
<1>4. PICK g : g = Appended(Manifest, edit)
  OBVIOUS
<1>5. /\ g.synced = Manifest.synced /\ Len(g.data) = Len(Manifest.data) + 1
      /\ g.data[Len(Manifest.data) + 1] = edit
      /\ \A i \in 1..Len(Manifest.data) : g.data[i] = Manifest.data[i]
  BY <1>2, <1>4, AppendedFile
<1>6. Len(Manifest.data) \in Nat /\ Manifest.synced \in Nat
  BY <1>2 DEF File
<1>7. g.synced <= Len(g.data)
  BY <1>2, <1>5, <1>6 DEF CountsUp
<1>8. \A i \in 1..Len(g.data) : i \in 1..Len(Manifest.data) \/ i = Len(Manifest.data) + 1
  BY <1>5, <1>6
<1>9. \A i \in 1..Len(g.data) : g.data[i].next > manifest_file_number
  BY <1>2, <1>3, <1>5, <1>8 DEF CountsUp
<1>10. ASSUME NEW i \in 1..Len(g.data), NEW j \in 1..Len(g.data), i < j
       PROVE  g.data[i].next <= g.data[j].next
  <2>1. i \in 1..Len(Manifest.data)
    BY <1>5, <1>6, <1>10
  <2>2. CASE j = Len(Manifest.data) + 1
    BY <1>3, <1>5, <2>1, <2>2
  <2>3. CASE j \in 1..Len(Manifest.data)
    BY <1>2, <1>5, <1>10, <2>1, <2>3 DEF CountsUp
  <2> QED BY <1>8, <2>2, <2>3
<1> QED BY <1>4, <1>7, <1>9, <1>10 DEF CountsUp

LEMMA SyncedCountsUp ==
  ASSUME NEW m, NEW f \in File(Edit), CountsUp(m, f)
  PROVE  CountsUp(m, Synced(f))
<1>1. Synced(f).data = f.data /\ Synced(f).synced = Len(f.data)
  BY SyncedFile
<1>2. Len(f.data) \in Nat
  BY DEF File
<1> QED BY <1>1, <1>2 DEF CountsUp

LEMMA ManifestsCountUp ==
  ASSUME FileInv, NEW n, NEW v, CountsUp(n, v), manifests' = With(manifests, n, v)
  PROVE  \A m \in DOMAIN manifests' : CountsUp(m, manifests'[m])
<1>1. /\ DOMAIN manifests' = DOMAIN manifests \cup {n} /\ manifests'[n] = v
      /\ \A m \in DOMAIN manifests : m # n => manifests'[m] = manifests[m]
  BY DEF With
<1>2. ASSUME NEW m \in DOMAIN manifests'
      PROVE  CountsUp(m, manifests'[m])
  <2>1. CASE m = n
    BY <1>1, <2>1
  <2>2. CASE m # n
    <3>1. m \in DOMAIN manifests /\ manifests'[m] = manifests[m]
      BY <1>1, <2>2
    <3>2. CountsUp(m, manifests[m])
      BY <3>1 DEF FileInv
    <3> QED BY <3>1, <3>2
  <2> QED BY <2>1, <2>2
<1> QED BY <1>2

\* A log that is replaced.
LEMMA LogReplaced ==
  ASSUME FileInv, NEW n, NEW v, v.synced <= Len(v.data), logs' = With(logs, n, v)
  PROVE  \A m \in DOMAIN logs' : logs'[m].synced <= Len(logs'[m].data)
<1>1. /\ DOMAIN logs' = DOMAIN logs \cup {n} /\ logs'[n] = v
      /\ \A m \in DOMAIN logs : m # n => logs'[m] = logs[m]
  BY DEF With
<1>2. ASSUME NEW m \in DOMAIN logs'
      PROVE  logs'[m].synced <= Len(logs'[m].data)
  <2>1. CASE m = n
    BY <1>1, <2>1
  <2>2. CASE m # n
    <3>1. m \in DOMAIN logs /\ logs'[m] = logs[m]
      BY <1>1, <2>2
    <3> QED BY <3>1 DEF FileInv
  <2> QED BY <2>1, <2>2
<1> QED BY <1>2

LEMMA FileInit == Init => FileInv
BY DEF Init, FileInv

LEMMA FileStep ==
  ASSUME TypeOK, FileInv, PhaseInv, WrittenInv, SessionInv, [Next]_vars
  PROVE  FileInv'
<1> USE DEF disk
<1> DEFINE MOK == \A m \in DOMAIN manifests' : CountsUp(m, manifests'[m])
           LOK == \A n \in DOMAIN logs' : logs'[n].synced <= Len(logs'[n].data)
<1>1. manifests' = manifests => MOK
  BY DEF FileInv
<1>2. logs' = logs => LOK
  BY DEF FileInv
<1> SUFFICES MOK /\ LOK
  BY DEF FileInv, CountsUp
<1> HIDE DEF MOK, LOK
<1>3. CASE UNCHANGED disk
  BY <1>1, <1>2, <1>3
<1>4. CASE NewDBManifest
  <2>1. PICK e : e = [log |-> 0, next |-> 2, seq |-> 0, files |-> {}]
    OBVIOUS
  <2>2. e \in Edit /\ e.next = 2
    BY <2>1 DEF Edit
  <2>3. PICK g : g = Appended(Empty, e)
    OBVIOUS
  <2>4. g.synced = 0 /\ Len(g.data) = 1 /\ g.data[1] = e
    <3>1. Empty \in File(Edit) /\ Len(Empty.data) = 0 /\ Empty.synced = 0
      BY EmptyFile
    <3>2. PICK f \in File(Edit) : f = Empty
      BY <3>1
    <3>3. /\ Appended(f, e).synced = f.synced
          /\ Len(Appended(f, e).data) = Len(f.data) + 1
          /\ Appended(f, e).data[Len(f.data) + 1] = e
      BY <2>2, AppendedFile
    <3>4. g.synced = f.synced /\ Len(g.data) = Len(f.data) + 1 /\ g.data[Len(f.data) + 1] = e
      BY <2>3, <3>2, <3>3
    <3> QED BY <3>1, <3>2, <3>4
  <2>5. CountsUp(1, g)
    BY <2>2, <2>4 DEF CountsUp
  <2> QED BY <1>2, <1>4, <2>1, <2>3, <2>5, ManifestsCountUp DEF NewDBManifest, MOK
<1>5. CASE NewManifest
  <2>1. CountsUp(manifest_file_number, Empty)
    BY EmptyFile DEF CountsUp
  <2> QED BY <1>2, <1>5, <2>1, ManifestsCountUp DEF NewManifest, MOK
<1>6. CASE ManifestEdit \/ FlushEdit
  <2>1. (pc = "edit" \/ bpc = "edit") /\ logs' = logs
        /\ manifests' = With(manifests, manifest_file_number, Appended(Manifest, edit))
    BY <1>6 DEF ManifestEdit, FlushEdit, LogEdit, Manifest
  <2> QED BY <1>2, <2>1, LoggedCountsUp, ManifestsCountUp DEF MOK
<1>7. CASE ManifestSync \/ FlushSync
  <2>1. (pc = "sync" \/ bpc = "sync") /\ logs' = logs
        /\ manifests' = With(manifests, manifest_file_number, Synced(Manifest))
    BY <1>7 DEF ManifestSync, FlushSync, SyncEdit, Manifest
  <2>2. manifest_file_number \in DOMAIN manifests
    BY <2>1, ManifestOpen
  <2>3. Manifest \in File(Edit) /\ CountsUp(manifest_file_number, Manifest)
    BY <2>2 DEF TypeOK, Manifest, FileInv
  <2>4. CountsUp(manifest_file_number, Synced(Manifest))
    BY <2>3, SyncedCountsUp
  <2> QED BY <1>2, <2>1, <2>4, ManifestsCountUp DEF MOK
<1>8. CASE NewLog \/ Rotate
  <2>1. manifests' = manifests /\ logs' = With(logs, next_file_number, Empty)
    BY <1>8 DEF NewLog, Rotate
  <2>2. LOK
    <3>1. Empty.synced <= Len(Empty.data)
      BY EmptyFile
    <3> QED BY <2>1, <3>1, LogReplaced DEF LOK
  <2> QED BY <1>1, <2>1, <2>2
<1>9. ASSUME NEW f, OpenDelete(f) \/ FlushDelete(f)
      PROVE  MOK /\ LOK
  <2>1. manifests' = manifests /\ DeleteFile(f)
    BY <1>9 DEF OpenDelete, FlushDelete
  <2>2. LOK
    BY <2>1, DeletedFile DEF FileInv, LOK
  <2> QED BY <1>1, <2>1, <2>2
<1>10. ASSUME NEW sync \in BOOLEAN, WriteLog(sync)
       PROVE  MOK /\ LOK
  <2>1. PICK rec : rec = [id |-> writes + 1, seq |-> last_sequence + 1]
    OBVIOUS
  <2>2. manifests' = manifests /\ ToLog(rec, sync)
    BY <1>10, <2>1 DEF WriteLog
  <2>3. LOK
    <3>1. CASE logfilenum \in DOMAIN logs
      <4>1. logs[logfilenum] \in File(Entry)
        BY <3>1 DEF TypeOK
      <4>2. rec \in Entry
        BY <1>10, <2>1, BoundsAssumption DEF WriteLog, TypeOK, Entry
      <4>3. PICK g : g = Appended(logs[logfilenum], rec)
        OBVIOUS
      <4>4. /\ g \in File(Entry) /\ g.synced = logs[logfilenum].synced
            /\ Len(g.data) = Len(logs[logfilenum].data) + 1
        BY <4>1, <4>2, <4>3, AppendedFile
      <4>5. Len(logs[logfilenum].data) \in Nat /\ logs[logfilenum].synced \in Nat
            /\ logs[logfilenum].synced <= Len(logs[logfilenum].data)
        BY <3>1, <4>1 DEF File, FileInv
      <4>6. Synced(g).synced <= Len(Synced(g).data)
        BY <4>4, <4>5, SyncedFile
      <4>7. PICK v : logs' = With(logs, logfilenum, v) /\ v.synced <= Len(v.data)
        BY <2>2, <3>1, <4>3, <4>4, <4>5, <4>6 DEF ToLog
      <4> QED BY <4>7, LogReplaced DEF LOK
    <3>2. CASE logfilenum \notin DOMAIN logs
      BY <1>2, <2>2, <3>2 DEF ToLog
    <3> QED BY <3>1, <3>2
  <2> QED BY <1>1, <2>2, <2>3
<1>11. CASE PowerLoss
  <2>1. PICK c \in Cuts(logs) : logs' = AfterCut(logs, c)
    BY <1>11 DEF PowerLoss
  <2>2. PICK d \in Cuts(manifests) : manifests' = AfterCut(manifests, d)
    BY <1>11 DEF PowerLoss
  <2>3. LOK
    <3>1. DOMAIN logs' = DOMAIN logs
      BY <2>1 DEF AfterCut
    <3>2. \A n \in DOMAIN logs : logs[n] \in File(Entry) /\ logs[n].synced <= Len(logs[n].data)
      BY DEF TypeOK, FileInv
    <3>3. \A n \in DOMAIN logs : logs'[n].synced <= Len(logs'[n].data)
      BY <2>1, <3>2, CutFiles
    <3> QED BY <3>1, <3>3 DEF LOK
  <2>4. MOK
    <3>1. DOMAIN manifests' = DOMAIN manifests
      BY <2>2 DEF AfterCut
    <3>2. \A n \in DOMAIN manifests : manifests[n] \in File(Edit) /\ CountsUp(n, manifests[n])
      BY DEF TypeOK, FileInv
    <3>3. \A n \in DOMAIN manifests : manifests[n].synced <= Len(manifests[n].data)
      BY <3>2 DEF CountsUp
    <3>4. ASSUME NEW n \in DOMAIN manifests
          PROVE  CountsUp(n, manifests'[n])
      <4>1. /\ manifests'[n].synced <= Len(manifests'[n].data)
            /\ Len(manifests'[n].data) <= Len(manifests[n].data)
            /\ manifests'[n] \in File(Edit) /\ manifests[n] \in File(Edit)
            /\ \A i \in 1..Len(manifests'[n].data) : manifests'[n].data[i] = manifests[n].data[i]
        BY <2>2, <3>2, <3>3, CutFiles
      <4>2. Len(manifests'[n].data) \in Nat /\ Len(manifests[n].data) \in Nat
        BY <4>1 DEF File
      <4>3. \A i \in 1..Len(manifests'[n].data) : i \in 1..Len(manifests[n].data)
        BY <4>1, <4>2
      <4> QED BY <3>2, <4>1, <4>3 DEF CountsUp
    <3> QED BY <3>1, <3>4 DEF MOK
  <2> QED BY <2>3, <2>4
<1>12. CASE UNCHANGED vars
  BY <1>3, <1>12 DEF vars
<1>13. CASE \/ Open \/ VersionRecover \/ ListFiles \/ ReplayEnd \/ OpenFails \/ OpenInstall
            \/ OpenReturns \/ FlushInstall \/ Stop \/ \E sync \in BOOLEAN : WriteReturns(sync)
  <2>1. UNCHANGED disk
    BY <1>13 DEF Open, VersionRecover, ListFiles, ReplayEnd, OpenFails, OpenInstall,
                 OpenReturns, FlushInstall, Stop, WriteReturns
  <2> QED BY <1>3, <2>1
<1>14. CASE NewDBCurrent \/ ReplayRecord \/ SetCurrentFile \/ FlushBuild
  <2>1. manifests' = manifests /\ logs' = logs
    BY <1>14 DEF NewDBCurrent, ReplayRecord, SetCurrentFile, FlushBuild
  <2> QED BY <1>1, <1>2, <2>1
<1> QED
  BY <1>4, <1>5, <1>6, <1>7, <1>8, <1>9, <1>10, <1>11, <1>12, <1>13, <1>14 DEF Next
-----------------------------------------------------------------------------
(***************************************************************************)
(* The phases of a life of the process                                     *)
(***************************************************************************)

LEMMA PhaseInit == Init => PhaseInv /\ OpeningInv /\ WrittenInv /\ SessionInv
BY DEF Init, PhaseInv, OpeningInv, WrittenInv, SessionInv, InstalledPcs, SessionPcs, OpeningPcs

\* The steps after which the memory is that of the constructors.
Restart == Open \/ OpenFails \/ Stop \/ PowerLoss

LEMMA Restarted ==
  ASSUME Restart
  PROVE  /\ pc' \in {"closed", "newdb", "versions"} /\ bpc' = "idle" /\ at' = 1
         /\ obsolete' = {} /\ edit' = NoEdit
         /\ CURRENT' = CURRENT /\ tables' = tables
         /\ pc' = "newdb" => CURRENT = 0
         /\ pc' = "versions" => CURRENT # 0
         /\ \/ manifests' = manifests /\ logs' = logs
            \/ PowerLoss
BY DEF Restart, Open, OpenFails, Stop, PowerLoss, Volatile, disk

LEMMA PhaseStep ==
  ASSUME TypeOK, PhaseInv, [Next]_vars
  PROVE  PhaseInv'
<1> USE DEF PhaseInv, OpeningPcs, InstalledPcs, SessionPcs
<1>1. CASE UNCHANGED vars
  BY <1>1 DEF vars, disk, opener, hist
<1>2. CASE Restart
  BY <1>2, Restarted DEF TypeOK
<1>3. CASE NewDBManifest
  BY <1>3 DEF NewDBManifest, opener, hist
<1>4. CASE NewDBCurrent
  BY <1>4 DEF NewDBCurrent, opener, hist
<1>5. CASE VersionRecover
  BY <1>5 DEF VersionRecover, disk, opener, hist
<1>6. CASE ListFiles
  BY <1>6 DEF ListFiles, disk, hist
<1>7. CASE ReplayRecord
  <2>1. /\ pc = "replay" /\ at' = at + 1 /\ at \in Nat
        /\ UNCHANGED <<CURRENT, writes, pc, bpc, obsolete>>
    BY <1>7 DEF ReplayRecord, Replaying, hist, TypeOK
  <2> QED BY <2>1
<1>8. CASE ReplayEnd
  BY <1>8 DEF ReplayEnd, Replaying, disk, hist
<1>9. CASE NewLog
  BY <1>9 DEF NewLog, opener, hist
<1>10. CASE NewManifest
  BY <1>10 DEF NewManifest, opener, hist
<1>11. CASE ManifestEdit
  BY <1>11 DEF ManifestEdit, opener, hist
<1>12. CASE ManifestSync
  BY <1>12 DEF ManifestSync, opener, hist
<1>13. CASE SetCurrentFile
  BY <1>13 DEF SetCurrentFile, opener, hist
<1>14. CASE OpenInstall
  <2>1. pc = "install" /\ pc' = "delete" /\ UNCHANGED <<CURRENT, at, writes, bpc>>
    BY <1>14 DEF OpenInstall, disk, opener, hist
  <2> QED BY <2>1
<1>15. ASSUME NEW f, OpenDelete(f)
       PROVE  PhaseInv'
  <2>1. pc = "delete" /\ UNCHANGED <<CURRENT, at, writes, pc, bpc>>
    BY <1>15 DEF OpenDelete, opener, hist
  <2> QED BY <2>1
<1>16. CASE OpenReturns
  BY <1>16 DEF OpenReturns, disk, opener, hist
<1>17. ASSUME NEW sync \in BOOLEAN, WriteLog(sync)
       PROVE  PhaseInv'
  <2>1. /\ pc = "open" /\ pc' \in {"put", "putsync"} /\ writes' = writes + 1
        /\ writes \in Nat /\ UNCHANGED <<CURRENT, at, bpc, obsolete>>
    BY <1>17, BoundsAssumption DEF WriteLog, Pending, opener, TypeOK
  <2> QED BY <2>1
<1>18. ASSUME NEW sync \in BOOLEAN, WriteReturns(sync)
       PROVE  PhaseInv'
  <2>1. /\ pc \in {"put", "putsync"} /\ pc' = "open"
        /\ UNCHANGED <<CURRENT, at, writes, bpc, obsolete>>
    BY <1>18 DEF WriteReturns, Pending, opener, disk
  <2> QED BY <2>1
<1>19. CASE Rotate
  <2>1. pc = "open" /\ UNCHANGED <<CURRENT, at, writes, pc, obsolete>>
    BY <1>19 DEF Rotate, opener, hist
  <2> QED BY <2>1
<1>20. CASE FlushBuild
  BY <1>20 DEF FlushBuild, opener, hist
<1>21. CASE FlushEdit
  BY <1>21 DEF FlushEdit, opener, hist
<1>22. CASE FlushSync
  BY <1>22 DEF FlushSync, opener, hist
<1>23. CASE FlushInstall
  <2>1. bpc = "install" /\ UNCHANGED <<CURRENT, at, writes, pc>>
    BY <1>23 DEF FlushInstall, disk, opener, hist
  <2> QED BY <2>1
<1>24. ASSUME NEW f, FlushDelete(f)
       PROVE  PhaseInv'
  <2>1. bpc = "delete" /\ UNCHANGED <<CURRENT, at, writes, pc>>
    BY <1>24 DEF FlushDelete, opener, hist
  <2> QED BY <2>1
<1> QED
  BY <1>1, <1>2, <1>3, <1>4, <1>5, <1>6, <1>7, <1>8, <1>9, <1>10, <1>11, <1>12, <1>13,
     <1>14, <1>15, <1>16, <1>17, <1>18, <1>19, <1>20, <1>21, <1>22, <1>23, <1>24
  DEF Next, Restart

-----------------------------------------------------------------------------
(***************************************************************************)
(* Opening: the manifest that CURRENT names, and the one to come           *)
(***************************************************************************)

\* The new manifest's number is above that of the manifest CURRENT names.
LEMMA NumberAbove ==
  ASSUME TypeOK, FileInv, Edits # <<>>
  PROVE  CURRENT \in DOMAIN manifests /\ Edits[Len(Edits)].next > CURRENT
<1>1. CURRENT \in DOMAIN manifests /\ Edits = manifests[CURRENT].data
  BY DEF Edits
<1>2. CountsUp(CURRENT, manifests[CURRENT])
  BY <1>1 DEF FileInv
<1>3. Len(Edits) \in 1..Len(Edits)
  BY LastEdit
<1> QED BY <1>1, <1>2, <1>3 DEF CountsUp

\* Opening writes to a manifest of its own.
LEMMA CurrentKept ==
  ASSUME NEW n, NEW v, n # CURRENT, CURRENT' = CURRENT, manifests' = With(manifests, n, v)
  PROVE  /\ Edits' = Edits
         /\ CURRENT \in DOMAIN manifests' <=> CURRENT \in DOMAIN manifests
         /\ CURRENT \in DOMAIN manifests => manifests'[CURRENT] = manifests[CURRENT]
<1>1. /\ DOMAIN manifests' = DOMAIN manifests \cup {n}
      /\ \A m \in DOMAIN manifests : m # n => manifests'[m] = manifests[m]
  BY DEF With
<1> QED BY <1>1 DEF Edits

LEMMA OpeningStep ==
  ASSUME TypeOK, FileInv, PhaseInv, OpeningInv, WrittenInv, [Next]_vars
  PROVE  OpeningInv'
<1> SUFFICES ASSUME pc' \in OpeningPcs
             PROVE  (/\ Edits # <<>>
                     /\ manifest_file_number = Edits[Len(Edits)].next
                     /\ manifest_file_number < next_file_number)'
  BY DEF OpeningInv
<1>0. next_file_number \in Nat /\ manifest_file_number \in Nat /\ CURRENT \in Nat
  BY DEF TypeOK
<1>1. CASE /\ pc \in OpeningPcs /\ Edits' = Edits /\ manifest_file_number' = manifest_file_number
           /\ next_file_number' \in {next_file_number, next_file_number + 1}
  BY <1>0, <1>1 DEF OpeningInv
<1>2. CASE VersionRecover
  <2>1. /\ Edits # <<>> /\ Edits' = Edits /\ Last(Edits) = Edits[Len(Edits)]
        /\ Last(Edits).next \in Nat
    BY <1>2, LastEdit DEF VersionRecover, disk, Edits, Edit
  <2> HIDE DEF Edits
  <2>2. manifest_file_number' = Last(Edits).next /\ next_file_number' = Last(Edits).next + 1
    BY <1>2 DEF VersionRecover
  <2> QED BY <2>1, <2>2
<1>3. CASE ListFiles \/ ReplayEnd
  BY <1>1, <1>3 DEF ListFiles, ReplayEnd, Replaying, disk, vset, Edits, OpeningPcs
<1>4. CASE ReplayRecord
  <2>1. /\ pc = "replay" /\ UNCHANGED <<CURRENT, manifests, manifest_file_number>>
        /\ next_file_number' \in {next_file_number, next_file_number + 1}
    BY <1>4 DEF ReplayRecord, Replaying
  <2> QED BY <1>1, <2>1 DEF Edits, OpeningPcs
<1>5. CASE NewLog
  BY <1>1, <1>5 DEF NewLog, Edits, OpeningPcs
<1>6. CASE NewManifest \/ ManifestEdit \/ ManifestSync
  <2>1. /\ pc \in OpeningPcs /\ CURRENT' = CURRENT
        /\ UNCHANGED <<manifest_file_number, next_file_number>>
        /\ \E v : manifests' = With(manifests, manifest_file_number, v)
    BY <1>6 DEF NewManifest, ManifestEdit, ManifestSync, LogEdit, SyncEdit, vset, OpeningPcs
  <2>2. manifest_file_number # CURRENT
    BY <1>0, <2>1, NumberAbove DEF OpeningInv
  <2>3. Edits' = Edits
    BY <2>1, <2>2, CurrentKept
  <2> QED BY <1>1, <2>1, <2>3
<1>7. CASE UNCHANGED vars
  BY <1>1, <1>7 DEF vars, disk, vset, Edits
<1>8. CASE \/ NewDBManifest \/ NewDBCurrent \/ SetCurrentFile \/ OpenInstall \/ OpenReturns
           \/ \E f : OpenDelete(f)
  BY <1>8 DEF NewDBManifest, NewDBCurrent, SetCurrentFile, OpenInstall, OpenReturns,
              OpenDelete, OpeningPcs
<1>9. CASE Restart
  BY <1>9, Restarted DEF OpeningPcs
<1>10. CASE Rotate \/ \E sync \in BOOLEAN : WriteLog(sync) \/ WriteReturns(sync)
  BY <1>10 DEF Rotate, WriteLog, WriteReturns, Pending, OpeningPcs
<1>11. CASE \/ FlushBuild \/ FlushEdit \/ FlushSync \/ FlushInstall
            \/ \E f : FlushDelete(f)
  <2>1. bpc # "idle" /\ pc' = pc
    BY <1>11 DEF FlushBuild, FlushEdit, FlushSync, FlushInstall, FlushDelete
  <2> QED BY <2>1 DEF PhaseInv, OpeningPcs, SessionPcs
<1> QED
  BY <1>2, <1>3, <1>4, <1>5, <1>6, <1>7, <1>8, <1>9, <1>10, <1>11 DEF Next, Restart

LEMMA WrittenStep ==
  ASSUME TypeOK, FileInv, PhaseInv, OpeningInv, WrittenInv, [Next]_vars
  PROVE  WrittenInv'
<1>0. /\ next_file_number \in Nat /\ manifest_file_number \in Nat /\ CURRENT \in Nat
      /\ edit \in Edit /\ logfilenum \in Nat
  BY DEF TypeOK
<1>1. CASE pc' \notin {"manifest", "edit", "sync", "current", "install"}
  BY <1>1 DEF WrittenInv
<1>2. CASE UNCHANGED vars
  BY <1>2 DEF vars, disk, vset, WrittenInv, Manifest
<1>3. CASE NewLog
  <2>1. /\ pc' = "manifest" /\ logfilenum' = next_file_number
        /\ next_file_number' = next_file_number + 1 /\ edit'.log = next_file_number
    BY <1>0, <1>3 DEF NewLog, Edit
  <2> QED BY <1>0, <2>1 DEF WrittenInv
<1>4. CASE NewManifest
  <2>1. /\ pc = "manifest" /\ pc' = "edit"
        /\ manifests' = With(manifests, manifest_file_number, Empty)
        /\ UNCHANGED <<manifest_file_number, next_file_number, logfilenum>>
        /\ edit'.next = next_file_number /\ edit'.log = edit.log
    BY <1>0, <1>4 DEF NewManifest, vset, Edit
  <2>2. manifest_file_number \in DOMAIN manifests' /\ manifests'[manifest_file_number] = Empty
    BY <2>1 DEF With
  <2>3. manifest_file_number < next_file_number
    BY <2>1 DEF OpeningInv, OpeningPcs
  <2> QED BY <2>1, <2>2, <2>3 DEF WrittenInv, Manifest
<1>5. CASE ManifestEdit
  <2>1. /\ pc = "edit" /\ pc' = "sync"
        /\ manifests' = With(manifests, manifest_file_number, Appended(Manifest, edit))
        /\ UNCHANGED <<manifest_file_number, next_file_number, logfilenum, edit>>
    BY <1>5 DEF ManifestEdit, LogEdit, vset, Manifest
  <2>2. Manifest = Empty
    BY <2>1 DEF WrittenInv
  <2>3. Appended(Empty, edit) = [data |-> <<edit>>, synced |-> 0]
    <3>1. PICK d : d = Append(<<>>, edit)
      OBVIOUS
    <3>2. d = <<edit>>
      BY <3>1
    <3> QED BY <3>1, <3>2 DEF Appended, Empty
  <2>4. /\ manifest_file_number \in DOMAIN manifests'
        /\ manifests'[manifest_file_number] = Appended(Empty, edit)
    BY <2>1, <2>2 DEF With
  <2> QED BY <2>1, <2>3, <2>4 DEF WrittenInv, Manifest
<1>6. CASE ManifestSync
  <2>1. /\ pc = "sync" /\ pc' = "current"
        /\ manifests' = With(manifests, manifest_file_number, Synced(Manifest))
        /\ UNCHANGED <<manifest_file_number, next_file_number, logfilenum, edit>>
    BY <1>6 DEF ManifestSync, SyncEdit, vset, Manifest
  <2>2. Manifest = [data |-> <<edit>>, synced |-> 0]
    BY <2>1 DEF WrittenInv
  <2>3. Synced(Manifest) = [data |-> <<edit>>, synced |-> 1]
    BY <2>2 DEF Synced
  <2>4. /\ manifest_file_number \in DOMAIN manifests'
        /\ manifests'[manifest_file_number] = Synced(Manifest)
    BY <2>1 DEF With
  <2> QED BY <2>1, <2>3, <2>4 DEF WrittenInv, Manifest
<1>7. CASE SetCurrentFile
  <2>1. /\ pc = "current" /\ pc' = "install" /\ CURRENT' = manifest_file_number
        /\ UNCHANGED <<manifests, manifest_file_number, next_file_number, logfilenum, edit>>
    BY <1>7 DEF SetCurrentFile, vset
  <2>2. manifest_file_number > CURRENT /\ CURRENT > 0
    BY <2>1, NumberAbove DEF OpeningInv, PhaseInv, OpeningPcs
  <2> QED BY <1>0, <2>1, <2>2 DEF WrittenInv, Manifest
<1>8. CASE \/ NewDBManifest \/ NewDBCurrent \/ VersionRecover \/ ListFiles
           \/ ReplayRecord \/ ReplayEnd \/ OpenInstall \/ OpenReturns
           \/ \E f : OpenDelete(f)
  BY <1>1, <1>8 DEF NewDBManifest, NewDBCurrent, VersionRecover, ListFiles, ReplayRecord,
     ReplayEnd, Replaying, OpenInstall, OpenReturns, OpenDelete
<1>9. CASE Restart
  BY <1>1, <1>9, Restarted
<1>10. CASE Rotate \/ \E sync \in BOOLEAN : WriteLog(sync) \/ WriteReturns(sync)
  BY <1>1, <1>10 DEF Rotate, WriteLog, WriteReturns, Pending
<1>11. CASE \/ FlushBuild \/ FlushEdit \/ FlushSync \/ FlushInstall
            \/ \E f : FlushDelete(f)
  <2>1. bpc # "idle" /\ pc' = pc
    BY <1>11 DEF FlushBuild, FlushEdit, FlushSync, FlushInstall, FlushDelete
  <2> QED BY <1>1, <2>1 DEF PhaseInv, SessionPcs
<1> QED
  BY <1>2, <1>3, <1>4, <1>5, <1>6, <1>7, <1>8, <1>9, <1>10, <1>11 DEF Next, Restart
-----------------------------------------------------------------------------
(***************************************************************************)
(* The session and its flush                                               *)
(***************************************************************************)

\* The flush runs in a session.
LEMMA InSession ==
  ASSUME PhaseInv, bpc # "idle"
  PROVE  pc \in SessionPcs /\ pc \in InstalledPcs
BY DEF PhaseInv, SessionPcs, InstalledPcs

\* The values that SessionInv compares.
LEMMA DurableType ==
  ASSUME TypeOK, FileInv, manifest_file_number \in DOMAIN manifests, Manifest.synced > 0
  PROVE  /\ Manifest \in File(Edit) /\ Manifest.data \in Seq(Edit) /\ Manifest.synced \in Nat
         /\ Manifest.synced \in 1..Len(Manifest.data) /\ Len(Manifest.data) \in Nat
         /\ DurableEdit \in Edit /\ DurableEdit.next \in Nat /\ DurableEdit.log \in Nat
<1>1. Manifest \in File(Edit) /\ CountsUp(manifest_file_number, Manifest)
  BY DEF TypeOK, FileInv, Manifest
<1>2. Manifest.data \in Seq(Edit) /\ Manifest.synced \in Nat
  BY <1>1 DEF File
<1>3. Manifest.synced \in 1..Len(Manifest.data) /\ Len(Manifest.data) \in Nat
  BY <1>1, <1>2 DEF CountsUp
<1>4. DurableEdit \in Edit
  BY <1>2, <1>3 DEF DurableEdit
<1> QED BY <1>1, <1>2, <1>3, <1>4 DEF Edit

\* The manifest after an edit of the flush.
LEMMA EditAppended ==
  ASSUME TypeOK, FileInv, manifest_file_number \in DOMAIN manifests,
         LogEdit, manifest_file_number' = manifest_file_number
  PROVE  /\ manifest_file_number \in DOMAIN manifests'
         /\ Manifest'.synced = Manifest.synced
         /\ Len(Manifest'.data) = Len(Manifest.data) + 1
         /\ Manifest'.data[Len(Manifest.data) + 1] = edit
         /\ \A i \in 1..Len(Manifest.data) : Manifest'.data[i] = Manifest.data[i]
<1>1. edit \in Edit
  BY DEF TypeOK
<1>2. PICK m \in File(Edit) : m = Manifest
  BY DEF TypeOK, Manifest
<1>3. PICK g : g = Appended(m, edit)
  OBVIOUS
<1>4. /\ g.synced = m.synced /\ Len(g.data) = Len(m.data) + 1
      /\ g.data[Len(m.data) + 1] = edit
      /\ \A i \in 1..Len(m.data) : g.data[i] = m.data[i]
  BY <1>1, <1>3, AppendedFile
<1>5. manifest_file_number \in DOMAIN manifests' /\ Manifest' = g
  BY <1>2, <1>3 DEF With, LogEdit, Manifest
<1> HIDE DEF Manifest
<1> QED BY <1>2, <1>4, <1>5

LEMMA SessionStep ==
  ASSUME TypeOK, FileInv, PhaseInv, OpeningInv, WrittenInv, SessionInv, [Next]_vars
  PROVE  SessionInv'
<1>0. /\ next_file_number \in Nat /\ manifest_file_number \in Nat /\ CURRENT \in Nat
      /\ edit \in Edit /\ logfilenum \in Nat
  BY DEF TypeOK
<1>1. CASE pc' \notin InstalledPcs
  BY <1>1 DEF SessionInv
<1>2. CASE /\ pc \in InstalledPcs /\ UNCHANGED <<CURRENT, manifests>>
           /\ UNCHANGED <<manifest_file_number, next_file_number, log_number>>
           /\ UNCHANGED <<logfilenum, edit, imm>>
           /\ bpc' = bpc \/ (bpc = "delete" /\ bpc' = "over")
  BY <1>2 DEF SessionInv, DurableEdit, Manifest
<1>3. CASE OpenInstall
  <2>1. /\ pc = "install" /\ Install /\ UNCHANGED <<CURRENT, manifests, manifest_file_number>>
        /\ UNCHANGED <<next_file_number, logfilenum, bpc>>
    BY <1>3 DEF OpenInstall, disk
  <2>2. bpc = "idle"
    BY <2>1 DEF PhaseInv, SessionPcs
  <2>3. /\ manifest_file_number \in DOMAIN manifests
        /\ Manifest = [data |-> <<edit>>, synced |-> 1]
        /\ edit.next = next_file_number /\ manifest_file_number < next_file_number
        /\ edit.log = logfilenum /\ logfilenum < next_file_number
        /\ CURRENT = manifest_file_number /\ CURRENT > 1
    BY <2>1 DEF WrittenInv
  <2>4. Manifest.synced = 1 /\ Len(Manifest.data) = 1 /\ DurableEdit = edit
    BY <2>3 DEF DurableEdit
  <2>5. edit' = NoEdit /\ log_number' = edit.log
    BY <2>1 DEF Install
  <2>6. Manifest' = Manifest /\ DurableEdit' = DurableEdit
    BY <2>1 DEF Manifest, DurableEdit
  <2> HIDE DEF Manifest, DurableEdit
  <2> QED BY <1>0, <2>1, <2>2, <2>3, <2>4, <2>5, <2>6 DEF SessionInv
<1>4. ASSUME NEW f, OpenDelete(f)
      PROVE  SessionInv'
  BY <1>2, <1>4 DEF OpenDelete, vset, InstalledPcs
<1>5. CASE OpenReturns
  BY <1>2, <1>5 DEF OpenReturns, disk, vset, InstalledPcs
<1>6. ASSUME NEW sync \in BOOLEAN, WriteLog(sync) \/ WriteReturns(sync)
      PROVE  SessionInv'
  BY <1>2, <1>6 DEF WriteLog, WriteReturns, Pending, disk, vset, InstalledPcs, SessionPcs
<1>7. CASE Rotate
  <2>1. /\ pc = "open" /\ pc \in InstalledPcs /\ imm = {} /\ imm' = mem
        /\ Cardinality(mem) > WriteBuffer
        /\ logfilenum' = next_file_number /\ next_file_number' = next_file_number + 1
        /\ bpc' = IF bpc = "idle" THEN "build" ELSE bpc
        /\ UNCHANGED <<CURRENT, manifests, manifest_file_number, log_number, edit>>
    BY <1>7 DEF Rotate, InstalledPcs, SessionPcs
  <2>2. mem # {}
    BY <2>1, FS_EmptySet, BoundsAssumption
  <2>3. bpc' \notin {"edit", "sync", "install"} /\ bpc \notin {"edit", "sync", "install"}
    BY <2>1 DEF SessionInv
  <2>4. /\ CURRENT = manifest_file_number /\ CURRENT > 1
        /\ manifest_file_number \in DOMAIN manifests /\ manifest_file_number < next_file_number
        /\ Manifest.synced > 0 /\ Len(Manifest.data) = Manifest.synced
        /\ edit = NoEdit /\ log_number = DurableEdit.log
        /\ DurableEdit.next = next_file_number
    BY <2>1, <2>3 DEF SessionInv
  <2>5. Manifest' = Manifest /\ DurableEdit' = DurableEdit
    BY <2>1 DEF Manifest, DurableEdit
  <2> HIDE DEF Manifest, DurableEdit
  <2> QED BY <1>0, <2>1, <2>2, <2>3, <2>4, <2>5 DEF SessionInv
<1>8. CASE FlushBuild
  <2>1. /\ bpc = "build" /\ bpc' = "edit" /\ next_file_number' = next_file_number + 1
        /\ edit'.next = next_file_number + 1
        /\ UNCHANGED <<CURRENT, manifests, manifest_file_number, log_number, logfilenum, imm>>
    BY <1>8 DEF FlushBuild
  <2>2. pc \in InstalledPcs
    BY <2>1, InSession
  <2>3. /\ CURRENT = manifest_file_number /\ CURRENT > 1
        /\ manifest_file_number \in DOMAIN manifests /\ manifest_file_number < next_file_number
        /\ Manifest.synced > 0 /\ Len(Manifest.data) = Manifest.synced
        /\ log_number = DurableEdit.log /\ imm # {}
        /\ logfilenum <= DurableEdit.next /\ logfilenum < next_file_number
        /\ DurableEdit.next <= next_file_number
    BY <2>1, <2>2 DEF SessionInv
  <2>4. Manifest' = Manifest /\ DurableEdit' = DurableEdit
    BY <2>1 DEF Manifest, DurableEdit
  <2>5. DurableEdit.next \in Nat
    BY <2>3, DurableType
  <2> HIDE DEF Manifest, DurableEdit
  <2> QED BY <1>0, <2>1, <2>3, <2>4, <2>5 DEF SessionInv
<1>9. CASE FlushEdit
  <2>1. /\ bpc = "edit" /\ bpc' = "sync"
        /\ manifests' = With(manifests, manifest_file_number, Appended(Manifest, edit))
        /\ UNCHANGED <<CURRENT, manifest_file_number, next_file_number, log_number>>
        /\ UNCHANGED <<logfilenum, imm, edit>>
    BY <1>9 DEF FlushEdit, LogEdit, vset, Manifest
  <2>2. pc \in InstalledPcs
    BY <2>1, InSession
  <2>3. /\ CURRENT = manifest_file_number /\ CURRENT > 1
        /\ manifest_file_number \in DOMAIN manifests /\ manifest_file_number < next_file_number
        /\ Manifest.synced > 0 /\ Len(Manifest.data) = Manifest.synced
        /\ log_number = DurableEdit.log /\ imm # {} /\ edit.next = next_file_number
        /\ logfilenum <= DurableEdit.next /\ logfilenum < next_file_number
        /\ DurableEdit.next <= next_file_number
    BY <2>1, <2>2 DEF SessionInv
  <2>4. /\ Manifest \in File(Edit) /\ Manifest.synced \in 1..Len(Manifest.data)
        /\ Manifest.synced \in Nat
    BY <2>3, DurableType
  <2>5. /\ manifest_file_number \in DOMAIN manifests'
        /\ Manifest'.synced = Manifest.synced
        /\ Len(Manifest'.data) = Len(Manifest.data) + 1
        /\ Manifest'.data[Len(Manifest.data) + 1] = edit
        /\ \A i \in 1..Len(Manifest.data) : Manifest'.data[i] = Manifest.data[i]
    BY <1>9, <2>1, <2>3, EditAppended DEF FlushEdit
  <2>6. DurableEdit' = DurableEdit
    BY <2>4, <2>5 DEF DurableEdit
  <2> HIDE DEF Manifest, DurableEdit
  <2> QED BY <1>0, <2>1, <2>3, <2>4, <2>5, <2>6 DEF SessionInv
<1>10. CASE FlushSync
  <2>1. /\ bpc = "sync" /\ bpc' = "install"
        /\ manifests' = With(manifests, manifest_file_number, Synced(Manifest))
        /\ UNCHANGED <<CURRENT, manifest_file_number, next_file_number>>
        /\ UNCHANGED <<logfilenum, imm, edit>>
    BY <1>10 DEF FlushSync, SyncEdit, vset, Manifest
  <2>2. pc \in InstalledPcs
    BY <2>1, InSession
  <2>3. /\ CURRENT = manifest_file_number /\ CURRENT > 1
        /\ manifest_file_number \in DOMAIN manifests /\ manifest_file_number < next_file_number
        /\ Manifest.synced > 0 /\ Manifest.data[Len(Manifest.data)] = edit
        /\ imm # {} /\ edit.next = next_file_number
        /\ logfilenum < next_file_number
    BY <2>1, <2>2 DEF SessionInv
  <2>4. /\ Manifest \in File(Edit) /\ Manifest.synced \in 1..Len(Manifest.data)
        /\ Len(Manifest.data) \in Nat
    BY <2>3, DurableType
  <2>5. manifest_file_number \in DOMAIN manifests' /\ Manifest' = Synced(Manifest)
    BY <2>1 DEF With, Manifest
  <2>6. Manifest'.data = Manifest.data /\ Manifest'.synced = Len(Manifest.data)
    BY <2>4, <2>5, SyncedFile
  <2>7. DurableEdit' = edit
    BY <2>3, <2>6 DEF DurableEdit
  <2> HIDE DEF Manifest, DurableEdit
  <2> QED BY <1>0, <2>1, <2>3, <2>4, <2>5, <2>6, <2>7 DEF SessionInv
<1>11. CASE FlushInstall
  <2>1. /\ bpc = "install" /\ bpc' = "delete" /\ imm' = {} /\ Install
        /\ UNCHANGED <<CURRENT, manifests, manifest_file_number, next_file_number>>
        /\ logfilenum' = logfilenum
    BY <1>11 DEF FlushInstall, disk
  <2>2. pc \in InstalledPcs
    BY <2>1, InSession
  <2>3. edit' = NoEdit /\ log_number' = edit.log
    BY <2>1 DEF Install
  <2>4. /\ CURRENT = manifest_file_number /\ CURRENT > 1
        /\ manifest_file_number \in DOMAIN manifests /\ manifest_file_number < next_file_number
        /\ Manifest.synced > 0 /\ Len(Manifest.data) = Manifest.synced
        /\ Manifest.data[Len(Manifest.data)] = edit /\ edit.next = next_file_number
        /\ logfilenum <= DurableEdit.next /\ logfilenum < next_file_number
        /\ DurableEdit.next <= next_file_number
    BY <2>1, <2>2 DEF SessionInv
  <2>5. DurableEdit = edit
    BY <2>4 DEF DurableEdit
  <2>6. Manifest' = Manifest /\ DurableEdit' = DurableEdit
    BY <2>1 DEF Manifest, DurableEdit
  <2> HIDE DEF Manifest, DurableEdit
  <2> QED BY <1>0, <2>1, <2>3, <2>4, <2>5, <2>6 DEF SessionInv
<1>12. ASSUME NEW f, FlushDelete(f)
       PROVE  SessionInv'
  <2>1. pc \in InstalledPcs
    BY <1>12, InSession DEF FlushDelete
  <2> QED BY <1>2, <1>12, <2>1 DEF FlushDelete, vset
<1>13. CASE UNCHANGED vars
  BY <1>1, <1>2, <1>13 DEF vars, disk, vset
<1>14. CASE Restart
  BY <1>1, <1>14, Restarted DEF InstalledPcs, SessionPcs
<1>15. CASE \/ NewDBManifest \/ NewDBCurrent \/ VersionRecover \/ ListFiles
            \/ ReplayRecord \/ ReplayEnd \/ NewLog \/ NewManifest \/ ManifestEdit
            \/ ManifestSync \/ SetCurrentFile
  BY <1>1, <1>15 DEF NewDBManifest, NewDBCurrent, VersionRecover, ListFiles, ReplayRecord,
     ReplayEnd, Replaying, NewLog, NewManifest, ManifestEdit, ManifestSync, SetCurrentFile,
     InstalledPcs, SessionPcs
<1> QED
  BY <1>3, <1>4, <1>5, <1>6, <1>7, <1>8, <1>9, <1>10, <1>11, <1>12, <1>13, <1>14, <1>15
  DEF Next, Restart

LEMMA CompleteStep ==
  ASSUME TypeOK, FileInv, PhaseInv, OpeningInv, WrittenInv, CurrentComplete, [Next]_vars,
         WrittenInv', SessionInv'
  PROVE  CurrentComplete'
<1>0. manifest_file_number \in Nat /\ CURRENT \in Nat
  BY DEF TypeOK
<1>1. CASE pc' \in InstalledPcs
  BY <1>1 DEF SessionInv, CurrentComplete, Manifest
<1>2. CASE pc' = "install"
  BY <1>2 DEF WrittenInv, CurrentComplete, Manifest
<1>3. CASE UNCHANGED <<CURRENT, manifests>>
  BY <1>3 DEF CurrentComplete
<1>4. CASE NewDBManifest \/ NewDBCurrent
  <2>1. CURRENT' \in {0, 1}
    BY <1>4 DEF NewDBManifest, NewDBCurrent, PhaseInv
  <2> QED BY <2>1 DEF CurrentComplete
<1>5. CASE NewManifest \/ ManifestEdit \/ ManifestSync
  <2>1. /\ pc \in OpeningPcs /\ CURRENT' = CURRENT
        /\ \E v : manifests' = With(manifests, manifest_file_number, v)
    BY <1>5 DEF NewManifest, ManifestEdit, ManifestSync, LogEdit, SyncEdit, OpeningPcs
  <2>2. manifest_file_number # CURRENT
    BY <1>0, <2>1, NumberAbove DEF OpeningInv
  <2>3. CURRENT \in DOMAIN manifests =>
          CURRENT \in DOMAIN manifests' /\ manifests'[CURRENT] = manifests[CURRENT]
    BY <2>1, <2>2, CurrentKept
  <2> QED BY <2>1, <2>3 DEF CurrentComplete
<1>6. CASE PowerLoss
  <2>1. PICK d \in Cuts(manifests) : manifests' = AfterCut(manifests, d)
    BY <1>6 DEF PowerLoss
  <2>2. CURRENT' = CURRENT
    BY <1>6 DEF PowerLoss
  <2>3. \A n \in DOMAIN manifests : /\ manifests[n] \in File(Edit)
                                    /\ manifests[n].synced <= Len(manifests[n].data)
    BY DEF TypeOK, FileInv, CountsUp
  <2>4. \A n \in DOMAIN manifests : /\ n \in DOMAIN manifests'
                                    /\ manifests'[n].synced = manifests[n].synced
    BY <2>1, <2>3, CutFiles
  <2> QED BY <2>2, <2>4 DEF CurrentComplete
<1>7. CASE Restart
  BY <1>3, <1>6, <1>7, Restarted
<1>8. CASE VersionRecover \/ ListFiles \/ ReplayRecord \/ ReplayEnd \/ NewLog \/ UNCHANGED vars
  BY <1>3, <1>8 DEF VersionRecover, ListFiles, ReplayRecord, ReplayEnd, NewLog, vars, disk
<1>9. CASE SetCurrentFile
  BY <1>2, <1>9 DEF SetCurrentFile
<1>10. CASE OpenInstall \/ OpenReturns \/ \E f : OpenDelete(f)
  BY <1>1, <1>10 DEF OpenInstall, OpenReturns, OpenDelete, InstalledPcs, SessionPcs
<1>11. CASE Rotate \/ \E sync \in BOOLEAN : WriteLog(sync) \/ WriteReturns(sync)
  BY <1>3, <1>11 DEF Rotate, WriteLog, WriteReturns, disk
<1>12. CASE \/ FlushBuild \/ FlushEdit \/ FlushSync \/ FlushInstall
            \/ \E f : FlushDelete(f)
  <2>1. bpc # "idle" /\ pc' = pc
    BY <1>12 DEF FlushBuild, FlushEdit, FlushSync, FlushInstall, FlushDelete
  <2> QED BY <1>1, <2>1, InSession
<1> QED
  BY <1>4, <1>5, <1>7, <1>8, <1>9, <1>10, <1>11, <1>12 DEF Next, Restart
-----------------------------------------------------------------------------
(***************************************************************************)
(* The logs                                                                *)
(***************************************************************************)

\* Only a call of Write in a session syncs a log; nothing is synced by halves.
LEMMA SyncedLogsStep ==
  ASSUME TypeOK, FileInv, [Next]_vars
  PROVE  \/ SyncedLogs' \subseteq SyncedLogs
         \/ /\ SyncedLogs' \subseteq SyncedLogs \cup {logfilenum}
            /\ pc = "open" /\ UNCHANGED <<CURRENT, manifests, next_file_number>>
<1>1. CASE logs' = logs
  BY <1>1 DEF SyncedLogs
<1>2. CASE NewLog \/ Rotate
  <2>1. logs' = With(logs, next_file_number, Empty)
    BY <1>2 DEF NewLog, Rotate
  <2>2. /\ DOMAIN logs' = DOMAIN logs \cup {next_file_number}
        /\ logs'[next_file_number] = Empty
        /\ \A m \in DOMAIN logs : m # next_file_number => logs'[m] = logs[m]
    BY <2>1 DEF With
  <2>3. Empty.synced = 0
    BY DEF Empty
  <2> HIDE DEF Empty
  <2> QED BY <2>2, <2>3 DEF SyncedLogs
<1>3. ASSUME NEW f, OpenDelete(f) \/ FlushDelete(f)
      PROVE  SyncedLogs' \subseteq SyncedLogs
  <2>1. DeleteFile(f)
    BY <1>3 DEF OpenDelete, FlushDelete
  <2> QED BY <2>1, DeletedFile DEF SyncedLogs
<1>4. ASSUME NEW sync \in BOOLEAN, WriteLog(sync)
      PROVE  /\ SyncedLogs' \subseteq SyncedLogs \cup {logfilenum}
             /\ pc = "open" /\ UNCHANGED <<CURRENT, manifests, next_file_number>>
  <2>1. PICK rec : rec = [id |-> writes + 1, seq |-> last_sequence + 1]
    OBVIOUS
  <2>2. pc = "open" /\ UNCHANGED <<CURRENT, manifests, next_file_number>> /\ ToLog(rec, sync)
    BY <1>4, <2>1 DEF WriteLog, vset
  <2>3. CASE logfilenum \in DOMAIN logs
    <3>1. \E v : logs' = With(logs, logfilenum, v)
      BY <2>2, <2>3 DEF ToLog
    <3>2. /\ DOMAIN logs' = DOMAIN logs \cup {logfilenum}
          /\ \A m \in DOMAIN logs : m # logfilenum => logs'[m] = logs[m]
      BY <3>1 DEF With
    <3> QED BY <2>2, <3>2 DEF SyncedLogs
  <2>4. CASE logfilenum \notin DOMAIN logs
    BY <2>2, <2>4 DEF ToLog, SyncedLogs
  <2> QED BY <2>3, <2>4
<1>5. CASE PowerLoss
  <2>1. PICK c \in Cuts(logs) : logs' = AfterCut(logs, c)
    BY <1>5 DEF PowerLoss
  <2>2. DOMAIN logs' = DOMAIN logs
    BY <2>1 DEF AfterCut
  <2>3. \A n \in DOMAIN logs : logs[n] \in File(Entry) /\ logs[n].synced <= Len(logs[n].data)
    BY DEF TypeOK, FileInv
  <2>4. \A n \in DOMAIN logs : logs'[n].synced = logs[n].synced
    BY <2>1, <2>3, CutFiles
  <2> QED BY <2>2, <2>4 DEF SyncedLogs
<1>6. CASE Restart
  BY <1>1, <1>5, <1>6, Restarted
<1>7. CASE \/ NewDBManifest \/ NewDBCurrent \/ VersionRecover \/ ListFiles \/ ReplayRecord
           \/ ReplayEnd \/ NewManifest \/ ManifestEdit \/ ManifestSync \/ SetCurrentFile
           \/ OpenInstall \/ OpenReturns \/ FlushBuild \/ FlushEdit \/ FlushSync
           \/ FlushInstall \/ (\E sync \in BOOLEAN : WriteReturns(sync)) \/ UNCHANGED vars
  <2>1. logs' = logs
    BY <1>7 DEF NewDBManifest, NewDBCurrent, VersionRecover, ListFiles, ReplayRecord,
       ReplayEnd, NewManifest, ManifestEdit, ManifestSync, SetCurrentFile, OpenInstall,
       OpenReturns, FlushBuild, FlushEdit, FlushSync, FlushInstall, WriteReturns, vars, disk
  <2> QED BY <1>1, <2>1
<1> QED
  BY <1>2, <1>3, <1>4, <1>6, <1>7 DEF Next, Restart

\* What the next Open is sure to pass over, in numbers.
LEMMA NextType ==
  ASSUME TypeOK, FileInv, CurrentComplete, CURRENT > 1
  PROVE  /\ CURRENT \in DOMAIN manifests /\ DurableNext \in Nat
         /\ manifests[CURRENT].synced \in 1..Len(manifests[CURRENT].data)
         /\ Edits # <<>> /\ DurableNext <= Edits[Len(Edits)].next
<1>1. CURRENT \in DOMAIN manifests /\ manifests[CURRENT].synced > 0
  BY DEF CurrentComplete
<1>2. PICK f \in File(Edit) : f = manifests[CURRENT] /\ CountsUp(CURRENT, f) /\ f.synced > 0
  BY <1>1 DEF TypeOK, FileInv
<1>3. f.data \in Seq(Edit) /\ f.synced \in Nat
  BY DEF File
<1>4. f.synced \in 1..Len(f.data) /\ Len(f.data) \in 1..Len(f.data)
  BY <1>2, <1>3 DEF CountsUp
<1>5. \A i \in 1..Len(f.data) : f.data[i].next \in Nat
  <2>1. \A i \in 1..Len(f.data) : f.data[i] \in Edit
    BY <1>3
  <2> QED BY <2>1 DEF Edit
<1>6. f.data[f.synced].next <= f.data[Len(f.data)].next
  BY <1>2, <1>4, <1>5, SMTT(20) DEF CountsUp
<1>7. Edits = f.data
  BY <1>1, <1>2 DEF Edits
<1> QED BY <1>1, <1>2, <1>4, <1>5, <1>6, <1>7 DEF DurableNext

\* ... which a step with the same CURRENT does not take back.
LEMMA NextKept ==
  ASSUME TypeOK, FileInv, PhaseInv, OpeningInv, SessionInv, CurrentComplete, LogInv,
         [Next]_vars, CURRENT > 1, CURRENT' = CURRENT
  PROVE  \A n \in SyncedLogs : n <= DurableNext'
<1>0. /\ manifest_file_number \in Nat /\ next_file_number \in Nat /\ CURRENT \in Nat
      /\ SyncedLogs \subseteq Nat
  BY DEF TypeOK, SyncedLogs
<1>1. CASE manifests'[CURRENT] = manifests[CURRENT]
  <2>1. DurableNext' = DurableNext
    BY <1>1 DEF DurableNext
  <2> QED BY <2>1 DEF LogInv
<1>2. CASE NewDBManifest
  BY <1>2 DEF NewDBManifest, PhaseInv
<1>3. CASE NewManifest \/ ManifestEdit \/ ManifestSync
  <2>1. /\ pc \in OpeningPcs
        /\ \E v : manifests' = With(manifests, manifest_file_number, v)
    BY <1>3 DEF NewManifest, ManifestEdit, ManifestSync, LogEdit, SyncEdit, OpeningPcs
  <2>2. manifest_file_number # CURRENT
    BY <1>0, <2>1, NumberAbove DEF OpeningInv
  <2>3. manifests'[CURRENT] = manifests[CURRENT]
    BY <2>1, <2>2, CurrentKept, NextType
  <2> QED BY <1>1, <2>3
<1>4. CASE FlushEdit
  <2>1. bpc = "edit" /\ LogEdit /\ manifest_file_number' = manifest_file_number
    BY <1>4 DEF FlushEdit, vset
  <2>2. manifest_file_number = CURRENT /\ manifest_file_number \in DOMAIN manifests
    BY <2>1, InSession DEF SessionInv
  <2>3. /\ Manifest'.synced = Manifest.synced
        /\ \A i \in 1..Len(Manifest.data) : Manifest'.data[i] = Manifest.data[i]
    BY <2>1, <2>2, EditAppended
  <2>4. Manifest.synced \in 1..Len(Manifest.data)
    BY <2>2, NextType DEF Manifest
  <2>5. DurableNext = Manifest.data[Manifest.synced].next
        /\ DurableNext' = Manifest'.data[Manifest'.synced].next
    BY <2>1, <2>2 DEF DurableNext, Manifest
  <2> HIDE DEF Manifest, DurableNext
  <2>6. DurableNext' = DurableNext
    BY <2>3, <2>4, <2>5
  <2> QED BY <2>6 DEF LogInv
<1>5. CASE FlushSync
  <2>1. /\ bpc = "sync" /\ manifest_file_number' = manifest_file_number
        /\ manifests' = With(manifests, manifest_file_number, Synced(Manifest))
    BY <1>5 DEF FlushSync, SyncEdit, vset, Manifest
  <2>2. /\ manifest_file_number = CURRENT /\ manifest_file_number \in DOMAIN manifests
        /\ Manifest.data[Len(Manifest.data)] = edit /\ edit.next = next_file_number
    BY <2>1, InSession DEF SessionInv
  <2>3. Manifest' = Synced(Manifest)
    BY <2>1 DEF With, Manifest
  <2>4. Manifest \in File(Edit)
    BY <2>2 DEF TypeOK, Manifest
  <2>5. Manifest'.data = Manifest.data /\ Manifest'.synced = Len(Manifest.data)
    BY <2>3, <2>4, SyncedFile
  <2>6. DurableNext' = Manifest'.data[Manifest'.synced].next
    BY <2>1, <2>2 DEF DurableNext, Manifest
  <2> HIDE DEF Manifest, DurableNext
  <2>7. DurableNext' = next_file_number
    BY <2>2, <2>5, <2>6
  <2>8. \A n \in SyncedLogs : n < next_file_number
    BY <2>1, InSession DEF LogInv
  <2> QED BY <1>0, <2>7, <2>8
<1>6. CASE PowerLoss
  <2>1. PICK d \in Cuts(manifests) : manifests' = AfterCut(manifests, d)
    BY <1>6 DEF PowerLoss
  <2>2. \A n \in DOMAIN manifests : /\ manifests[n] \in File(Edit)
                                    /\ manifests[n].synced <= Len(manifests[n].data)
    BY DEF TypeOK, FileInv, CountsUp
  <2>3. CURRENT \in DOMAIN manifests /\ manifests[CURRENT].synced \in 1..Len(manifests[CURRENT].data)
    BY NextType
  <2>4. /\ manifests'[CURRENT].synced = manifests[CURRENT].synced
        /\ manifests[CURRENT].synced <= Len(manifests'[CURRENT].data)
        /\ manifests'[CURRENT] \in File(Edit)
        /\ \A i \in 1..Len(manifests'[CURRENT].data) :
             manifests'[CURRENT].data[i] = manifests[CURRENT].data[i]
    BY <2>1, <2>2, <2>3, CutFiles
  <2>5. Len(manifests'[CURRENT].data) \in Nat
    BY <2>4 DEF File
  <2>6. DurableNext' = DurableNext
    BY <2>3, <2>4, <2>5 DEF DurableNext
  <2> QED BY <2>6 DEF LogInv
<1>7. CASE manifests' = manifests
  BY <1>1, <1>7
<1>8. CASE Restart
  BY <1>6, <1>7, <1>8, Restarted
<1>9. CASE \/ NewDBCurrent \/ VersionRecover \/ ListFiles \/ ReplayRecord \/ ReplayEnd
           \/ NewLog \/ SetCurrentFile \/ OpenInstall \/ (\E f : OpenDelete(f) \/ FlushDelete(f))
           \/ OpenReturns \/ (\E sync \in BOOLEAN : WriteLog(sync) \/ WriteReturns(sync))
           \/ Rotate \/ FlushBuild \/ FlushInstall \/ UNCHANGED vars
  <2>1. manifests' = manifests
    BY <1>9 DEF NewDBCurrent, VersionRecover, ListFiles, ReplayRecord, ReplayEnd, NewLog,
       SetCurrentFile, OpenInstall, OpenDelete, FlushDelete, OpenReturns, WriteLog,
       WriteReturns, Rotate, FlushBuild, FlushInstall, vars, disk
  <2> QED BY <1>7, <2>1
<1> QED
  BY <1>2, <1>3, <1>4, <1>5, <1>8, <1>9 DEF Next, Restart

LEMMA LogStep ==
  ASSUME TypeOK, FileInv, PhaseInv, OpeningInv, WrittenInv, SessionInv, CurrentComplete, LogInv,
         [Next]_vars, TypeOK'
  PROVE  LogInv'
<1>0. /\ next_file_number \in Nat /\ CURRENT \in Nat /\ SyncedLogs \subseteq Nat
      /\ SyncedLogs' \subseteq Nat /\ CURRENT' \in Nat
  BY DEF TypeOK, SyncedLogs
<1>1. CASE pc = "open" /\ UNCHANGED <<CURRENT, manifests, next_file_number>>
           /\ SyncedLogs' \subseteq SyncedLogs \cup {logfilenum}
  <2>1. /\ CURRENT = manifest_file_number /\ CURRENT > 1
        /\ logfilenum <= DurableEdit.next /\ logfilenum < next_file_number
    BY <1>1 DEF SessionInv, InstalledPcs, SessionPcs
  <2>2. DurableNext' = DurableNext /\ DurableNext = DurableEdit.next
    BY <1>1, <2>1 DEF DurableNext, DurableEdit, Manifest
  <2>3. \A n \in SyncedLogs : n <= DurableNext /\ n < next_file_number
    BY <1>1, <2>1 DEF LogInv, InstalledPcs, SessionPcs
  <2> HIDE DEF DurableNext, DurableEdit
  <2> QED BY <1>0, <1>1, <2>1, <2>2, <2>3 DEF LogInv
<1> SUFFICES ASSUME SyncedLogs' \subseteq SyncedLogs
             PROVE  LogInv'
  BY <1>1, SyncedLogsStep
<1>2. CASE SetCurrentFile
  <2>1. /\ pc = "current" /\ pc' = "install" /\ CURRENT' = manifest_file_number
        /\ UNCHANGED <<manifests, next_file_number>>
    BY <1>2 DEF SetCurrentFile, vset
  <2>2. /\ Manifest = [data |-> <<edit>>, synced |-> 1] /\ edit.next = next_file_number
    BY <2>1 DEF WrittenInv
  <2>3. DurableNext' = next_file_number
    BY <2>1, <2>2 DEF DurableNext, Manifest
  <2>4. \A n \in SyncedLogs : n < next_file_number
    BY <2>1 DEF LogInv, OpeningPcs
  <2>5. manifest_file_number > 1
    <3>1. manifest_file_number > CURRENT /\ CURRENT > 0
      BY <2>1, NumberAbove DEF OpeningInv, PhaseInv, OpeningPcs
    <3> QED BY <1>0, <3>1 DEF TypeOK
  <2> HIDE DEF DurableNext
  <2> QED BY <1>0, <2>1, <2>3, <2>4, <2>5 DEF LogInv
<1>3. CASE NewDBCurrent
  <2>1. CURRENT = 0 /\ CURRENT' = 1 /\ pc' = "versions"
    BY <1>3 DEF NewDBCurrent, PhaseInv
  <2> QED BY <2>1 DEF LogInv, OpeningPcs, InstalledPcs, SessionPcs
<1> SUFFICES ASSUME CURRENT' = CURRENT
             PROVE  LogInv'
  BY <1>2, <1>3 DEF Next, vars, disk, Open, NewDBManifest, VersionRecover, ListFiles,
     ReplayRecord, ReplayEnd, OpenFails, NewLog, NewManifest, ManifestEdit, ManifestSync,
     OpenInstall, OpenDelete, OpenReturns, WriteLog, WriteReturns, Rotate, FlushBuild,
     FlushEdit, FlushSync, FlushInstall, FlushDelete, Stop, PowerLoss
<1>4. CURRENT' <= 1 => SyncedLogs' = {}
  BY DEF LogInv
<1>5. CURRENT' > 1 => \A n \in SyncedLogs' : n <= DurableNext'
  BY NextKept
<1>6. ASSUME (pc \in OpeningPcs \cup {"install"} \cup InstalledPcs)'
      PROVE  \A n \in SyncedLogs' : n < next_file_number'
  <2>1. CASE VersionRecover
    <3>1. Edits # <<>> /\ next_file_number' = Last(Edits).next + 1
      BY <2>1 DEF VersionRecover
    <3>2. Last(Edits) = Edits[Len(Edits)] /\ Last(Edits).next \in Nat
      BY <3>1, LastEdit DEF Edit
    <3> HIDE DEF Edits
    <3>3. CASE CURRENT > 1
      <4>1. DurableNext <= Last(Edits).next /\ DurableNext \in Nat
        BY <3>2, <3>3, NextType
      <4>2. \A n \in SyncedLogs : n <= DurableNext
        BY <3>3 DEF LogInv
      <4> HIDE DEF DurableNext
      <4> QED BY <1>0, <3>1, <3>2, <4>1, <4>2
    <3>4. CASE CURRENT <= 1
      BY <3>4 DEF LogInv
    <3> QED BY <1>0, <3>3, <3>4
  <2>2. CASE Restart
    BY <1>6, <2>2, Restarted DEF OpeningPcs, InstalledPcs, SessionPcs
  <2>3. CASE /\ pc \in OpeningPcs \cup {"install"} \cup InstalledPcs
             /\ next_file_number' \in {next_file_number, next_file_number + 1}
    BY <1>0, <2>3 DEF LogInv
  <2>4. CASE NewDBManifest \/ NewDBCurrent
    BY <1>6, <2>4 DEF NewDBManifest, NewDBCurrent, OpeningPcs, InstalledPcs, SessionPcs
  <2>5. CASE \/ ListFiles \/ ReplayRecord \/ ReplayEnd \/ NewLog \/ NewManifest \/ ManifestEdit
             \/ ManifestSync \/ SetCurrentFile \/ OpenInstall \/ (\E f : OpenDelete(f))
             \/ OpenReturns
    <3>1. pc \in OpeningPcs \cup {"install", "delete"}
      BY <2>5 DEF ListFiles, ReplayRecord, ReplayEnd, Replaying, NewLog, NewManifest,
         ManifestEdit, ManifestSync, SetCurrentFile, OpenInstall, OpenDelete, OpenReturns,
         OpeningPcs
    <3>2. next_file_number' \in {next_file_number, next_file_number + 1}
      BY <2>5 DEF ListFiles, ReplayRecord, ReplayEnd, NewLog, NewManifest, ManifestEdit,
         ManifestSync, SetCurrentFile, OpenInstall, OpenDelete, OpenReturns, vset
    <3> QED BY <2>3, <3>1, <3>2 DEF InstalledPcs
  <2>6. CASE Rotate \/ \E sync \in BOOLEAN : WriteLog(sync) \/ WriteReturns(sync)
    <3>1. pc \in SessionPcs /\ next_file_number' \in {next_file_number, next_file_number + 1}
      BY <2>6 DEF Rotate, WriteLog, WriteReturns, Pending, vset, SessionPcs
    <3> QED BY <2>3, <3>1 DEF InstalledPcs
  <2>7. CASE \/ FlushBuild \/ FlushEdit \/ FlushSync \/ FlushInstall
             \/ \E f : FlushDelete(f)
    <3>1. bpc # "idle" /\ next_file_number' \in {next_file_number, next_file_number + 1}
      BY <2>7 DEF FlushBuild, FlushEdit, FlushSync, FlushInstall, FlushDelete, vset
    <3> QED BY <2>3, <3>1, InSession
  <2>8. CASE UNCHANGED vars
    BY <1>6, <2>3, <2>8 DEF vars, vset
  <2> QED
    BY <2>1, <2>2, <2>4, <2>5, <2>6, <2>7, <2>8 DEF Next, Restart
<1> QED BY <1>4, <1>5, <1>6 DEF LogInv
-----------------------------------------------------------------------------
(***************************************************************************)
(* The tables                                                              *)
(***************************************************************************)

\* While files are deleted no edit is on its way.
LEMMA NothingPending ==
  ASSUME PhaseInv, SessionInv, pc = "delete" \/ bpc = "delete"
  PROVE  pc \in InstalledPcs /\ edit = NoEdit /\ bpc \notin {"sync", "install"}
BY InSession DEF PhaseInv, SessionInv, InstalledPcs, SessionPcs

\* A table is added to the directory, or none is deleted.
LEMMA TablesGrow ==
  ASSUME [Next]_vars, \A f : ~OpenDelete(f) /\ ~FlushDelete(f)
  PROVE  DOMAIN tables \subseteq DOMAIN tables'
<1>1. CASE ReplayRecord \/ FlushBuild
  <2>1. tables' = tables \/ \E n, v : tables' = With(tables, n, v)
    BY <1>1 DEF ReplayRecord, FlushBuild
  <2> QED BY <2>1 DEF With
<1>2. CASE Restart
  BY <1>2, Restarted
<1>3. CASE \/ NewDBManifest \/ NewDBCurrent \/ VersionRecover \/ ListFiles
           \/ ReplayEnd \/ NewLog \/ NewManifest \/ ManifestEdit \/ ManifestSync
           \/ SetCurrentFile \/ OpenInstall \/ OpenReturns \/ Rotate \/ FlushEdit \/ FlushSync
           \/ FlushInstall \/ (\E sync \in BOOLEAN : WriteLog(sync) \/ WriteReturns(sync))
           \/ UNCHANGED vars
  <2>1. tables' = tables
    BY <1>3 DEF NewDBManifest, NewDBCurrent, VersionRecover, ListFiles, ReplayEnd, NewLog,
       NewManifest, ManifestEdit, ManifestSync, SetCurrentFile, OpenInstall, OpenReturns,
       Rotate, FlushEdit, FlushSync, FlushInstall, WriteLog, WriteReturns, vars, disk
  <2> QED BY <2>1
<1> QED BY <1>1, <1>2, <1>3 DEF Next, Restart

LEMMA EditTablesStep ==
  ASSUME TypeOK, PhaseInv, SessionInv, EditTables, [Next]_vars
  PROVE  EditTables'
<1>0. edit \in Edit /\ NoEdit.files = {}
  BY DEF TypeOK, NoEdit
<1>1. CASE \E f : OpenDelete(f) \/ FlushDelete(f)
  <2>1. (pc = "delete" \/ bpc = "delete") /\ edit' = edit
    BY <1>1 DEF OpenDelete, FlushDelete
  <2>2. edit = NoEdit
    BY <2>1, NothingPending
  <2> QED BY <1>0, <2>1, <2>2 DEF EditTables
<1>2. CASE \A f : ~OpenDelete(f) /\ ~FlushDelete(f)
  <2>1. DOMAIN tables \subseteq DOMAIN tables'
    BY <1>2, TablesGrow
  <2>2. CASE edit' = NoEdit
    BY <1>0, <2>2 DEF EditTables
  <2>3. CASE edit'.files = edit.files
    BY <2>1, <2>3 DEF EditTables
  <2>4. CASE ReplayRecord \/ FlushBuild
    <3>1. \/ edit' = edit
          \/ /\ \E v : tables' = With(tables, next_file_number, v)
             /\ edit'.files \subseteq edit.files \cup {next_file_number}
      BY <1>0, <2>4 DEF ReplayRecord, FlushBuild, Edit
    <3>2. edit' = edit \/ edit'.files \subseteq DOMAIN tables'
      BY <3>1 DEF With, EditTables
    <3> QED BY <2>3, <3>2 DEF EditTables
  <2>5. CASE NewLog \/ NewManifest
    <3>1. edit'.files = edit.files
      BY <1>0, <2>5 DEF NewLog, NewManifest, Edit
    <3> QED BY <2>3, <3>1
  <2>6. CASE Restart
    BY <2>2, <2>6, Restarted
  <2>7. CASE OpenInstall \/ FlushInstall
    BY <2>2, <2>7 DEF OpenInstall, FlushInstall, Install
  <2>8. CASE \/ NewDBManifest \/ NewDBCurrent \/ VersionRecover \/ ListFiles
             \/ ReplayEnd \/ ManifestEdit \/ ManifestSync
             \/ SetCurrentFile \/ OpenReturns \/ Rotate \/ FlushEdit \/ FlushSync
             \/ (\E sync \in BOOLEAN : WriteLog(sync) \/ WriteReturns(sync))
             \/ UNCHANGED vars
    <3>1. edit' = edit
      BY <2>8 DEF NewDBManifest, NewDBCurrent, VersionRecover, ListFiles, ReplayEnd,
         ManifestEdit, ManifestSync, SetCurrentFile, OpenReturns,
         Rotate, FlushEdit, FlushSync, WriteLog, WriteReturns, vars
    <3> QED BY <2>3, <3>1
  <2> QED BY <1>2, <2>4, <2>5, <2>6, <2>7, <2>8 DEF Next, Restart
<1> QED BY <1>1, <1>2

LEMMA NewDBStep ==
  ASSUME PhaseInv, NewDBEmpty, [Next]_vars
  PROVE  NewDBEmpty'
<1>1. CASE pc' # "newdbcurrent"
  BY <1>1 DEF NewDBEmpty
<1>2. CASE NewDBManifest
  <2>1. PICK e : e = [log |-> 0, next |-> 2, seq |-> 0, files |-> {}]
    OBVIOUS
  <2>2. manifests' = With(manifests, 1, Appended(Empty, e)) /\ e.files = {}
    BY <1>2, <2>1 DEF NewDBManifest
  <2>3. Appended(Empty, e).data = <<e>>
    <3>1. PICK d : d = Append(<<>>, e)
      OBVIOUS
    <3>2. d = <<e>>
      BY <3>1
    <3> QED BY <3>1, <3>2 DEF Appended, Empty
  <2>4. 1 \in DOMAIN manifests' /\ manifests'[1] = Appended(Empty, e)
    BY <2>2 DEF With
  <2>5. FilesOf(<<e>>) = {}
    BY <2>2 DEF FilesOf
  <2>6. FilesOf(manifests'[1].data) = {}
    BY <2>3, <2>4, <2>5
  <2> QED BY <2>4, <2>6 DEF NewDBEmpty
<1>3. CASE UNCHANGED <<pc, manifests>>
  BY <1>3 DEF NewDBEmpty
<1>4. CASE UNCHANGED vars
  BY <1>3, <1>4 DEF vars, disk
<1>5. CASE Restart
  BY <1>1, <1>5, Restarted
<1>6. CASE \/ NewDBCurrent \/ VersionRecover \/ ListFiles \/ ReplayRecord \/ ReplayEnd
           \/ NewLog \/ NewManifest \/ ManifestEdit \/ ManifestSync \/ SetCurrentFile
           \/ OpenInstall \/ (\E f : OpenDelete(f)) \/ OpenReturns \/ Rotate
           \/ (\E sync \in BOOLEAN : WriteLog(sync) \/ WriteReturns(sync))
  BY <1>1, <1>6 DEF NewDBCurrent, VersionRecover, ListFiles, ReplayRecord, ReplayEnd,
     Replaying, NewLog, NewManifest, ManifestEdit, ManifestSync, SetCurrentFile, OpenInstall,
     OpenDelete, OpenReturns, Rotate, WriteLog, WriteReturns, Pending
<1>7. CASE \/ FlushBuild \/ FlushEdit \/ FlushSync \/ FlushInstall
           \/ \E f : FlushDelete(f)
  <2>1. bpc # "idle" /\ pc' = pc
    BY <1>7 DEF FlushBuild, FlushEdit, FlushSync, FlushInstall, FlushDelete
  <2> QED BY <1>1, <2>1, InSession DEF SessionPcs
<1> QED BY <1>2, <1>4, <1>5, <1>6, <1>7 DEF Next, Restart

\* The tables of an edit list, and of one edit more.
LEMMA FilesIn ==
  ASSUME NEW es, NEW n
  PROVE  n \in FilesOf(es) <=> \E i \in DOMAIN es : n \in es[i].files
BY DEF FilesOf

LEMMA FilesAppended ==
  ASSUME NEW e, NEW es \in Seq(Edit), NEW gs \in Seq(Edit), Len(gs) = Len(es) + 1,
         gs[Len(es) + 1] = e, \A i \in 1..Len(es) : gs[i] = es[i]
  PROVE  FilesOf(gs) = FilesOf(es) \cup e.files
<1>1. /\ DOMAIN es = 1..Len(es) /\ DOMAIN gs = 1..(Len(es) + 1) /\ Len(es) \in Nat
  OBVIOUS
<1>2. \A n : n \in FilesOf(gs) <=> \E i \in 1..(Len(es) + 1) : n \in gs[i].files
  BY <1>1, FilesIn
<1>3. \A n : n \in FilesOf(es) <=> \E i \in 1..Len(es) : n \in es[i].files
  BY <1>1, FilesIn
<1>4. \A i \in 1..(Len(es) + 1) : i \in 1..Len(es) \/ i = Len(es) + 1
  BY <1>1
<1>5. Len(es) + 1 \in 1..(Len(es) + 1) /\ \A i \in 1..Len(es) : i \in 1..(Len(es) + 1)
  BY <1>1
<1>6. \A n : n \in FilesOf(gs) <=> n \in FilesOf(es) \/ n \in e.files
  BY <1>2, <1>3, <1>4, <1>5
<1> QED BY <1>6

\* What the flush's edit adds to the manifest.
LEMMA EditFiles ==
  ASSUME TypeOK, TypeOK', FileInv, manifest_file_number \in DOMAIN manifests,
         LogEdit, manifest_file_number' = manifest_file_number
  PROVE  FilesOf(Manifest'.data) = FilesOf(Manifest.data) \cup edit.files
<1>1. /\ manifest_file_number \in DOMAIN manifests'
      /\ Len(Manifest'.data) = Len(Manifest.data) + 1
      /\ Manifest'.data[Len(Manifest.data) + 1] = edit
      /\ \A i \in 1..Len(Manifest.data) : Manifest'.data[i] = Manifest.data[i]
  BY EditAppended
<1>2. Manifest \in File(Edit) /\ Manifest' \in File(Edit)
  BY <1>1 DEF TypeOK, Manifest
<1>3. PICK es \in Seq(Edit) : es = Manifest.data
  BY <1>2 DEF File
<1>4. PICK gs \in Seq(Edit) : gs = Manifest'.data
  BY <1>2 DEF File
<1> HIDE DEF Manifest
<1>5. /\ Len(gs) = Len(es) + 1 /\ gs[Len(es) + 1] = edit
      /\ \A i \in 1..Len(es) : gs[i] = es[i]
  BY <1>1, <1>3, <1>4
<1>6. PICK e : e = edit
  OBVIOUS
<1>7. FilesOf(gs) = FilesOf(es) \cup e.files
  BY <1>5, <1>6, FilesAppended
<1> QED BY <1>3, <1>4, <1>6, <1>7

LEMMA LiveStep ==
  ASSUME TypeOK, TypeOK', FileInv, PhaseInv, WrittenInv, SessionInv, LiveInv, [Next]_vars
  PROVE  LiveInv'
<1>1. CASE pc' \notin InstalledPcs
  BY <1>1 DEF LiveInv
<1>2. CASE /\ pc \in InstalledPcs /\ UNCHANGED <<manifests, manifest_file_number, live>>
           /\ bpc' \notin {"sync", "install"} /\ bpc \notin {"sync", "install"}
  BY <1>2 DEF LiveInv, Manifest
<1>3. CASE /\ pc \in InstalledPcs /\ UNCHANGED <<manifests, manifest_file_number, live>>
           /\ UNCHANGED <<bpc, edit>>
  BY <1>3 DEF LiveInv, Manifest
<1>4. CASE OpenInstall
  <2>1. /\ pc = "install" /\ Install /\ UNCHANGED <<manifests, manifest_file_number>>
    BY <1>4 DEF OpenInstall, disk
  <2>2. Manifest = [data |-> <<edit>>, synced |-> 1] /\ Manifest' = Manifest
    BY <2>1 DEF WrittenInv, Manifest
  <2>3. FilesOf(<<edit>>) = edit.files
    BY DEF FilesOf
  <2>4. FilesOf(Manifest'.data) = edit.files
    BY <2>2, <2>3
  <2>5. edit.files \subseteq live'
    BY <2>1 DEF Install
  <2> HIDE DEF Manifest
  <2> QED BY <2>4, <2>5 DEF LiveInv
<1>5. ASSUME NEW f, OpenDelete(f) \/ FlushDelete(f)
      PROVE  LiveInv'
  <2>1. /\ pc = "delete" \/ bpc = "delete"
        /\ bpc' \in {bpc, "over"}
        /\ UNCHANGED <<manifests, manifest_file_number, live>>
    BY <1>5 DEF OpenDelete, FlushDelete, vset
  <2>2. pc \in InstalledPcs /\ bpc \notin {"sync", "install"}
    BY <2>1, NothingPending
  <2> QED BY <1>2, <2>1, <2>2
<1>6. CASE OpenReturns \/ \E sync \in BOOLEAN : WriteLog(sync) \/ WriteReturns(sync)
  <2>1. /\ pc \in InstalledPcs /\ UNCHANGED <<manifests, manifest_file_number, live>>
        /\ UNCHANGED <<bpc, edit>>
    BY <1>6 DEF OpenReturns, WriteLog, WriteReturns, Pending, disk, vset, InstalledPcs, SessionPcs
  <2> QED BY <1>3, <2>1
<1>7. CASE Rotate
  <2>1. /\ pc \in InstalledPcs /\ imm = {} /\ UNCHANGED <<manifests, manifest_file_number, live>>
        /\ bpc' = IF bpc = "idle" THEN "build" ELSE bpc
    BY <1>7 DEF Rotate, InstalledPcs, SessionPcs
  <2>2. bpc \notin {"sync", "install"}
    BY <2>1 DEF SessionInv
  <2> QED BY <1>2, <2>1, <2>2
<1>8. CASE FlushBuild
  <2>1. /\ bpc = "build" /\ bpc' = "edit" /\ UNCHANGED <<manifests, manifest_file_number, live>>
    BY <1>8 DEF FlushBuild
  <2> QED BY <1>2, <2>1, InSession
<1>9. CASE FlushEdit
  <2>1. /\ bpc = "edit" /\ bpc' = "sync" /\ LogEdit
        /\ UNCHANGED <<manifest_file_number, live, edit>>
    BY <1>9 DEF FlushEdit, vset
  <2>2. pc \in InstalledPcs
    BY <2>1, InSession
  <2>3. manifest_file_number \in DOMAIN manifests
    BY <2>2 DEF SessionInv
  <2>4. FilesOf(Manifest'.data) = FilesOf(Manifest.data) \cup edit.files
    BY <2>1, <2>3, EditFiles
  <2>5. FilesOf(Manifest.data) \subseteq live
    BY <2>1, <2>2 DEF LiveInv
  <2> HIDE DEF Manifest
  <2> QED BY <2>1, <2>4, <2>5 DEF LiveInv
<1>10. CASE FlushSync
  <2>1. /\ bpc = "sync" /\ bpc' = "install"
        /\ manifests' = With(manifests, manifest_file_number, Synced(Manifest))
        /\ UNCHANGED <<manifest_file_number, live, edit>>
    BY <1>10 DEF FlushSync, SyncEdit, vset, Manifest
  <2>2. pc \in InstalledPcs
    BY <2>1, InSession
  <2>3. manifest_file_number \in DOMAIN manifests
    BY <2>2 DEF SessionInv
  <2>4. Manifest' = Synced(Manifest) /\ Manifest \in File(Edit)
    BY <2>1, <2>3 DEF With, Manifest, TypeOK
  <2>5. Manifest'.data = Manifest.data
    BY <2>4, SyncedFile
  <2>6. FilesOf(Manifest.data) \subseteq live \cup edit.files
    BY <2>1, <2>2 DEF LiveInv
  <2> HIDE DEF Manifest
  <2> QED BY <2>1, <2>5, <2>6 DEF LiveInv
<1>11. CASE FlushInstall
  <2>1. /\ bpc = "install" /\ bpc' = "delete" /\ Install
        /\ UNCHANGED <<manifests, manifest_file_number>>
    BY <1>11 DEF FlushInstall, disk
  <2>2. pc \in InstalledPcs
    BY <2>1, InSession
  <2>3. FilesOf(Manifest.data) \subseteq live \cup edit.files /\ Manifest' = Manifest
    BY <2>1, <2>2 DEF LiveInv, Manifest
  <2>4. live \cup edit.files \subseteq live'
    BY <2>1 DEF Install
  <2> HIDE DEF Manifest
  <2> QED BY <2>1, <2>3, <2>4 DEF LiveInv
<1>12. CASE UNCHANGED vars
  BY <1>1, <1>3, <1>12 DEF vars, disk, vset
<1>13. CASE Restart
  BY <1>1, <1>13, Restarted DEF InstalledPcs, SessionPcs
<1>14. CASE \/ NewDBManifest \/ NewDBCurrent \/ VersionRecover \/ ListFiles
            \/ ReplayRecord \/ ReplayEnd \/ NewLog \/ NewManifest \/ ManifestEdit
            \/ ManifestSync \/ SetCurrentFile
  BY <1>1, <1>14 DEF NewDBManifest, NewDBCurrent, VersionRecover, ListFiles, ReplayRecord,
     ReplayEnd, Replaying, NewLog, NewManifest, ManifestEdit, ManifestSync, SetCurrentFile,
     InstalledPcs, SessionPcs
<1> QED
  BY <1>4, <1>5, <1>6, <1>7, <1>8, <1>9, <1>10, <1>11, <1>12, <1>13, <1>14
  DEF Next, Restart

\* What DeleteObsoleteFiles lists.
LEMMA ObsoleteList ==
  ASSUME NEW l, NEW a, NEW f \in Obsolete(l, a)
  PROVE  /\ f[1] = "table" => ParsedNumber(f[2]) \notin a
         /\ f[1] = "log" => ParsedNumber(f[2]) < l
BY DEF Obsolete

LEMMA ObsoleteStep ==
  ASSUME PhaseInv, ObsoleteInv, [Next]_vars
  PROVE  ObsoleteInv'
<1>1. CASE obsolete' = {}
  BY <1>1 DEF ObsoleteInv
<1>2. CASE obsolete' \subseteq obsolete /\ UNCHANGED <<live, log_number>>
  BY <1>2 DEF ObsoleteInv
<1>3. CASE OpenInstall \/ FlushInstall
  <2>1. obsolete' = Obsolete(log_number', live')
    BY <1>3 DEF OpenInstall, FlushInstall, Install
  <2>2. PICK l, a : l = log_number' /\ a = live'
    OBVIOUS
  <2>3. obsolete' = Obsolete(l, a)
    BY <2>1, <2>2 DEF Obsolete, OpenInstall, FlushInstall, disk
  <2>4. \A f \in obsolete' : /\ f[1] = "table" => ParsedNumber(f[2]) \notin a
                             /\ f[1] = "log" => ParsedNumber(f[2]) < l
    BY <2>3, ObsoleteList
  <2> QED BY <2>2, <2>4 DEF ObsoleteInv
<1>4. CASE VersionRecover
  <2>1. obsolete = {} /\ obsolete' = obsolete
    BY <1>4 DEF VersionRecover, PhaseInv, InstalledPcs, SessionPcs
  <2> QED BY <1>1, <2>1
<1>5. CASE Restart
  BY <1>1, <1>5, Restarted
<1>6. ASSUME NEW f, OpenDelete(f) \/ FlushDelete(f)
      PROVE  ObsoleteInv'
  BY <1>2, <1>6 DEF OpenDelete, FlushDelete, DeleteFile, vset
<1>7. CASE \/ NewDBManifest \/ NewDBCurrent \/ ListFiles \/ ReplayRecord
           \/ ReplayEnd \/ NewLog \/ NewManifest \/ ManifestEdit \/ ManifestSync
           \/ SetCurrentFile \/ OpenReturns \/ Rotate \/ FlushBuild \/ FlushEdit \/ FlushSync
           \/ (\E sync \in BOOLEAN : WriteLog(sync) \/ WriteReturns(sync))
           \/ UNCHANGED vars
  <2>1. UNCHANGED <<obsolete, live, log_number>>
    BY <1>7 DEF NewDBManifest, NewDBCurrent, ListFiles, ReplayRecord, ReplayEnd, NewLog,
       NewManifest, ManifestEdit, ManifestSync, SetCurrentFile, OpenReturns, Rotate,
       FlushBuild, FlushEdit, FlushSync, WriteLog, WriteReturns, vars, vset
  <2> QED BY <1>2, <2>1
<1> QED BY <1>3, <1>4, <1>5, <1>6, <1>7 DEF Next, Restart

LEMMA PresentStep ==
  ASSUME TypeOK, TypeOK', FileInv, PhaseInv, OpeningInv, WrittenInv, SessionInv, EditTables,
         NewDBEmpty, LiveInv, ObsoleteInv, TablesPresent, [Next]_vars
  PROVE  TablesPresent'
<1>0. manifest_file_number \in Nat /\ CURRENT \in Nat
  BY DEF TypeOK
<1>1. ASSUME NEW f, OpenDelete(f) \/ FlushDelete(f)
      PROVE  TablesPresent'
  <2>1. (pc = "delete" \/ bpc = "delete") /\ DeleteFile(f) /\ UNCHANGED <<CURRENT, manifests>>
    BY <1>1 DEF OpenDelete, FlushDelete
  <2>2. pc \in InstalledPcs /\ bpc \notin {"sync", "install"}
    BY <2>1, NothingPending
  <2>3. CURRENT = manifest_file_number /\ manifest_file_number \in DOMAIN manifests
    BY <2>2 DEF SessionInv
  <2>4. Edits = Manifest.data /\ Edits' = Edits
    BY <2>1, <2>3 DEF Edits, Manifest
  <2>5. FilesOf(Edits) \subseteq live
    BY <2>2, <2>4 DEF LiveInv
  <2>6. f \in obsolete /\ \A n \in DOMAIN tables : n \notin DOMAIN tables' => f[1] = "table" /\ f[2] = n
    BY <2>1, DeletedFile
  <2> HIDE DEF Edits
  <2>7. ASSUME NEW n \in FilesOf(Edits), ParsedNumber(n) = n
        PROVE  n \in DOMAIN tables'
    <3>1. n \in DOMAIN tables /\ n \in live
      BY <2>5, <2>7 DEF TablesPresent
    <3> QED BY <2>6, <2>7, <3>1 DEF ObsoleteInv
  <2> QED BY <2>4, <2>7 DEF TablesPresent
<1>2. CASE \A f : ~OpenDelete(f) /\ ~FlushDelete(f)
  <2>1. DOMAIN tables \subseteq DOMAIN tables'
    BY <1>2, TablesGrow
  <2>2. CASE FilesOf(Edits') \subseteq FilesOf(Edits)
    <3>1. FilesOf(Edits)' = FilesOf(Edits')
      BY DEF FilesOf
    <3> HIDE DEF Edits
    <3> QED BY <2>1, <2>2, <3>1 DEF TablesPresent
  <2>3. CASE UNCHANGED <<CURRENT, manifests>>
    BY <2>2, <2>3 DEF Edits
  <2>4. CASE NewDBManifest
    <3>1. CURRENT = 0 /\ CURRENT' = CURRENT /\ \E v : manifests' = With(manifests, 1, v)
      BY <2>4 DEF NewDBManifest, PhaseInv
    <3>2. Edits' = Edits
      BY <3>1, CurrentKept
    <3> QED BY <2>2, <3>2
  <2>5. CASE NewDBCurrent
    <3>1. pc = "newdbcurrent" /\ CURRENT' = 1 /\ manifests' = manifests
      BY <2>5 DEF NewDBCurrent
    <3>2. Edits' = manifests[1].data /\ FilesOf(manifests[1].data) = {}
      BY <3>1 DEF NewDBEmpty, Edits
    <3>3. FilesOf(Edits') = {}
      BY <3>2
    <3> QED BY <2>2, <3>3
  <2>6. CASE NewManifest \/ ManifestEdit \/ ManifestSync
    <3>1. /\ pc \in OpeningPcs /\ CURRENT' = CURRENT
          /\ \E v : manifests' = With(manifests, manifest_file_number, v)
      BY <2>6 DEF NewManifest, ManifestEdit, ManifestSync, LogEdit, SyncEdit, OpeningPcs
    <3>2. manifest_file_number # CURRENT
      BY <1>0, <3>1, NumberAbove DEF OpeningInv
    <3>3. Edits' = Edits
      BY <3>1, <3>2, CurrentKept
    <3> QED BY <2>2, <3>3
  <2>7. CASE SetCurrentFile
    <3>1. /\ pc = "current" /\ CURRENT' = manifest_file_number /\ manifests' = manifests
      BY <2>7 DEF SetCurrentFile
    <3>2. /\ manifest_file_number \in DOMAIN manifests
          /\ manifests[manifest_file_number] = [data |-> <<edit>>, synced |-> 1]
      BY <3>1 DEF WrittenInv, Manifest
    <3>3. Edits' = <<edit>>
      BY <3>1, <3>2 DEF Edits
    <3>4. FilesOf(<<edit>>) = edit.files
      BY DEF FilesOf
    <3>5. FilesOf(Edits)' = edit.files
      BY <3>3, <3>4 DEF FilesOf
    <3> HIDE DEF Edits
    <3> QED BY <2>1, <3>5 DEF TablesPresent, EditTables
  <2>8. CASE FlushEdit
    <3>1. /\ bpc = "edit" /\ LogEdit /\ UNCHANGED <<CURRENT, manifest_file_number>>
      BY <2>8 DEF FlushEdit, vset
    <3>2. CURRENT = manifest_file_number /\ manifest_file_number \in DOMAIN manifests
      BY <3>1, InSession DEF SessionInv
    <3>3. FilesOf(Manifest'.data) = FilesOf(Manifest.data) \cup edit.files
      BY <3>1, <3>2, EditFiles
    <3>4. manifest_file_number \in DOMAIN manifests'
      BY <3>1, <3>2, EditAppended
    <3>5. Edits = Manifest.data /\ Edits' = Manifest'.data
      BY <3>1, <3>2, <3>4 DEF Edits, Manifest
    <3>6. FilesOf(Edits)' = FilesOf(Edits')
      BY DEF FilesOf
    <3> HIDE DEF Edits, Manifest
    <3>7. FilesOf(Edits)' = FilesOf(Edits) \cup edit.files
      BY <3>3, <3>5, <3>6
    <3> QED BY <2>1, <3>7 DEF TablesPresent, EditTables
  <2>9. CASE FlushSync
    <3>1. /\ bpc = "sync" /\ UNCHANGED <<CURRENT, manifest_file_number>>
          /\ manifests' = With(manifests, manifest_file_number, Synced(Manifest))
      BY <2>9 DEF FlushSync, SyncEdit, vset, Manifest
    <3>2. CURRENT = manifest_file_number /\ manifest_file_number \in DOMAIN manifests
      BY <3>1, InSession DEF SessionInv
    <3>3. /\ Manifest' = Synced(Manifest) /\ Manifest \in File(Edit)
          /\ manifest_file_number \in DOMAIN manifests'
      BY <3>1, <3>2 DEF With, Manifest, TypeOK
    <3>4. Manifest'.data = Manifest.data
      BY <3>3, SyncedFile
    <3>5. Edits = Manifest.data /\ Edits' = Manifest'.data
      BY <3>1, <3>2, <3>3 DEF Edits, Manifest
    <3> HIDE DEF Edits, Manifest
    <3>6. Edits' = Edits
      BY <3>4, <3>5
    <3> QED BY <2>2, <3>6
  <2>10. CASE PowerLoss
    <3>1. PICK d \in Cuts(manifests) : manifests' = AfterCut(manifests, d)
      BY <2>10 DEF PowerLoss
    <3>2. CURRENT' = CURRENT /\ DOMAIN manifests' = DOMAIN manifests
      BY <2>10, <3>1 DEF PowerLoss, AfterCut
    <3>3. CASE CURRENT \in DOMAIN manifests
      <4>1. \A n \in DOMAIN manifests : /\ manifests[n] \in File(Edit)
                                        /\ manifests[n].synced <= Len(manifests[n].data)
        BY DEF TypeOK, FileInv, CountsUp
      <4>2. /\ manifests'[CURRENT] \in File(Edit) /\ manifests[CURRENT] \in File(Edit)
            /\ Len(manifests'[CURRENT].data) <= Len(manifests[CURRENT].data)
            /\ \A i \in 1..Len(manifests'[CURRENT].data) :
                 manifests'[CURRENT].data[i] = manifests[CURRENT].data[i]
        BY <3>1, <3>3, <4>1, CutFiles
      <4>3. PICK es \in Seq(Edit) : es = manifests[CURRENT].data
        BY <4>2 DEF File
      <4>4. PICK gs \in Seq(Edit) : gs = manifests'[CURRENT].data
        BY <4>2 DEF File
      <4>5. Len(gs) <= Len(es) /\ \A i \in 1..Len(gs) : gs[i] = es[i]
        BY <4>2, <4>3, <4>4
      <4>6. DOMAIN gs \subseteq DOMAIN es /\ \A i \in DOMAIN gs : gs[i] = es[i]
        BY <4>5
      <4>7. FilesOf(gs) \subseteq FilesOf(es)
        BY <4>6, FilesIn
      <4>8. Edits = es /\ Edits' = gs
        BY <3>2, <3>3, <4>3, <4>4 DEF Edits
      <4> HIDE DEF Edits
      <4> QED BY <2>2, <4>7, <4>8
    <3>4. CASE CURRENT \notin DOMAIN manifests
      <4>1. Edits' = Edits
        BY <3>2, <3>4 DEF Edits
      <4> QED BY <2>2, <4>1
    <3> QED BY <3>3, <3>4
  <2>11. CASE Restart
    BY <2>3, <2>10, <2>11, Restarted
  <2>12. CASE \/ VersionRecover \/ ListFiles \/ ReplayRecord \/ ReplayEnd \/ NewLog
              \/ OpenInstall \/ OpenReturns \/ Rotate \/ FlushBuild \/ FlushInstall
              \/ (\E sync \in BOOLEAN : WriteLog(sync) \/ WriteReturns(sync))
              \/ UNCHANGED vars
    <3>1. UNCHANGED <<CURRENT, manifests>>
      BY <2>12 DEF VersionRecover, ListFiles, ReplayRecord, ReplayEnd, NewLog, OpenInstall,
         OpenReturns, Rotate, FlushBuild, FlushInstall, WriteLog, WriteReturns, vars, disk
    <3> QED BY <2>3, <3>1
  <2> QED
    BY <1>2, <2>4, <2>5, <2>6, <2>7, <2>8, <2>9, <2>11, <2>12 DEF Next, Restart
<1> QED BY <1>1, <1>2
-----------------------------------------------------------------------------
(***************************************************************************)
(* The theorems                                                            *)
(***************************************************************************)

\* The files over all lives of the process.
RecoveryInv ==
  /\ TypeOK /\ FileInv /\ PhaseInv /\ OpeningInv /\ WrittenInv /\ SessionInv
  /\ CurrentComplete /\ LogInv
  /\ EditTables /\ NewDBEmpty /\ LiveInv /\ ObsoleteInv /\ TablesPresent

\* RecoveryInv holds at first and every step, a crash included, preserves it.
THEOREM RecoveryInductive == Spec => []RecoveryInv
<1>1. Init => RecoveryInv
  <2> SUFFICES ASSUME Init PROVE RecoveryInv
    OBVIOUS
  <2>1. /\ CURRENT = 0 /\ DOMAIN manifests = {} /\ DOMAIN logs = {} /\ DOMAIN tables = {}
        /\ pc = "closed" /\ obsolete = {} /\ edit = NoEdit
    BY DEF Init
  <2>2. CurrentComplete
    BY <2>1 DEF CurrentComplete
  <2>3. LogInv
    BY <2>1 DEF LogInv, SyncedLogs, OpeningPcs, InstalledPcs, SessionPcs
  <2>4. EditTables /\ NewDBEmpty /\ ObsoleteInv
    BY <2>1 DEF EditTables, NewDBEmpty, ObsoleteInv, NoEdit
  <2>5. LiveInv
    BY <2>1 DEF LiveInv, InstalledPcs, SessionPcs
  <2>6. TablesPresent
    <3>1. Edits = <<>>
      BY <2>1 DEF Edits
    <3>2. FilesOf(<<>>) = {}
      BY DEF FilesOf
    <3> HIDE DEF Edits
    <3> QED BY <3>1, <3>2 DEF TablesPresent
  <2> QED
    BY <2>2, <2>3, <2>4, <2>5, <2>6, TypeInit, FileInit, PhaseInit DEF RecoveryInv
<1>2. RecoveryInv /\ [Next]_vars => RecoveryInv'
  <2> SUFFICES ASSUME RecoveryInv, [Next]_vars PROVE RecoveryInv'
    OBVIOUS
  <2>1. /\ TypeOK /\ FileInv /\ PhaseInv /\ OpeningInv /\ WrittenInv /\ SessionInv
        /\ CurrentComplete /\ LogInv
        /\ EditTables /\ NewDBEmpty /\ LiveInv /\ ObsoleteInv /\ TablesPresent
    BY DEF RecoveryInv
  <2>2. TypeOK' /\ FileInv' /\ PhaseInv' /\ OpeningInv' /\ WrittenInv' /\ SessionInv'
    BY <2>1, TypeStep, FileStep, PhaseStep, OpeningStep, WrittenStep, SessionStep
  <2>3. CurrentComplete' /\ LogInv'
    BY <2>1, <2>2, CompleteStep, LogStep
  <2>4. EditTables' /\ NewDBEmpty' /\ LiveInv' /\ ObsoleteInv' /\ TablesPresent'
    BY <2>1, <2>2, EditTablesStep, NewDBStep, LiveStep, ObsoleteStep, PresentStep
  <2> QED BY <2>2, <2>3, <2>4 DEF RecoveryInv
<1> QED BY <1>1, <1>2, PTL DEF Spec

\* The variables of the database's files and of its lives keep their types.
THEOREM RecoveryTypeCorrect == Spec => []TypeOK
<1>1. RecoveryInv => TypeOK
  BY DEF RecoveryInv
<1> QED BY <1>1, RecoveryInductive, PTL

\* Whenever the machine may stop, the manifest that CURRENT names has a synced edit:
\* SetCurrentFile comes after the manifest's fsync, and no Open takes the number again.
THEOREM CurrentCompleteHolds == Spec => []CurrentComplete
<1>1. RecoveryInv => CurrentComplete
  BY DEF RecoveryInv
<1> QED BY <1>1, RecoveryInductive, PTL

\* DeleteObsoleteFiles never deletes a table that the manifest on disk speaks of, and
\* no edit comes to the manifest before its table.
THEOREM TablesPresentHolds == Spec => []TablesPresent
<1>1. RecoveryInv => TablesPresent
  BY DEF RecoveryInv
<1> QED BY <1>1, RecoveryInductive, PTL

\* The deleted logs are those recovery passes over.
LEMMA DeletionRetired ==
  ASSUME PhaseInv, SessionInv, ObsoleteInv, NEW f, OpenDelete(f) \/ FlushDelete(f),
         f[1] = "log", ParsedNumber(f[2]) = f[2]
  PROVE  f[2] < DurableLog
<1>1. (pc = "delete" \/ bpc = "delete") /\ f \in obsolete
  BY DEF OpenDelete, FlushDelete, DeleteFile
<1>2. pc \in InstalledPcs /\ bpc # "install"
  BY <1>1, NothingPending
<1>3. /\ CURRENT = manifest_file_number /\ manifest_file_number \in DOMAIN manifests
      /\ Manifest.synced > 0 /\ log_number = DurableEdit.log
  BY <1>2 DEF SessionInv
<1>4. DurableLog = DurableEdit.log
  BY <1>3 DEF DurableLog, DurableEdit, Manifest
<1>5. f[2] < log_number
  BY <1>1 DEF ObsoleteInv
<1> QED BY <1>3, <1>4, <1>5

\* What a step does to a log with synced records.
LEMMA SyncedLogKept ==
  ASSUME TypeOK, FileInv, LogInv, [Next]_vars, NEW n \in SyncedLogs,
         \A f : OpenDelete(f) \/ FlushDelete(f) => ~(f[1] = "log" /\ f[2] = n)
  PROVE  n \in DOMAIN logs' /\ ~(logs'[n].synced < logs[n].synced)
<1>0. n \in DOMAIN logs /\ logs[n] \in File(Entry) /\ logs[n].synced \in Nat
  BY DEF SyncedLogs, TypeOK, File
<1>1. CASE n \in DOMAIN logs' /\ logs'[n].synced = logs[n].synced
  BY <1>0, <1>1
<1>2. CASE NewLog \/ Rotate
  <2>1. /\ pc \in OpeningPcs \cup {"install"} \cup InstalledPcs
        /\ logs' = With(logs, next_file_number, Empty)
    BY <1>2 DEF NewLog, Rotate, OpeningPcs, InstalledPcs, SessionPcs
  <2>2. n < next_file_number /\ next_file_number \in Nat
    BY <2>1 DEF LogInv, TypeOK
  <2>3. n # next_file_number
    BY <2>2
  <2>4. n \in DOMAIN logs' /\ logs'[n] = logs[n]
    BY <1>0, <2>1, <2>3 DEF With
  <2> QED BY <1>1, <2>4
<1>3. ASSUME NEW f, OpenDelete(f) \/ FlushDelete(f)
      PROVE  n \in DOMAIN logs' /\ logs'[n] = logs[n]
  <2>1. DeleteFile(f)
    BY <1>3 DEF OpenDelete, FlushDelete
  <2>2. /\ \A m \in DOMAIN logs' : logs'[m] = logs[m]
        /\ \A m \in DOMAIN logs : m \notin DOMAIN logs' => f[1] = "log" /\ f[2] = m
    BY <2>1, DeletedFile
  <2> QED BY <1>0, <1>3, <2>2
<1>4. ASSUME NEW sync \in BOOLEAN, WriteLog(sync)
      PROVE  n \in DOMAIN logs' /\ ~(logs'[n].synced < logs[n].synced)
  <2>1. PICK rec : rec = [id |-> writes + 1, seq |-> last_sequence + 1]
    OBVIOUS
  <2>2. ToLog(rec, sync) /\ rec \in Entry
    BY <1>4, <2>1, BoundsAssumption DEF WriteLog, TypeOK, Entry
  <2>3. CASE logfilenum = n
    <3>1. PICK g : g = Appended(logs[n], rec)
      OBVIOUS
    <3>2. /\ g \in File(Entry) /\ g.synced = logs[n].synced
          /\ Len(g.data) = Len(logs[n].data) + 1
      BY <1>0, <2>2, <3>1, AppendedFile
    <3>3. Len(logs[n].data) \in Nat /\ logs[n].synced <= Len(logs[n].data)
      BY <1>0 DEF File, FileInv
    <3>4. Synced(g).synced = Len(g.data)
      BY <3>2, SyncedFile
    <3>5. PICK v : logs' = With(logs, n, v) /\ v.synced >= logs[n].synced /\ v.synced \in Nat
      BY <1>0, <2>2, <2>3, <3>1, <3>2, <3>3, <3>4 DEF ToLog
    <3>6. n \in DOMAIN logs' /\ logs'[n] = v
      BY <3>5 DEF With
    <3> QED BY <1>0, <3>5, <3>6
  <2>4. CASE logfilenum # n
    <3>1. logs' = logs \/ \E v : logs' = With(logs, logfilenum, v)
      BY <2>2 DEF ToLog
    <3>2. n \in DOMAIN logs' /\ logs'[n] = logs[n]
      BY <1>0, <2>4, <3>1 DEF With
    <3> QED BY <1>1, <3>2
  <2> QED BY <2>3, <2>4
<1>5. CASE PowerLoss
  <2>1. PICK c \in Cuts(logs) : logs' = AfterCut(logs, c)
    BY <1>5 DEF PowerLoss
  <2>2. \A m \in DOMAIN logs : logs[m] \in File(Entry) /\ logs[m].synced <= Len(logs[m].data)
    BY DEF TypeOK, FileInv
  <2>3. n \in DOMAIN logs' /\ logs'[n].synced = logs[n].synced
    BY <1>0, <2>1, <2>2, CutFiles
  <2> QED BY <1>1, <2>3
<1>6. CASE logs' = logs
  BY <1>0, <1>1, <1>6
<1>7. CASE Restart
  BY <1>5, <1>6, <1>7, Restarted
<1>8. CASE \/ NewDBManifest \/ NewDBCurrent \/ VersionRecover \/ ListFiles \/ ReplayRecord
           \/ ReplayEnd \/ NewManifest \/ ManifestEdit \/ ManifestSync \/ SetCurrentFile
           \/ OpenInstall \/ OpenReturns \/ FlushBuild \/ FlushEdit \/ FlushSync
           \/ FlushInstall \/ (\E sync \in BOOLEAN : WriteReturns(sync)) \/ UNCHANGED vars
  <2>1. logs' = logs
    BY <1>8 DEF NewDBManifest, NewDBCurrent, VersionRecover, ListFiles, ReplayRecord,
       ReplayEnd, NewManifest, ManifestEdit, ManifestSync, SetCurrentFile, OpenInstall,
       OpenReturns, FlushBuild, FlushEdit, FlushSync, FlushInstall, WriteReturns, vars, disk
  <2> QED BY <1>6, <2>1
<1> QED
  BY <1>1, <1>2, <1>3, <1>4, <1>7, <1>8 DEF Next, Restart

\* Opening again after any crash, no step deletes or truncates a log with synced
\* records before an edit is on disk that makes recovery pass over it.
THEOREM LogRetiredHolds == Spec => LogRetired
<1>1. RecoveryInv /\ [Next]_vars =>
        \A n \in DOMAIN logs :
          (/\ logs[n].synced > 0 /\ ParsedNumber(n) = n
           /\ n \notin DOMAIN logs' \/ logs'[n].synced < logs[n].synced)
          => n < DurableLog
  <2> SUFFICES ASSUME RecoveryInv, [Next]_vars, NEW n \in DOMAIN logs,
                      logs[n].synced > 0, ParsedNumber(n) = n,
                      n \notin DOMAIN logs' \/ logs'[n].synced < logs[n].synced
               PROVE  n < DurableLog
    OBVIOUS
  <2>1. TypeOK /\ FileInv /\ PhaseInv /\ SessionInv /\ ObsoleteInv /\ LogInv
    BY DEF RecoveryInv
  <2>2. n \in SyncedLogs
    BY DEF SyncedLogs
  <2>3. PICK f : (OpenDelete(f) \/ FlushDelete(f)) /\ f[1] = "log" /\ f[2] = n
    BY <2>1, <2>2, SyncedLogKept
  <2>4. f[2] < DurableLog
    BY <2>1, <2>3, DeletionRetired
  <2> QED BY <2>3, <2>4
<1> QED BY <1>1, RecoveryInductive, PTL DEF Spec, LogRetired
=============================================================================
