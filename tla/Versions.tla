------------------------------ MODULE Versions ------------------------------
(***************************************************************************)
(* Versions and the manifest: VersionEdit with its encoding,               *)
(* VersionSet::Builder (Apply and SaveTo), LogAndApply, WriteSnapshot,     *)
(* Recover and Finalize, over sessions that end anywhere.                  *)
(*                                                                         *)
(* Recovery takes a version for a set of tables and asks which files are   *)
(* on disk; here a version is the ordered list per level that the program  *)
(* keeps, and a manifest is the fields it writes and reads.  A table is    *)
(* its number and its smallest and largest key; keys are ranked by cmp.    *)
(* Compact pointers are left out: only PickCompaction sets them, and       *)
(* it is not reached: Finalize never scores level 0.                       *)
(***************************************************************************)
EXTENDS Integers, Sequences, FiniteSets, SequencesExt

CONSTANTS Keys,         \* internal keys, as their ranks in cmp's order
          NumLevels,    \* config::kNumLevels
          MaxReplayed,  \* bound: tables that one replay of the logs writes
          MaxOpens      \* bound: calls of Open

ASSUME LevelsAssumption == Keys \subseteq Nat /\ NumLevels \in Nat \ {0, 1}
                           /\ MaxReplayed \in Nat /\ MaxOpens \in Nat

Levels == 0..(NumLevels - 1)
FileMate == [num : Nat, smallest : Keys, largest : Keys]

VARIABLES
  manifest,     \* the records of the manifest that CURRENT names
  descriptor,   \* the records of descriptor_file; <<>> when descriptor_log is null
  isCurrent,    \* CURRENT names descriptor_file
  next_file_number, log_number, last_sequence,  \* VersionSet
  nowversion,   \* level -> the tables, in order
  versionlist,  \* the versions in memory
  score,        \* nowversion->compaction_score >= 1
  edit, v,      \* the edit of the LogAndApply under way and its version
  logfilenum, imm,
  flushed,      \* PosixEnv's background thread has run its one call
  pc, caller,   \* the thread in LogAndApply, and who called it
  opens,
  installed     \* history: the tables of the edits installed in this session

vset == <<next_file_number, log_number, last_sequence, nowversion, versionlist, score>>
vars == <<manifest, descriptor, isCurrent, vset, edit, v, logfilenum, imm, flushed,
          pc, caller, opens, installed>>

\* An optional number is a sequence of length 0 (has_... is false) or 1.
NoEdit == [log |-> <<>>, next |-> <<>>, seq |-> <<>>, deleted |-> {}, new |-> <<>>]
NoFiles == [level \in Levels |-> <<>>]
-----------------------------------------------------------------------------
\* EncodeTo, as the sequence of its tagged fields.
Number(tag, n) == [i \in DOMAIN n |-> [tag |-> tag, number |-> n[i]]]

EncodeTo(e) ==
  Number("kLogNumber", e.log) \o Number("kNextFileNumber", e.next)
  \o Number("kLastSequence", e.seq)
  \o [i \in 1..Cardinality(e.deleted) |-> [tag |-> "kDeletedFile", at |-> SetToSeq(e.deleted)[i]]]
  \o [i \in DOMAIN e.new |-> [tag |-> "kNewFile", level |-> e.new[i].level, file |-> e.new[i].file]]

\* One field of DecodeFrom.  The tags it does not know do not occur: EncodeTo writes
\* one more, kCompactPointer, but without compact pointers no field has it.
DecodeField(e, f) ==
  CASE f.tag = "kLogNumber"      -> [e EXCEPT !.log = <<f.number>>]
    [] f.tag = "kNextFileNumber" -> [e EXCEPT !.next = <<f.number>>]
    [] f.tag = "kLastSequence"   -> [e EXCEPT !.seq = <<f.number>>]
    [] f.tag = "kDeletedFile"    -> [e EXCEPT !.deleted = @ \cup {f.at}]
    [] f.tag = "kNewFile"        -> [e EXCEPT !.new = Append(@, [level |-> f.level, file |-> f.file])]

DecodeFrom(record) ==
  LET decoded[i \in 0..Len(record)] ==
        IF i = 0 THEN NoEdit ELSE DecodeField(decoded[i - 1], record[i])
  IN decoded[Len(record)]
-----------------------------------------------------------------------------
\* BySmallestKey, with ties broken by the number.
BySmallestKey(f, g) ==
  f.smallest < g.smallest \/ (f.smallest = g.smallest /\ f.num < g.num)

Builder(base) == [base |-> base, deleted |-> [l \in Levels |-> {}],
                  added |-> [l \in Levels |-> {}]]

\* Apply: a number that is added is no longer deleted, and added_files is a
\* std::set, which does not take a second file that BySmallestKey cannot tell apart.
NewAt(e, l) == {e.new[i].file : i \in {j \in DOMAIN e.new : e.new[j].level = l}}

Apply(b, e) ==
  [b EXCEPT
    !.deleted = [l \in Levels |-> (@[l] \cup {d[2] : d \in {x \in e.deleted : x[1] = l}})
                                  \ {f.num : f \in NewAt(e, l)}],
    !.added = [l \in Levels |-> @[l] \cup {f \in NewAt(e, l) :
                 \A g \in @[l] : BySmallestKey(f, g) \/ BySmallestKey(g, f)}]]

\* The first file of added_files.
First(files) == CHOOSE f \in files : \A g \in files \ {f} : BySmallestKey(f, g)

\* MaybeAddFile.
MaybeAddFile(out, deleted, f) == IF f.num \in deleted THEN out ELSE Append(out, f)

\* SaveTo takes a base file next: there is no added file left, or upper_bound puts
\* the first of them behind it.
BaseNext(s) ==
  s.added = {} \/ (s.base # <<>> /\ ~BySmallestKey(First(s.added), Head(s.base)))

TakeNext(s, deleted) ==
  IF BaseNext(s)
  THEN [s EXCEPT !.out = MaybeAddFile(@, deleted, Head(s.base)), !.base = Tail(@)]
  ELSE [s EXCEPT !.out = MaybeAddFile(@, deleted, First(s.added)), !.added = @ \ {First(s.added)}]

\* Mutant: the base files after the last added one are forgotten.
SaveLevelNoRest(base, added, deleted) ==
  LET saved[i \in 0..(Len(base) + Cardinality(added))] ==
        IF i = 0 THEN [out |-> <<>>, base |-> base, added |-> added]
        ELSE IF saved[i - 1].added = {} THEN saved[i - 1] ELSE TakeNext(saved[i - 1], deleted)
  IN saved[Len(base) + Cardinality(added)].out

\* SaveTo for one level, file by file: before each added file go the base files up to
\* it, after the last one the rest.
SaveLevel(base, added, deleted) ==
  LET saved[i \in 0..(Len(base) + Cardinality(added))] ==
        IF i = 0 THEN [out |-> <<>>, base |-> base, added |-> added]
        ELSE TakeNext(saved[i - 1], deleted)
  IN saved[Len(base) + Cardinality(added)].out

SaveTo(b) == [l \in Levels |-> SaveLevel(b.base[l], b.added[l], b.deleted[l])]

\* Finalize: the best score over the levels but the first and the last is at least
\* 1.  A level with any table counts as full, which the code's sizes do not exceed.
Finalize(version) == \E l \in 1..(NumLevels - 2) : Len(version[l]) > 0
-----------------------------------------------------------------------------
Volatile ==
  /\ descriptor' = <<>> /\ isCurrent' = FALSE
  /\ nowversion' = NoFiles /\ score' = FALSE
  /\ edit' = NoEdit /\ v' = NoFiles
  /\ logfilenum' = 0 /\ imm' = FALSE /\ flushed' = FALSE
  /\ caller' = "Open" /\ installed' = {}

\* NewDB has written its manifest.
Init ==
  /\ manifest = <<EncodeTo([NoEdit EXCEPT !.log = <<0>>, !.next = <<2>>, !.seq = <<0>>])>>
  /\ descriptor = <<>> /\ isCurrent = FALSE
  /\ next_file_number = 2 /\ log_number = 0 /\ last_sequence = 0
  /\ nowversion = NoFiles /\ versionlist = {NoFiles} /\ score = FALSE
  /\ edit = NoEdit /\ v = NoFiles
  /\ logfilenum = 0 /\ imm = FALSE /\ flushed = FALSE
  /\ pc = "closed" /\ caller = "Open" /\ opens = 0 /\ installed = {}

\* Recover's loop over the records of a manifest: the last number of each kind, and
\* one Builder that all edits are applied to.
Latest(old, new) == IF new = <<>> THEN old ELSE new

ReadRecord(s, e) ==
  [log |-> Latest(s.log, e.log), next |-> Latest(s.next, e.next), seq |-> Latest(s.seq, e.seq),
   builder |-> Apply(s.builder, e)]

ReadAll(records) ==
  LET read[i \in 0..Len(records)] ==
        IF i = 0 THEN [log |-> <<>>, next |-> <<>>, seq |-> <<>>, builder |-> Builder(NoFiles)]
        ELSE ReadRecord(read[i - 1], DecodeFrom(records[i]))
  IN read[Len(records)]

\* What Recover makes of it.
Replayed(records) ==
  LET end == ReadAll(records)
  IN [log |-> end.log[1], next |-> end.next[1], seq |-> end.seq[1],
      version |-> SaveTo(end.builder)]

\* VersionSet::Recover puts the version on versionlist; nowversion stays empty, and
\* Finalize speaks of it.
Recover ==
  /\ pc = "closed" /\ opens < MaxOpens
  /\ LET r == Replayed(manifest)
     IN /\ next_file_number' = r.next + 1
        /\ log_number' = r.log
        /\ last_sequence' = r.seq
        /\ versionlist' = {NoFiles, r.version}
        /\ score' = Finalize(r.version)
  /\ pc' = "replay" /\ opens' = opens + 1
  /\ UNCHANGED <<manifest, descriptor, isCurrent, nowversion, edit, v, logfilenum, imm,
                 flushed, caller, installed>>

\* WriteLevel0Table: a number, a table, and its place in the edit.
AddFile(range, e) ==
  [e EXCEPT !.new = Append(@, [level |-> 0, file |->
     [num |-> next_file_number, smallest |-> range[1], largest |-> range[2]]])]

Ranges == {r \in Keys \X Keys : r[1] <= r[2]}

\* RecoverLogFile; a first Open has no logs.
ReplayTable(range) ==
  /\ pc = "replay" /\ opens > 1 /\ Len(edit.new) < MaxReplayed
  /\ edit' = AddFile(range, edit)
  /\ next_file_number' = next_file_number + 1
  /\ UNCHANGED <<manifest, descriptor, isCurrent, log_number, last_sequence, nowversion,
                 versionlist, score, v, logfilenum, imm, flushed, pc, caller, opens, installed>>

\* Mutant: the number of the log is not taken.
NewLogNoNumber ==
  /\ pc = "replay"
  /\ logfilenum' = next_file_number
  /\ edit' = [edit EXCEPT !.log = <<next_file_number>>]
  /\ pc' = "apply"
  /\ UNCHANGED <<manifest, descriptor, isCurrent, vset, v, imm, flushed, caller, opens, installed>>

\* Open gives the session a log and calls LogAndApply.
NewLog ==
  /\ pc = "replay"
  /\ logfilenum' = next_file_number
  /\ next_file_number' = next_file_number + 1
  /\ edit' = [edit EXCEPT !.log = <<next_file_number>>]
  /\ pc' = "apply"
  /\ UNCHANGED <<manifest, descriptor, isCurrent, log_number, last_sequence, nowversion,
                 versionlist, score, v, imm, flushed, caller, opens, installed>>

\* MakeRoomForwrite, after a memtable's worth of writes.
Rotate ==
  /\ pc = "open" /\ ~imm
  /\ last_sequence' = last_sequence + 1
  /\ logfilenum' = next_file_number
  /\ next_file_number' = next_file_number + 1
  /\ imm' = TRUE
  /\ UNCHANGED <<manifest, descriptor, isCurrent, log_number, nowversion, versionlist, score,
                 edit, v, flushed, pc, caller, opens, installed>>

\* CompactMemTable up to LogAndApply.
Flush(range) ==
  /\ pc = "open" /\ imm /\ ~flushed
  /\ edit' = [AddFile(range, NoEdit) EXCEPT !.log = <<logfilenum>>]
  /\ next_file_number' = next_file_number + 1
  /\ flushed' = TRUE
  /\ pc' = "apply" /\ caller' = "Flush"
  /\ UNCHANGED <<manifest, descriptor, isCurrent, log_number, last_sequence, nowversion,
                 versionlist, score, v, logfilenum, imm, opens, installed>>
-----------------------------------------------------------------------------
\* WriteSnapshot's record; Appendrecord writes nothing for an empty one.
Snapshot(version) ==
  EncodeTo([NoEdit EXCEPT !.new = FlattenSeq([i \in 1..NumLevels |->
    [j \in DOMAIN version[i - 1] |-> [level |-> i - 1, file |-> version[i - 1][j]]]])])

\* Mutant: the last number given out in place of the next one.
StampLastFile(e) == [e EXCEPT !.next = <<next_file_number - 1>>, !.seq = <<last_sequence>>]

\* SetNextFile and SetLastSequence of LogAndApply.
Stamp(e) == [e EXCEPT !.next = <<next_file_number>>, !.seq = <<last_sequence>>]

\* LogAndApply under the mutex.  Finalize writes to nowversion, not to v.
LogAndApply ==
  /\ pc = "apply"
  /\ edit' = Stamp(edit)
  /\ v' = SaveTo(Apply(Builder(nowversion), edit))
  /\ score' = Finalize(v')
  /\ descriptor' = IF descriptor # <<>> \/ Snapshot(nowversion) = <<>> THEN descriptor
                   ELSE <<Snapshot(nowversion)>>
  /\ pc' = "write"
  /\ UNCHANGED <<manifest, isCurrent, next_file_number, log_number, last_sequence, nowversion,
                 versionlist, logfilenum, imm, flushed, caller, opens, installed>>

\* Mutant: a failure of Appendrecord is taken for success.
WriteEditLost ==
  /\ pc = "write"
  /\ pc' = "current"
  /\ UNCHANGED <<manifest, descriptor, isCurrent, vset, edit, v, logfilenum, imm, flushed,
                 caller, opens, installed>>

\* The edit goes to the manifest, ...
WriteEdit ==
  /\ pc = "write"
  /\ descriptor' = Append(descriptor, EncodeTo(edit))
  /\ manifest' = IF isCurrent THEN descriptor' ELSE manifest
  /\ pc' = "current"
  /\ UNCHANGED <<isCurrent, vset, edit, v, logfilenum, imm, flushed, caller, opens, installed>>

\* ... CURRENT names it, if it is new, ...
SetCurrentFile ==
  /\ pc = "current"
  /\ isCurrent' = TRUE /\ manifest' = descriptor
  /\ pc' = "install"
  /\ UNCHANGED <<descriptor, vset, edit, v, logfilenum, imm, flushed, caller, opens, installed>>

\* ... and the version is installed, with a score of its own that nothing has set.
Install ==
  /\ pc = "install"
  /\ nowversion' = v /\ score' = FALSE
  /\ versionlist' = versionlist \cup {v}
  /\ log_number' = edit.log[1]
  /\ imm' = (imm /\ caller = "Open")
  /\ installed' = installed \cup NewAt(edit, 0)
  /\ edit' = NoEdit /\ v' = NoFiles
  /\ pc' = "open"
  /\ UNCHANGED <<manifest, descriptor, isCurrent, next_file_number, last_sequence, logfilenum,
                 flushed, caller, opens>>

\* A write, an fsync or the rename fails: Open gives up, a flush leaves bg_error.
LogAndApplyFails ==
  /\ pc \in {"write", "current"}
  /\ IF caller = "Open"
     THEN /\ Volatile /\ pc' = "closed"
          /\ next_file_number' = 2 /\ log_number' = 0 /\ last_sequence' = 0
          /\ versionlist' = {NoFiles}
     ELSE /\ descriptor' = <<>> /\ pc' = "error"
          /\ UNCHANGED <<isCurrent, vset, edit, v, logfilenum, imm, flushed, caller, installed>>
  /\ UNCHANGED <<manifest, opens>>

\* The process ends, here or there.
Stop ==
  /\ pc # "closed"
  /\ Volatile /\ pc' = "closed"
  /\ next_file_number' = 2 /\ log_number' = 0 /\ last_sequence' = 0
  /\ versionlist' = {NoFiles}
  /\ UNCHANGED <<manifest, opens>>

Next ==
  \/ Recover \/ NewLog \/ Rotate
  \/ (\E range \in Ranges : ReplayTable(range) \/ Flush(range))
  \/ LogAndApply \/ WriteEdit \/ SetCurrentFile \/ Install \/ LogAndApplyFails
  \/ Stop

Spec == Init /\ [][Next]_vars
-----------------------------------------------------------------------------
Version == [Levels -> Seq(FileMate)]

\* The values the variables take.
TypeOK ==
  /\ manifest # <<>> /\ isCurrent \in BOOLEAN /\ score \in BOOLEAN
  /\ next_file_number \in Nat /\ log_number \in Nat /\ last_sequence \in Nat
  /\ nowversion \in Version /\ v \in Version /\ versionlist \subseteq Version
  /\ logfilenum \in Nat /\ imm \in BOOLEAN /\ flushed \in BOOLEAN
  /\ pc \in {"closed", "replay", "apply", "write", "current", "install", "open", "error"}
  /\ caller \in {"Open", "Flush"} /\ opens \in 0..MaxOpens /\ installed \subseteq FileMate

\* The merge of SaveTo, one edit at a time, gives what sorting would: level 0 of the
\* current version is every table of the session's edits, once, in BySmallestKey order
\* (which the next merge relies on), though tables overlap and smallest keys may tie.
VersionExact ==
  /\ Range(nowversion[0]) = installed
  /\ \A i, j \in DOMAIN nowversion[0] : i < j => BySmallestKey(nowversion[0][i], nowversion[0][j])
  /\ \A l \in Levels \ {0} : nowversion[l] = <<>>

\* The manifest is the current version: whenever no LogAndApply is under way, one
\* Builder over all edits read back gives nowversion and its log, and a next file
\* number that is beyond every table and log in use.
ReplayAgrees ==
  pc = "open" =>
    LET r == Replayed(manifest)
    IN /\ r.version = nowversion /\ r.log = log_number
       /\ log_number < r.next /\ r.next <= next_file_number
       /\ \A i \in DOMAIN nowversion[0] : nowversion[0][i].num < r.next

\* The asserts at the head of LogAndApply: the log of an edit is not older than the
\* one in force, and its number has been given out, also after a reopen.
EditLogKnown ==
  pc = "apply" => log_number <= edit.log[1] /\ edit.log[1] < next_file_number
=============================================================================
