-------------------------------- MODULE Wal --------------------------------
(***************************************************************************)
(* One log file (a write-ahead log or a manifest): walWriter cuts records  *)
(* into frames laid out in blocks, WritableFile buffers and writes them, a *)
(* crash loses what was not written or not synced, and Reader scans what   *)
(* is left.                                                                *)
(*                                                                         *)
(* A record is its index in `appended', which holds its size.  `frames' is *)
(* what walWriter appends, one stream of bytes; `file' is where copies of  *)
(* these frames lie in the file, which is the same only as long as every   *)
(* write(2) takes all it is given.  What lies between the frames of the    *)
(* file is padding or the remains of a frame; the reader takes neither for *)
(* a frame: it fails the test of the length, of the type or of the         *)
(* checksum, and ReadRecord returns false each time.                       *)
(***************************************************************************)
EXTENDS Integers, Sequences

CONSTANTS BlockSize,    \* kBlockSize
          HeaderSize,   \* kHeaderSize
          BufferSize,   \* kWritableFileBufferSize
          PartialLengths, \* the parts a write(2) may take
          Sizes,        \* the sizes of records
          MaxRecords    \* bound: calls of Appendrecord

ASSUME BlockAssumption  == /\ HeaderSize \in Nat \ {0}
                           /\ BlockSize \in Nat /\ BlockSize > HeaderSize
ASSUME BufferAssumption == /\ BufferSize \in Nat /\ BufferSize >= 2 * BlockSize
                           /\ PartialLengths \subseteq Nat \ {0}
ASSUME RecordAssumption == Sizes \subseteq Nat \ {0} /\ MaxRecords \in Nat

VARIABLES
  pc,           \* the writer: "idle", "append", "flush"; "dead" after the crash
  appended,     \* the sizes of the records passed to Appendrecord
  size,         \* what is left of the last one
  block_offset, \* walWriter::block_offset
  frames,       \* the frames handed to the file, in order
  alen,         \* bytes appended to the WritableFile
  buf,          \* the last of them that are in buf_: WritableFile::offset
  file,         \* the frames that lie in the file, each with its place there
  flen,         \* the length of the file
  torn,         \* a write(2) took a part of buf_ (history)
  synced,       \* bytes that fsync covered
  covered,      \* frames appended when Sync last returned Ok (history)
  rpc,          \* the reader: "off", "read", "done"
  rpos,         \* where backing_store_ begins in the file
  end_of_buffer_offset_, eof_,
  delivered,    \* the frames that ReadRecord returned as records
  undefined     \* what ReadPhysicalRecord returned when it ran off its end, or "none"

fVars == <<buf, file, flen, torn>>
sVars == <<synced, covered>>
wVars == <<pc, appended, size, block_offset, frames, alen, fVars, sVars>>
rVars == <<rpc, rpos, end_of_buffer_offset_, eof_, delivered, undefined>>
vars == <<wVars, rVars>>

Types == {"kFullType", "kFirstType"}
Frame == [pos : Nat, type : Types, rec : Nat, off : Nat, len : Nat]
EndOf(f) == f.pos + HeaderSize + f.len

Init ==
  /\ pc = "idle" /\ appended = <<>> /\ size = 0 /\ block_offset = 0
  /\ frames = <<>> /\ alen = 0 /\ buf = 0
  /\ file = {} /\ flen = 0 /\ torn = FALSE /\ synced = 0 /\ covered = 0
  /\ rpc = "off" /\ rpos = 0 /\ end_of_buffer_offset_ = 0 /\ eof_ = FALSE
  /\ delivered = <<>> /\ undefined = "none"
-----------------------------------------------------------------------------
\* The writer.  Appendrecord is called with a batch or with an encoded edit.
Appendrecord(n) ==
  /\ pc = "idle" /\ Len(appended) < MaxRecords
  /\ pc' = "append" /\ appended' = Append(appended, n) /\ size' = n
  /\ UNCHANGED <<block_offset, frames, alen, fVars, sVars, rVars>>

BlockLeft == BlockSize - block_offset

\* Mutant: block_offset is reset and the rest of the block is not filled.
PaddingNone == 0

\* A block with no room for a header is filled up.
Padding == IF BlockLeft < HeaderSize THEN BlockLeft ELSE 0
FrameOffset == IF BlockLeft < HeaderSize THEN 0 ELSE block_offset
Avail == BlockSize - FrameOffset - HeaderSize

\* Mutant: the fragment is not cut to what is available.
FragmentUncut == size

Fragment == IF size <= Avail THEN size ELSE Avail

\* begin is never cleared, and end is the fragment's length taken as a bool, so
\* that every frame is kFullType but an empty one.
FrameType == IF Fragment > 0 THEN "kFullType" ELSE "kFirstType"

\* One round of the loop up to file->Flush(): padding, header and fragment go to buf_.
Flushphyrecord ==
  /\ pc = "append"
  /\ frames' = Append(frames,
                 [pos |-> alen + Padding, type |-> FrameType, rec |-> Len(appended),
                  off |-> appended[Len(appended)] - size, len |-> Fragment])
  /\ alen' = alen + Padding + HeaderSize + Fragment
  /\ buf' = buf + Padding + HeaderSize + Fragment
  /\ block_offset' = FrameOffset + HeaderSize + Fragment
  /\ size' = size - Fragment
  /\ pc' = "flush"
  /\ UNCHANGED <<appended, file, flen, torn, sVars, rVars>>

\* The loop of WritableFile::Flush.  Every write(2) is given all of buf_, from its
\* beginning.  Copies(at, n): the frames in the first n bytes of buf_, as they lie in
\* the file when these are written at the position at.
Copies(at, n) ==
  {[frames[i] EXCEPT !.pos = at + (@ - (alen - buf))] :
     i \in {j \in 1..Len(frames) : /\ alen - buf <= frames[j].pos
                                   /\ EndOf(frames[j]) <= alen - buf + n}}

WriteAll ==
  /\ file' = file \union Copies(flen, buf) /\ flen' = flen + buf
  /\ torn' = torn

WriteNone == UNCHANGED <<file, flen, torn>>

\* A write takes n bytes and is followed by one that takes the first m again.
\* Bound: one such write for each file.
WriteShort(n, m) ==
  /\ ~torn /\ n < buf
  /\ file' = file \union Copies(flen, n) \union Copies(flen + n, m)
  /\ flen' = flen + n + m
  /\ torn' = TRUE

\* The loop ends with Ok when the writes add up to offset: after one that took a part
\* only if the next takes just as much as is missing.
FlushOk ==
  /\ WriteAll \/ \E n \in PartialLengths : WriteShort(n, buf - n)
  /\ buf' = 0

\* Otherwise it ends when a write fails: at once, after a part, or, as size has passed
\* zero, after whole copies of buf_ (one is enough to show it).  buf_ is kept and the
\* next Flush writes it again.  Bound: only while buf_ has room for padding and a block
\* (see WritableFile::Append for the rest).
BufferRoom == buf + HeaderSize + BlockSize <= BufferSize

FlushError ==
  /\ BufferRoom
  /\ WriteNone \/ \E n \in PartialLengths, m \in {0, buf} : WriteShort(n, m)
  /\ buf' = buf

\* The end of a round and the loop's test.  Appendrecord does not look at what
\* file->Flush() returned.
Loop ==
  /\ pc = "flush" /\ pc' = IF size > 0 THEN "append" ELSE "idle"
  /\ UNCHANGED <<appended, size, block_offset, frames, alen, sVars, rVars>>

FlushWritten == Loop /\ FlushOk
FlushFailed  == Loop /\ FlushError

\* WritableFile::Sync: the fsync of the directory (for a log; Ismanifest is the
\* wrong way round), Flush, fsync.
SyncOk ==
  /\ pc = "idle" /\ FlushOk
  /\ synced' = flen' /\ covered' = Len(frames)
  /\ UNCHANGED <<pc, appended, size, block_offset, frames, alen, rVars>>

SyncFailed ==
  /\ pc = "idle"
  /\ FlushError \/ FlushOk
  /\ UNCHANGED <<pc, appended, size, block_offset, frames, alen, sVars, rVars>>

\* The process or the machine stops, or the file is dropped without a flush.  The
\* next Open reads the file from its start.
Crash ==
  /\ pc # "dead"
  /\ pc' = "dead" /\ rpc' = "read"
  /\ \E n \in synced..flen : flen' = n
  /\ UNCHANGED <<appended, size, block_offset, frames, alen, buf, file, torn, sVars, rpos,
                 end_of_buffer_offset_, eof_, delivered, undefined>>
-----------------------------------------------------------------------------
\* The reader: the loop of RecoverLogFile (or VersionSet::Recover) around
\* ReadRecord around ReadPhysicalRecord.  Every type but kFullType ends it.
Backing == end_of_buffer_offset_ - rpos
Unread == IF flen - end_of_buffer_offset_ < BlockSize
          THEN flen - end_of_buffer_offset_ ELSE BlockSize

\* Mutant: backing_store_ is not cleared before the read.
FillKeepTail ==
  /\ rpc = "read" /\ Backing < HeaderSize /\ ~eof_
  /\ Unread > 0
  /\ end_of_buffer_offset_' = end_of_buffer_offset_ + Unread
  /\ eof_' = (Unread < BlockSize)
  /\ UNCHANGED <<wVars, rpos, rpc, delivered, undefined>>

Fill ==
  /\ rpc = "read" /\ Backing < HeaderSize /\ ~eof_
  /\ Unread > 0
  /\ rpos' = end_of_buffer_offset_
  /\ end_of_buffer_offset_' = end_of_buffer_offset_ + Unread
  /\ eof_' = (Unread < BlockSize)
  /\ UNCHANGED <<wVars, rpc, delivered, undefined>>

\* Nothing was read: the function ends without a return, with eof_ as it was.  If what
\* the build happens to return is kFullType, an empty record is delivered, which the
\* caller skips, and all is as before.
FillNothing ==
  /\ rpc = "read" /\ Backing < HeaderSize /\ ~eof_
  /\ Unread = 0
  /\ rpos' = end_of_buffer_offset_
  /\ undefined' \in (IF undefined = "none" THEN {"kFullType", "other"} ELSE {undefined})
  /\ rpc' = IF undefined' = "kFullType" THEN "read" ELSE "done"
  /\ UNCHANGED <<wVars, end_of_buffer_offset_, eof_, delivered>>

ReadEof ==
  /\ rpc = "read" /\ Backing < HeaderSize /\ eof_
  /\ rpos' = end_of_buffer_offset_ /\ rpc' = "done"
  /\ UNCHANGED <<wVars, end_of_buffer_offset_, eof_, delivered, undefined>>

\* The frame f has its header at the reader's place, and all of it was read.
Intact(f) == f.pos = rpos /\ EndOf(f) <= end_of_buffer_offset_

\* Mutant: the frame is not taken off backing_store_.
ReadRecordAgain(f) ==
  /\ rpc = "read" /\ Backing >= HeaderSize
  /\ Intact(f) /\ Len(delivered) < 2 * MaxRecords
  /\ IF f.type = "kFullType"
     THEN delivered' = Append(delivered, f) /\ rpc' = rpc
     ELSE delivered' = delivered /\ rpc' = "done"
  /\ UNCHANGED <<wVars, rpos, end_of_buffer_offset_, eof_, undefined>>

ReadRecord(f) ==
  /\ rpc = "read" /\ Backing >= HeaderSize
  /\ Intact(f)
  /\ rpos' = EndOf(f)
  /\ IF f.type = "kFullType"
     THEN delivered' = Append(delivered, f) /\ rpc' = rpc
     ELSE delivered' = delivered /\ rpc' = "done"
  /\ UNCHANGED <<wVars, end_of_buffer_offset_, eof_, undefined>>

\* Mutant: the loop goes on after a bad record, which is left in backing_store_.
ReadBadKept ==
  /\ rpc = "read" /\ Backing >= HeaderSize
  /\ \A f \in file : ~Intact(f)
  /\ UNCHANGED vars

\* A length that does not fit, or bytes that fail the checksum: kEof or kBadRecord.
ReadBad ==
  /\ rpc = "read" /\ Backing >= HeaderSize
  /\ \A f \in file : ~Intact(f)
  /\ rpos' = end_of_buffer_offset_ /\ rpc' = "done"
  /\ UNCHANGED <<wVars, end_of_buffer_offset_, eof_, delivered, undefined>>

Reading == Fill \/ FillNothing \/ ReadEof \/ ReadBad \/ \E f \in file : ReadRecord(f)

Next ==
  \/ \E n \in Sizes : Appendrecord(n)
  \/ Flushphyrecord \/ FlushWritten \/ FlushFailed \/ SyncOk \/ SyncFailed \/ Crash
  \/ Reading

Spec == Init /\ [][Next]_vars

\* Open runs the reader's loop to its end.
FairSpec == Spec /\ WF_vars(Reading)
-----------------------------------------------------------------------------
\* The values the variables take; buf_ never holds more than it has room for, and
\* no frame is longer than a block (block_offset is at most kBlockSize).
TypeOK ==
  /\ pc \in {"idle", "append", "flush", "dead"} /\ rpc \in {"off", "read", "done"}
  /\ appended \in Seq(Nat) /\ size \in Nat
  /\ block_offset \in 0..BlockSize
  /\ frames \in Seq(Frame) /\ delivered \in Seq(Frame)
  /\ alen \in Nat /\ buf \in 0..alen /\ buf <= BufferSize
  /\ file \subseteq Frame /\ flen \in Nat /\ torn \in BOOLEAN
  /\ synced \in 0..flen /\ covered \in 0..Len(frames)
  /\ rpos \in Nat /\ end_of_buffer_offset_ \in Nat
  /\ eof_ \in BOOLEAN /\ undefined \in {"none", "kFullType", "other"}

\* p is where a block begins.
BlockStart(p) == \E k \in 0..p : p = k * BlockSize

\* The frame f lies within one block.
InBlock(f) == \E p \in 0..f.pos : BlockStart(p) /\ EndOf(f) <= p + BlockSize

\* The position in the file and walWriter's own block_offset stay in step, over
\* padding, full blocks and writes that failed, and every frame of the file lies within
\* one block: what the assert at the head of Flushphyrecord is there to guarantee.  It
\* is so as long as no write has taken a part.
FramesInBlocks ==
  ~torn =>
    /\ pc # "dead" => BlockStart(flen + buf - block_offset)
    /\ \A f \in file : InBlock(f)

\* The reader returns frames that were written, each once, in order and without a
\* gap, whatever failed and whatever the crash has cut off, if no write has taken a part.
ReadsPrefix ==
  ~torn =>
    /\ Len(delivered) <= Len(frames)
    /\ \A i \in 1..Len(delivered) : delivered[i] = frames[i]

\* The reader returned the frame, wherever in the file it was.
Returned(f) == \E k \in 1..Len(delivered) : [delivered[k] EXCEPT !.pos = f.pos] = f

\* What Sync is for: when the reader has stopped it has returned every frame that was
\* appended before a Sync that returned Ok, as far as the first empty frame.  It has
\* not when a write took a part and the retry repeated it.
SyncedReturned ==
  rpc = "done" =>
    \A i \in 1..covered : (\A j \in 1..i : frames[j].len > 0) => Returned(frames[i])

\* Without such a write it has: neither padding nor a block boundary nor a failed
\* write stops the reader early.
SyncedRead == ~torn => SyncedReturned

\* The scan of a log comes to its end, whatever is in the file, padding, torn frames
\* and copies of frames included, unless a read of nothing, which leaves eof_ FALSE and
\* the return value to the build, happens to return kFullType: then it goes on for ever.
ReaderEnds == rpc = "read" ~> rpc = "done" \/ undefined = "kFullType"

\* What recovery is there for: a record comes back as it was appended.  It does not
\* when the record crosses a block boundary: every piece comes back as a record.
RecordsWhole ==
  \A i \in 1..Len(delivered) :
    delivered[i].off = 0 /\ delivered[i].len = appended[delivered[i].rec]
=============================================================================
