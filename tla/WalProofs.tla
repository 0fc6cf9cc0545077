----------------------------- MODULE WalProofs -----------------------------
(***************************************************************************)
(* The log file, for every block, header and buffer size and every         *)
(* sequence of records: the types (with the bound on the write buffer),    *)
(* that each frame lies within one block, and that the reader returns a    *)
(* prefix of the frames that holds all that was synced, as long as no      *)
(* write(2) takes a part of what it is given.                              *)
(***************************************************************************)
EXTENDS Wal, TLAPS

\* What Appendrecord's loop carries from round to round: something is left to
\* write, and buf_ has room for the padding and the frame of the next round.
LoopInv ==
  /\ pc \in {"append", "flush"} =>
       Len(appended) > 0 /\ size <= appended[Len(appended)]
  /\ pc = "append" => size > 0
  /\ pc \in {"idle", "append"} => BufferRoom

\* The layout of what walWriter appends, whatever becomes of it in the file: a block
\* begins block_offset bytes back, and each frame lies within one block.
StreamInBlocks ==
  /\ BlockStart(alen - block_offset)
  /\ \A i \in 1..Len(frames) : InBlock(frames[i])

IInv == TypeOK /\ LoopInv /\ StreamInBlocks

-----------------------------------------------------------------------------
\* Block starts: the first, and the one after each.
LEMMA BlockStartZero == BlockStart(0)
<1>1. 0 \in 0..0 /\ 0 = 0 * BlockSize
  BY BlockAssumption
<1> QED BY <1>1 DEF BlockStart

LEMMA BlockStartNext ==
  ASSUME NEW p \in Nat, BlockStart(p)
  PROVE  BlockStart(p + BlockSize)
<1>1. PICK k \in 0..p : p = k * BlockSize
  BY DEF BlockStart
<1>2. k \in Nat /\ BlockSize \in Nat /\ BlockSize > 0
  BY BlockAssumption
<1>3. p + BlockSize = (k + 1) * BlockSize
  BY <1>1, <1>2
<1>4. k + 1 \in 0..(p + BlockSize)
  BY <1>2
<1> QED BY <1>3, <1>4 DEF BlockStart

\* The numbers of one round of the loop: the fragment fits in what is left of the
\* block after padding, and the round appends at most a header and a block.
LEMMA RoundBounds ==
  ASSUME block_offset \in 0..BlockSize, size \in Nat
  PROVE  /\ Padding \in Nat /\ Padding < HeaderSize
         /\ FrameOffset \in Nat /\ Fragment \in Nat /\ Fragment <= size
         /\ FrameOffset + HeaderSize + Fragment <= BlockSize
         /\ \/ Padding = 0 /\ FrameOffset = block_offset
            \/ Padding = BlockSize - block_offset /\ FrameOffset = 0
  BY BlockAssumption DEF Padding, FrameOffset, Fragment, Avail, BlockLeft

\* The block of the frame that a round writes: it begins FrameOffset bytes before
\* the frame, in the block that was open or in the next one.
LEMMA RoundBlock ==
  ASSUME TypeOK, BlockStart(alen - block_offset)
  PROVE  /\ alen + Padding - FrameOffset \in Nat
         /\ BlockStart(alen + Padding - FrameOffset)
<1>1. alen \in Nat /\ block_offset \in 0..BlockSize /\ size \in Nat /\ BlockSize \in Nat
  BY BlockAssumption DEF TypeOK
<1>2. alen - block_offset \in Nat
  BY <1>1 DEF BlockStart
<1>3. CASE Padding = 0 /\ FrameOffset = block_offset
  <2>1. alen + Padding - FrameOffset = alen - block_offset
    BY <1>1, <1>3
  <2> QED BY <2>1, <1>2
<1>4. CASE Padding = BlockSize - block_offset /\ FrameOffset = 0
  <2>1. alen + Padding - FrameOffset = (alen - block_offset) + BlockSize
    BY <1>1, <1>4
  <2>2. BlockStart((alen - block_offset) + BlockSize)
    BY <1>2, BlockStartNext
  <2> QED BY <2>1, <2>2, <1>1, <1>2
<1> QED BY <1>1, <1>3, <1>4, RoundBounds
-----------------------------------------------------------------------------
LEMMA InitInv == Init => IInv
<1> SUFFICES ASSUME Init PROVE IInv
  OBVIOUS
<1>1. TypeOK
  <2>1. /\ block_offset \in 0..BlockSize /\ alen \in Nat /\ flen \in Nat
        /\ buf \in 0..alen /\ buf <= BufferSize /\ synced \in 0..flen
        /\ size \in Nat /\ rpos \in Nat /\ end_of_buffer_offset_ \in Nat
    BY BlockAssumption, BufferAssumption DEF Init
  <2>2. /\ appended \in Seq(Nat) /\ frames \in Seq(Frame) /\ delivered \in Seq(Frame)
        /\ file \subseteq Frame /\ covered \in 0..Len(frames)
    BY DEF Init
  <2>3. eof_ \in BOOLEAN /\ undefined \in {"none", "kFullType", "other"} /\ torn \in BOOLEAN
    BY DEF Init
  <2> QED BY <2>1, <2>2, <2>3 DEF Init, TypeOK
<1>2. LoopInv
  BY BlockAssumption, BufferAssumption DEF Init, LoopInv, BufferRoom
<1>3. StreamInBlocks
  BY BlockStartZero DEF Init, StreamInBlocks
<1> QED BY <1>1, <1>2, <1>3 DEF IInv

\* A round of the loop: Flushphyrecord preserves the invariant.
LEMMA FlushphyrecordInv ==
  ASSUME IInv, Flushphyrecord
  PROVE  IInv'
<1> DEFINE f == [pos |-> alen + Padding, type |-> FrameType, rec |-> Len(appended),
                 off |-> appended[Len(appended)] - size, len |-> Fragment]
<1>1. /\ pc = "append" /\ pc' = "flush"
      /\ frames' = Append(frames, f)
      /\ alen' = alen + Padding + HeaderSize + Fragment
      /\ block_offset' = FrameOffset + HeaderSize + Fragment
      /\ buf' = buf + Padding + HeaderSize + Fragment
      /\ size' = size - Fragment
      /\ UNCHANGED <<appended, file, flen, torn, synced, covered, rVars>>
  BY DEF Flushphyrecord, sVars
<1>2. TypeOK /\ LoopInv /\ StreamInBlocks
  BY DEF IInv
<1>3. /\ block_offset \in 0..BlockSize /\ size \in Nat /\ alen \in Nat
      /\ buf \in 0..alen /\ appended \in Seq(Nat) /\ covered \in 0..Len(frames)
      /\ BlockSize \in Nat /\ HeaderSize \in Nat /\ BufferSize \in Nat
      /\ frames \in Seq(Frame)
  BY <1>2, BlockAssumption, BufferAssumption DEF TypeOK
<1>4. /\ Padding \in Nat /\ Padding < HeaderSize
      /\ FrameOffset \in Nat /\ Fragment \in Nat /\ Fragment <= size
      /\ FrameOffset + HeaderSize + Fragment <= BlockSize
  BY <1>3, RoundBounds
<1>5. /\ Len(appended) \in Nat /\ appended[Len(appended)] \in Nat
      /\ size <= appended[Len(appended)] /\ Len(appended) > 0
      /\ buf + HeaderSize + BlockSize <= BufferSize
  <2>1. Len(appended) > 0 /\ size <= appended[Len(appended)]
    BY <1>1, <1>2 DEF LoopInv
  <2>2. Len(appended) \in 1..Len(appended)
    BY <2>1, <1>3
  <2> QED BY <1>1, <1>2, <1>3, <2>1, <2>2 DEF LoopInv, BufferRoom
<1>6. f \in Frame
  <2>1. f.pos \in Nat /\ f.off \in Nat /\ f.len \in Nat /\ f.rec \in Nat
    BY <1>3, <1>4, <1>5
  <2>2. FrameType \in Types
    BY DEF FrameType, Types
  <2> QED BY <2>1, <2>2 DEF Frame
<1>7. TypeOK'
  <2>1. alen' \in Nat /\ buf' \in 0..alen' /\ size' \in Nat
    BY <1>1, <1>3, <1>4
  <2>2. block_offset' \in 0..BlockSize
    BY <1>1, <1>3, <1>4
  <2>3. frames' \in Seq(Frame)
    BY <1>1, <1>3, <1>6
  <2>4. buf' <= BufferSize
    BY <1>1, <1>3, <1>4, <1>5
  <2>6. covered' \in 0..Len(frames')
    BY <1>1, <1>3
  <2>5. UNCHANGED <<appended, rpc, rpos, end_of_buffer_offset_, eof_, delivered, undefined>>
    BY <1>1 DEF rVars
  <2> QED BY <1>1, <1>2, <2>1, <2>2, <2>3, <2>4, <2>5, <2>6 DEF TypeOK
<1>8. LoopInv'
  BY <1>1, <1>3, <1>4, <1>5 DEF LoopInv
<1>9. StreamInBlocks'
  <2> DEFINE p == alen + Padding - FrameOffset
  <2>1. p \in Nat /\ BlockStart(p)
    BY <1>2, RoundBlock DEF StreamInBlocks
  <2>2. BlockStart(alen' - block_offset')
    <3>1. alen' - block_offset' = p
      BY <1>1, <1>3, <1>4
    <3> QED BY <2>1, <3>1
  <2>3. p \in 0..f.pos /\ EndOf(f) <= p + BlockSize
    BY <2>1, <1>3, <1>4 DEF EndOf
  <2>4. ASSUME NEW i \in 1..Len(frames')
        PROVE  \E q \in 0..frames'[i].pos :
                 BlockStart(q) /\ EndOf(frames'[i]) <= q + BlockSize
    <3>1. CASE i = Len(frames) + 1
      <4>1. frames'[i] = f
        BY <1>1, <1>3, <3>1
      <4> HIDE DEF f, p
      <4> QED BY <4>1, <2>1, <2>3
    <3>2. CASE i # Len(frames) + 1
      <4>0. Len(frames') = Len(frames) + 1 /\ Len(frames) \in Nat
        BY <1>1, <1>3
      <4>1. i \in 1..Len(frames)
        BY <3>2, <4>0
      <4>2. frames'[i] = frames[i]
        BY <1>1, <1>3, <4>1
      <4> QED BY <4>1, <4>2, <1>2 DEF StreamInBlocks, InBlock
    <3> QED BY <3>1, <3>2
  <2>5. StreamInBlocks' = (/\ BlockStart(alen' - block_offset')
                           /\ \A i \in 1..Len(frames') :
                                \E q \in 0..frames'[i].pos :
                                  BlockStart(q) /\ EndOf(frames'[i]) <= q + BlockSize)
    BY DEF StreamInBlocks, InBlock, BlockStart, EndOf
  <2> HIDE DEF p
  <2> QED BY <2>2, <2>4, <2>5
<1> QED BY <1>7, <1>8, <1>9 DEF IInv

\* The steps that leave the writer's layout alone keep StreamInBlocks.
LEMMA LayoutUnchanged ==
  ASSUME StreamInBlocks, UNCHANGED <<alen, block_offset, frames>>
  PROVE  StreamInBlocks'
  BY DEF StreamInBlocks, InBlock, BlockStart, EndOf

\* What goes to the file are frames.
LEMMA CopiesFrames ==
  ASSUME TypeOK, NEW at \in Nat, NEW n \in Int
  PROVE  Copies(at, n) \subseteq Frame
<1> SUFFICES ASSUME NEW i \in 1..Len(frames), alen - buf <= frames[i].pos
             PROVE  [frames[i] EXCEPT !.pos = at + (@ - (alen - buf))] \in Frame
  BY DEF Copies
<1>1. frames[i] \in Frame /\ alen \in Nat /\ buf \in 0..alen
  BY DEF TypeOK
<1>2. frames[i].pos \in Nat
  BY <1>1 DEF Frame
<1>3. at + (frames[i].pos - (alen - buf)) \in Nat
  BY <1>1, <1>2
<1> QED BY <1>1, <1>3 DEF Frame

\* One Flush: the file grows by frames, buf_ is emptied or kept; while no write has
\* taken a part, the file takes all of buf_ or nothing.
LEMMA FlushEffect ==
  ASSUME TypeOK, FlushOk \/ FlushError
  PROVE  /\ file' \subseteq Frame /\ flen' \in Nat /\ flen' >= flen
         /\ torn' \in BOOLEAN /\ (torn => torn')
         /\ buf' = 0 \/ (buf' = buf /\ BufferRoom)
         /\ FlushOk => buf' = 0
         /\ ~torn' => \/ /\ file' = file \union Copies(flen, buf)
                         /\ flen' = flen + buf /\ buf' = 0
                      \/ /\ FlushError /\ file' = file /\ flen' = flen /\ buf' = buf
<1>1. /\ flen \in Nat /\ buf \in Nat /\ file \subseteq Frame /\ torn \in BOOLEAN
  BY DEF TypeOK
<1>2. \A n \in PartialLengths : n \in Nat
  BY BufferAssumption
<1>3. \A at \in Nat, n \in Int : Copies(at, n) \subseteq Frame
  BY CopiesFrames
<1>4. CASE FlushOk /\ WriteAll
  <2>1. buf \in Int /\ Copies(flen, buf) \subseteq Frame
    BY <1>1, <1>3
  <2>2. buf' = 0
    BY <1>4 DEF FlushOk
  <2> QED BY <1>1, <1>4, <2>1, <2>2 DEF WriteAll
<1>5. CASE WriteNone /\ FlushError
  BY <1>1, <1>5 DEF WriteNone, FlushError, FlushOk
<1>6. ASSUME NEW n \in PartialLengths, NEW m \in {0, buf, buf - n}, WriteShort(n, m)
      PROVE  file' \subseteq Frame /\ flen' \in Nat /\ flen' >= flen /\ torn' = TRUE
  <2>1. n \in Nat /\ m \in Nat
    BY <1>1, <1>2, <1>6 DEF WriteShort
  <2>2. Copies(flen, n) \subseteq Frame /\ Copies(flen + n, m) \subseteq Frame
    BY <1>1, <1>3, <2>1
  <2> QED BY <1>1, <1>6, <2>1, <2>2 DEF WriteShort
<1>7. CASE FlushOk /\ ~WriteAll
  <2>1. PICK n \in PartialLengths : WriteShort(n, buf - n)
    BY <1>7 DEF FlushOk
  <2> QED BY <1>6, <1>7, <2>1 DEF FlushOk
<1>8. CASE FlushError /\ ~WriteNone
  <2>1. PICK n \in PartialLengths, m \in {0, buf} : WriteShort(n, m)
    BY <1>8 DEF FlushError
  <2>2. ~FlushOk \/ buf' = 0
    BY DEF FlushOk
  <2> QED BY <1>6, <1>8, <2>1, <2>2 DEF FlushError
<1> QED BY <1>4, <1>5, <1>7, <1>8

\* A Flush keeps the invariant, whether Appendrecord or Sync calls it.
LEMMA FlushKeeps ==
  ASSUME IInv, FlushOk \/ FlushError, pc \in {"idle", "flush"},
         pc' \in {"idle", "append"}, pc = "idle" => pc' = "idle",
         pc' = "append" => size > 0,
         UNCHANGED <<appended, size, block_offset, frames, alen, rVars>>,
         \/ UNCHANGED <<synced, covered>>
         \/ synced' = flen' /\ covered' = Len(frames)
  PROVE  IInv'
<1>1. TypeOK /\ LoopInv /\ StreamInBlocks
  BY DEF IInv
<1>2. /\ flen \in Nat /\ buf \in 0..alen /\ alen \in Nat /\ synced \in 0..flen
      /\ covered \in 0..Len(frames) /\ Len(frames) \in Nat /\ BufferSize \in Nat
      /\ buf <= BufferSize
  BY <1>1, BufferAssumption DEF TypeOK
<1>3. /\ file' \subseteq Frame /\ flen' \in Nat /\ flen' >= flen
      /\ torn' \in BOOLEAN
      /\ buf' = 0 \/ (buf' = buf /\ BufferRoom)
  BY <1>1, FlushEffect
<1>4. synced' \in 0..flen' /\ covered' \in 0..Len(frames')
  BY <1>2, <1>3
<1>5. TypeOK'
  <2>1. UNCHANGED <<rpc, rpos, end_of_buffer_offset_, eof_, delivered, undefined>>
    BY DEF rVars
  <2>2. buf' \in 0..alen' /\ buf' <= BufferSize
    BY <1>2, <1>3
  <2> QED BY <1>1, <1>3, <1>4, <2>1, <2>2 DEF TypeOK
<1>6. LoopInv'
  <2>1. BufferRoom'
    BY <1>2, <1>3, BlockAssumption, BufferAssumption DEF BufferRoom
  <2> QED BY <1>1, <2>1 DEF LoopInv
<1> QED BY <1>1, <1>5, <1>6, LayoutUnchanged DEF IInv

\* The reader's steps change nothing of the writer.
LEMMA ReaderInv ==
  ASSUME IInv, UNCHANGED wVars,
         rpc' \in {"off", "read", "done"}, rpos' \in Nat, end_of_buffer_offset_' \in Nat,
         eof_' \in BOOLEAN, undefined' \in {"none", "kFullType", "other"},
         delivered' \in Seq(Frame)
  PROVE  IInv'
<1>1. UNCHANGED <<pc, appended, size, block_offset, frames, alen, buf, file, flen, torn,
                  synced, covered>>
  BY DEF wVars, fVars, sVars
<1>2. TypeOK'
  BY <1>1 DEF IInv, TypeOK
<1>3. LoopInv'
  BY <1>1 DEF IInv, LoopInv, BufferRoom
<1> QED BY <1>1, <1>2, <1>3, LayoutUnchanged DEF IInv

LEMMA NextInv == IInv /\ [Next]_vars => IInv'
<1> SUFFICES ASSUME IInv, [Next]_vars PROVE IInv'
  OBVIOUS
<1>0. TypeOK /\ LoopInv /\ StreamInBlocks /\ BlockSize \in Nat /\ HeaderSize \in Nat /\ BufferSize \in Nat
  BY BlockAssumption, BufferAssumption DEF IInv
<1>1. ASSUME NEW n \in Sizes, Appendrecord(n) PROVE IInv'
  <2>1. n \in Nat /\ n > 0
    BY RecordAssumption
  <2>2. TypeOK'
    BY <1>0, <1>1, <2>1 DEF TypeOK, Appendrecord, rVars, fVars, sVars
  <2>3. LoopInv'
    <3>1. appended \in Seq(Nat) /\ appended' = Append(appended, n) /\ size' = n /\ pc = "idle"
      BY <1>0, <1>1 DEF Appendrecord, TypeOK
    <3>2. Len(appended') > 0 /\ appended'[Len(appended')] = n
      BY <3>1, <2>1
    <3> QED BY <1>0, <1>1, <2>1, <3>1, <3>2 DEF LoopInv, Appendrecord, BufferRoom, fVars
  <2>4. UNCHANGED <<alen, block_offset, frames>>
    BY <1>1 DEF Appendrecord
  <2> QED BY <1>0, <2>2, <2>3, <2>4, LayoutUnchanged DEF IInv
<1>2. CASE Flushphyrecord
  BY <1>2, FlushphyrecordInv
<1>3. CASE FlushWritten \/ FlushFailed
  <2>1. size \in Nat
    BY <1>0 DEF TypeOK
  <2>2. /\ FlushOk \/ FlushError
        /\ pc = "flush" /\ pc' \in {"idle", "append"} /\ (pc' = "append" => size > 0)
        /\ UNCHANGED <<appended, size, block_offset, frames, alen, rVars>>
        /\ UNCHANGED <<synced, covered>>
    BY <1>3, <2>1 DEF FlushWritten, FlushFailed, Loop, sVars
  <2> QED BY <2>2, FlushKeeps
<1>4. CASE SyncOk
  BY <1>4, FlushKeeps DEF SyncOk
<1>5. CASE SyncFailed
  BY <1>5, FlushKeeps DEF SyncFailed, sVars
<1>6. CASE Crash
  <2>1. TypeOK'
    BY <1>0, <1>6 DEF TypeOK, Crash, sVars
  <2>2. LoopInv'
    BY <1>0, <1>6 DEF LoopInv, Crash
  <2> QED BY <1>0, <1>6, <2>1, <2>2, LayoutUnchanged DEF IInv, Crash
<1>7. CASE Fill
  <2>1. flen \in Nat /\ end_of_buffer_offset_ \in Nat
    BY <1>0 DEF TypeOK
  <2>2. Unread \in Int
    BY <1>0, <2>1 DEF Unread
  <2> QED BY <1>0, <1>7, <2>1, <2>2, ReaderInv DEF Fill, TypeOK
<1>8. CASE FillNothing
  BY <1>0, <1>8, ReaderInv DEF FillNothing, TypeOK
<1>9. CASE ReadEof
  BY <1>0, <1>9, ReaderInv DEF ReadEof, TypeOK
<1>10. CASE ReadBad
  BY <1>0, <1>10, ReaderInv DEF ReadBad, TypeOK
<1>11. ASSUME NEW f \in file, ReadRecord(f) PROVE IInv'
  <2>1. f \in Frame
    BY <1>0 DEF TypeOK
  <2>2. EndOf(f) \in Nat
    BY <1>0, <2>1 DEF EndOf, Frame
  <2>3. delivered' \in Seq(Frame) /\ rpc' \in {"off", "read", "done"}
    <3>1. delivered \in Seq(Frame) /\ rpc = "read"
      BY <1>0, <1>11 DEF ReadRecord, TypeOK
    <3>2. CASE f.type = "kFullType"
      <4>1. delivered' = Append(delivered, f) /\ rpc' = rpc
        BY <1>11, <3>2 DEF ReadRecord
      <4> QED BY <2>1, <3>1, <4>1
    <3>3. CASE f.type # "kFullType"
      <4>1. delivered' = delivered /\ rpc' = "done"
        BY <1>11, <3>3 DEF ReadRecord
      <4> QED BY <3>1, <4>1
    <3> QED BY <3>2, <3>3
  <2> QED BY <1>0, <1>11, <2>2, <2>3, ReaderInv DEF ReadRecord, TypeOK
<1>12. CASE UNCHANGED vars
  <2>1. UNCHANGED wVars /\ UNCHANGED rVars
    BY <1>12 DEF vars
  <2> QED BY <1>0, <2>1, ReaderInv DEF rVars, TypeOK
<1> QED
  BY <1>1, <1>2, <1>3, <1>4, <1>5, <1>6, <1>7, <1>8, <1>9, <1>10, <1>11, <1>12 DEF Next, Reading

\* The layout that walWriter gives its frames is sound for every block and header
\* size, and the write buffer is not overrun while a failed write leaves room for a
\* block in it (the bound BufferRoom).
THEOREM LayoutInv == Spec => []IInv
<1> QED BY InitInv, NextInv, PTL DEF Spec

\* Type correctness of the log writer and reader.
THEOREM WalTypeCorrect == Spec => []TypeOK
<1>1. IInv => TypeOK
  BY DEF IInv
<1> QED BY <1>1, LayoutInv, PTL
-----------------------------------------------------------------------------
\* Frames lie one after the other, up to what has been appended.
FramesOrdered ==
  \A i \in 1..Len(frames) :
    /\ EndOf(frames[i]) <= alen
    /\ \A j \in 1..Len(frames) : i < j => EndOf(frames[i]) <= frames[j].pos

\* Where the reader is: it starts when the writer is dead, it has filled its
\* buffer with whole blocks unless it saw the end of the file, and it has not
\* passed the start of a frame it has not returned, but all that it has.
ReaderPlace ==
  /\ pc # "dead" => rpc = "off"
  /\ rpc = "off" => rpos = 0 /\ delivered = <<>>
  /\ ~eof_ => BlockStart(end_of_buffer_offset_)
  /\ rpos <= end_of_buffer_offset_
  /\ \A j \in 1..Len(frames) : j <= Len(delivered) => EndOf(frames[j]) <= rpos
  /\ rpc # "done" =>
       \A j \in 1..Len(frames) : j > Len(delivered) => frames[j].pos >= rpos

\* The file is the beginning of the stream, buf_ the rest of it; what was appended
\* before a successful Sync is in the synced part.
FileIsStream ==
  /\ pc # "dead" => flen + buf = alen
  /\ \A f \in file : \E i \in 1..Len(frames) : f = frames[i]
  /\ \A i \in 1..Len(frames) : frames[i] \in file \/ frames[i].pos >= flen
  /\ \A i \in 1..covered : EndOf(frames[i]) <= synced

\* A write that takes a part ends it; all else is about the files without one.
PInv == IInv /\ FramesOrdered /\ (~torn => FileIsStream /\ ReaderPlace /\ ReadsPrefix)

\* The numbers of a frame.
LEMMA FrameNumbers ==
  ASSUME TypeOK, NEW j \in 1..Len(frames)
  PROVE  /\ frames[j].pos \in Nat /\ frames[j].len \in Nat
         /\ EndOf(frames[j]) \in Nat /\ EndOf(frames[j]) >= frames[j].pos + HeaderSize
<1>1. frames[j] \in Frame
  BY DEF TypeOK
<1>2. frames[j].pos \in Nat /\ frames[j].len \in Nat /\ HeaderSize \in Nat
  BY <1>1, BlockAssumption DEF Frame
<1> QED BY <1>2 DEF EndOf

\* Of two block starts the later one leaves room for the block of the earlier one.
LEMMA BlockStartsApart ==
  ASSUME NEW p \in Nat, NEW q \in Nat, BlockStart(p), BlockStart(q), p < q
  PROVE  p + BlockSize <= q
<1>1. PICK k \in 0..p : p = k * BlockSize
  BY DEF BlockStart
<1>2. PICK m \in 0..q : q = m * BlockSize
  BY DEF BlockStart
<1>3. k \in Nat /\ m \in Nat /\ BlockSize \in Nat /\ BlockSize > 0
  BY BlockAssumption
<1>4. k < m
  <2>1. m <= k => m * BlockSize <= k * BlockSize
    BY <1>3
  <2> QED BY <1>1, <1>2, <1>3, <2>1
<1>5. (k + 1) * BlockSize <= m * BlockSize
  BY <1>3, <1>4
<1>6. (k + 1) * BlockSize = k * BlockSize + BlockSize
  BY <1>3
<1> QED BY <1>1, <1>2, <1>3, <1>5, <1>6

\* A tail of backing_store_ too short for a header holds the start of no frame, so
\* that the reader may drop it.
LEMMA TailHasNoFrame ==
  ASSUME TypeOK, StreamInBlocks, BlockStart(end_of_buffer_offset_),
         Backing < HeaderSize,
         NEW j \in 1..Len(frames), frames[j].pos >= rpos
  PROVE  frames[j].pos >= end_of_buffer_offset_
<1>2. /\ frames[j].pos \in Nat /\ frames[j].len \in Nat /\ rpos \in Nat
      /\ end_of_buffer_offset_ \in Nat /\ HeaderSize \in Nat /\ BlockSize \in Nat
  BY FrameNumbers, BlockAssumption DEF TypeOK
<1> SUFFICES ASSUME frames[j].pos < end_of_buffer_offset_ PROVE FALSE
  BY <1>2
<1>3. PICK p \in 0..frames[j].pos :
        BlockStart(p) /\ EndOf(frames[j]) <= p + BlockSize
  BY DEF StreamInBlocks, InBlock
<1>4. p + BlockSize <= end_of_buffer_offset_
  BY <1>2, <1>3, BlockStartsApart
<1>5. frames[j].pos + HeaderSize <= end_of_buffer_offset_
  BY <1>2, <1>3, <1>4 DEF EndOf
<1> QED BY <1>2, <1>5 DEF Backing

\* The frame that ReadRecord takes is the first that it has not returned yet.
LEMMA TakesNextFrame ==
  ASSUME PInv, ~torn, NEW i \in 1..Len(frames), ReadRecord(frames[i])
  PROVE  i = Len(delivered) + 1
<1>1. TypeOK /\ FramesOrdered /\ ReaderPlace /\ ReadsPrefix /\ HeaderSize \in Nat \ {0}
  BY BlockAssumption DEF PInv, IInv
<1>2. rpc = "read" /\ frames[i].pos = rpos
  BY DEF ReadRecord, Intact
<1>3. Len(frames) \in Nat /\ Len(delivered) \in Nat /\ Len(delivered) <= Len(frames)
  BY <1>1 DEF TypeOK, ReadsPrefix
<1>4. ASSUME NEW j \in 1..Len(frames)
      PROVE  frames[j].pos \in Nat /\ frames[j].len \in Nat
  BY <1>1, FrameNumbers
<1>5. ASSUME i > Len(delivered) + 1 PROVE FALSE
  <2>1. Len(delivered) + 1 \in 1..Len(frames)
    BY <1>3, <1>5
  <2>2. frames[Len(delivered) + 1].pos >= rpos
    BY <1>1, <1>2, <1>3, <2>1 DEF ReaderPlace
  <2>3. EndOf(frames[Len(delivered) + 1]) <= frames[i].pos
    BY <1>1, <1>5, <2>1 DEF FramesOrdered
  <2> QED BY <1>1, <1>2, <1>4, <2>1, <2>2, <2>3, SMTT(20) DEF EndOf
<1>6. ASSUME i <= Len(delivered) PROVE FALSE
  <2>1. EndOf(frames[i]) <= rpos
    BY <1>1, <1>6 DEF ReaderPlace
  <2> QED BY <1>1, <1>2, <1>4, <2>1 DEF EndOf
<1> QED BY <1>3, <1>5, <1>6

\* A round of the loop: the new frame lies behind the others.
LEMMA RoundOrdered ==
  ASSUME IInv, FramesOrdered, Flushphyrecord
  PROVE  FramesOrdered'
<1> DEFINE f == [pos |-> alen + Padding, type |-> FrameType, rec |-> Len(appended),
                 off |-> appended[Len(appended)] - size, len |-> Fragment]
<1>1. /\ frames' = Append(frames, f)
      /\ alen' = alen + Padding + HeaderSize + Fragment
  BY DEF Flushphyrecord
<1>2. TypeOK /\ FramesOrdered
  BY DEF IInv
<1>3. /\ block_offset \in 0..BlockSize /\ size \in Nat /\ alen \in Nat
      /\ frames \in Seq(Frame) /\ HeaderSize \in Nat /\ BlockSize \in Nat
  BY <1>2, BlockAssumption DEF TypeOK
<1>4. Padding \in Nat /\ Fragment \in Nat
  BY <1>3, RoundBounds
<1>5. EndOf(f) = alen' /\ f.pos >= alen /\ f.pos \in Nat
  BY <1>1, <1>3, <1>4 DEF EndOf
<1>7. /\ Len(frames') = Len(frames) + 1 /\ Len(frames) \in Nat
      /\ frames'[Len(frames) + 1] = f
      /\ \A i \in 1..Len(frames) : frames'[i] = frames[i]
  BY <1>1, <1>3
<1>8. \A i \in 1..Len(frames) : EndOf(frames[i]) \in Nat /\ frames[i].pos \in Nat
  BY <1>2, FrameNumbers
<1>9. alen' \in Nat /\ alen' >= alen
  BY <1>1, <1>3, <1>4
<1> HIDE DEF f
<1>10. ASSUME NEW i \in 1..Len(frames')
       PROVE  /\ EndOf(frames'[i]) <= alen'
              /\ \A j \in 1..Len(frames') : i < j => EndOf(frames'[i]) <= frames'[j].pos
  <2>1. CASE i = Len(frames) + 1
    BY <1>5, <1>7, <1>9, <2>1
  <2>2. CASE i \in 1..Len(frames)
    <3>1. EndOf(frames'[i]) = EndOf(frames[i]) /\ EndOf(frames[i]) <= alen
      BY <1>2, <1>7, <2>2 DEF FramesOrdered
    <3>2. ASSUME NEW j \in 1..Len(frames'), i < j
          PROVE  EndOf(frames[i]) <= frames'[j].pos
      <4>1. CASE j = Len(frames) + 1
        BY <1>3, <1>5, <1>7, <1>8, <2>2, <3>1, <4>1
      <4>2. CASE j \in 1..Len(frames)
        BY <1>2, <1>7, <2>2, <3>2, <4>2 DEF FramesOrdered
      <4> QED BY <1>7, <4>1, <4>2
    <3> QED BY <1>3, <1>8, <1>9, <2>2, <3>1, <3>2
  <2> QED BY <1>7, <2>1, <2>2
<1>11. FramesOrdered'
  <2>1. FramesOrdered' =
          \A i \in 1..Len(frames') :
            /\ EndOf(frames'[i]) <= alen'
            /\ \A j \in 1..Len(frames') : i < j => EndOf(frames'[i]) <= frames'[j].pos
    BY DEF FramesOrdered, EndOf
  <2> QED BY <1>10, <2>1
<1> QED BY <1>11

\* The writer's steps happen before the reader starts.
LEMMA WriterOrdered ==
  ASSUME PInv, ~torn, Flushphyrecord
  PROVE  ReaderPlace' /\ ReadsPrefix'
<1>1. /\ pc = "append" /\ pc' = "flush"
      /\ UNCHANGED <<rpc, rpos, end_of_buffer_offset_, eof_, delivered>>
  BY DEF Flushphyrecord, rVars
<1>2. TypeOK /\ ReaderPlace
  BY DEF PInv, IInv
<1>3. TypeOK'
  BY FlushphyrecordInv DEF PInv, IInv
<1>4. rpc = "off" /\ rpos = 0 /\ delivered = <<>> /\ Len(delivered) = 0
  BY <1>1, <1>2 DEF ReaderPlace
<1>5. frames' \in Seq(Frame) /\ Len(frames') \in Nat
  BY <1>3 DEF TypeOK
<1>6. ASSUME NEW j \in 1..Len(frames') PROVE frames'[j].pos >= 0
  <2>1. frames'[j] \in Frame
    BY <1>5
  <2> QED BY <2>1 DEF Frame
<1>7. ReadsPrefix'
  BY <1>1, <1>4, <1>5 DEF ReadsPrefix
<1>8. ~eof_ => BlockStart(end_of_buffer_offset_)
  BY <1>2 DEF ReaderPlace
<1>9. rpos <= end_of_buffer_offset_
  BY <1>2 DEF ReaderPlace
<1>10. ReaderPlace'
  BY <1>1, <1>4, <1>6, <1>8, <1>9 DEF ReaderPlace, BlockStart
<1> QED BY <1>7, <1>10

\* The writer's other steps leave frames and the reader alone.
LEMMA FramesKept ==
  ASSUME PInv, ~torn, UNCHANGED <<frames, rpos, end_of_buffer_offset_, eof_, delivered>>,
         pc' # "dead" => rpc' = "off",
         rpc' = "off" => rpc = "off",
         rpc' # "done" => rpc # "done"
  PROVE  ReaderPlace' /\ ReadsPrefix'
<1>1. ReaderPlace /\ ReadsPrefix
  BY DEF PInv
<1>2. ReadsPrefix'
  BY <1>1 DEF ReadsPrefix
<1>3. ReaderPlace'
  BY <1>1 DEF ReaderPlace, EndOf, BlockStart
<1> QED BY <1>2, <1>3

\* The reader moves on to the end of what it has in its buffer: to the next block,
\* when it goes on.
LEMMA ReaderMoves ==
  ASSUME PInv, ~torn, rpc = "read", Backing < HeaderSize \/ rpc' = "done",
         UNCHANGED wVars, UNCHANGED delivered, rpos' = end_of_buffer_offset_,
         ~eof_ \/ rpc' = "done",
         rpc' \in {"read", "done"},
         end_of_buffer_offset_' \in Nat, end_of_buffer_offset_' >= end_of_buffer_offset_,
         ~eof_' => BlockStart(end_of_buffer_offset_')
  PROVE  ReaderPlace' /\ ReadsPrefix'
<1>1. /\ TypeOK /\ StreamInBlocks /\ FramesOrdered /\ ReaderPlace /\ ReadsPrefix
      /\ UNCHANGED <<pc, frames, alen>>
  BY DEF PInv, IInv, wVars
<1>3. ReadsPrefix'
  BY <1>1 DEF ReadsPrefix
<1>4. /\ rpos \in Nat /\ end_of_buffer_offset_ \in Nat /\ frames \in Seq(Frame)
      /\ HeaderSize \in Nat
  BY <1>1, BlockAssumption DEF TypeOK
<1>5. \A j \in 1..Len(frames) : EndOf(frames[j]) \in Nat
  BY <1>1, FrameNumbers
<1>6. \A j \in 1..Len(frames) : j <= Len(delivered) => EndOf(frames[j]) <= rpos'
  BY <1>1, <1>4, <1>5 DEF ReaderPlace
<1>7. ASSUME rpc' # "done"
      PROVE  \A j \in 1..Len(frames) : j > Len(delivered) => frames[j].pos >= rpos'
  BY <1>1, <1>7, TailHasNoFrame DEF ReaderPlace
<1>8. ReaderPlace'
  <2>1. pc' = "dead"
    BY <1>1 DEF ReaderPlace
  <2>2. (~eof_ => BlockStart(end_of_buffer_offset_))'
    BY DEF BlockStart
  <2>3. (\A j \in 1..Len(frames) : j <= Len(delivered) => EndOf(frames[j]) <= rpos)'
    BY <1>1, <1>6 DEF EndOf
  <2>4. (rpc # "done" =>
          \A j \in 1..Len(frames) : j > Len(delivered) => frames[j].pos >= rpos)'
    BY <1>1, <1>7
  <2> QED BY <2>1, <2>2, <2>3, <2>4 DEF ReaderPlace
<1> QED BY <1>3, <1>8

\* A frame is taken off the buffer.
LEMMA ReaderTakes ==
  ASSUME PInv, ~torn, NEW i \in 1..Len(frames), ReadRecord(frames[i])
  PROVE  ReaderPlace' /\ ReadsPrefix'
<1>1. /\ TypeOK /\ FramesOrdered /\ ReaderPlace /\ ReadsPrefix
      /\ UNCHANGED <<pc, frames, alen, end_of_buffer_offset_, eof_>>
      /\ rpc = "read" /\ rpos' = EndOf(frames[i])
      /\ EndOf(frames[i]) <= end_of_buffer_offset_ /\ frames[i].pos = rpos
  BY DEF PInv, IInv, ReadRecord, wVars, Intact
<1>2. i = Len(delivered) + 1
  BY TakesNextFrame
<1>4. /\ frames \in Seq(Frame) /\ delivered \in Seq(Frame) /\ rpos \in Nat
      /\ end_of_buffer_offset_ \in Nat /\ HeaderSize \in Nat
      /\ Len(delivered) \in Nat /\ Len(frames) \in Nat
  BY <1>1, BlockAssumption DEF TypeOK
<1>5. \A j \in 1..Len(frames) : EndOf(frames[j]) \in Nat /\ EndOf(frames[j]) >= frames[j].pos
                                 /\ frames[j].pos \in Nat
  BY <1>1, <1>4, FrameNumbers
<1>6. pc' = "dead"
  BY <1>1 DEF ReaderPlace
<1>7. (~eof_ => BlockStart(end_of_buffer_offset_))'
  BY <1>1 DEF ReaderPlace, BlockStart
<1>8. \A j \in 1..Len(frames) : j <= Len(delivered) => EndOf(frames[j]) <= rpos'
  BY <1>1, <1>4, <1>5 DEF ReaderPlace
<1>9. CASE frames[i].type = "kFullType"
  <2>1. delivered' = Append(delivered, frames[i]) /\ rpc' = rpc
    BY <1>9 DEF ReadRecord
  <2>2. /\ Len(delivered') = Len(delivered) + 1 /\ delivered'[Len(delivered) + 1] = frames[i]
        /\ \A j \in 1..Len(delivered) : delivered'[j] = delivered[j]
    BY <1>4, <2>1
  <2>3. ReadsPrefix'
    BY <1>1, <1>2, <1>4, <2>2 DEF ReadsPrefix
  <2>4. \A j \in 1..Len(frames) : j <= Len(delivered') => EndOf(frames[j]) <= rpos'
    BY <1>1, <1>2, <1>4, <1>5, <1>8, <2>2
  <2>5. \A j \in 1..Len(frames) : j > Len(delivered') => frames[j].pos >= rpos'
    BY <1>1, <1>2, <1>4, <1>5, <2>2 DEF FramesOrdered
  <2>6. ReaderPlace'
    BY <1>1, <1>6, <1>7, <2>1, <2>4, <2>5 DEF ReaderPlace, EndOf
  <2> QED BY <2>3, <2>6
<1>10. CASE frames[i].type # "kFullType"
  <2>1. delivered' = delivered /\ rpc' = "done"
    BY <1>10 DEF ReadRecord
  <2>2. ReadsPrefix'
    BY <1>1, <2>1 DEF ReadsPrefix
  <2>3. ReaderPlace'
    BY <1>1, <1>6, <1>7, <1>8, <2>1 DEF ReaderPlace, EndOf
  <2> QED BY <2>2, <2>3
<1> QED BY <1>9, <1>10

LEMMA PrefixInit == Init => PInv
<1> SUFFICES ASSUME Init PROVE PInv
  OBVIOUS
<1>1. Len(frames) = 0 /\ Len(delivered) = 0
  BY DEF Init
<1>2. FramesOrdered /\ ReadsPrefix
  BY <1>1 DEF FramesOrdered, ReadsPrefix
<1>3. ReaderPlace
  BY <1>1, BlockStartZero DEF Init, ReaderPlace
<1>4. FileIsStream
  BY <1>1 DEF Init, FileIsStream
<1> QED BY <1>2, <1>3, <1>4, InitInv DEF PInv

\* No step takes a write back.
LEMMA TornStays == IInv /\ [Next]_vars /\ ~torn' => ~torn
<1> SUFFICES ASSUME TypeOK, [Next]_vars, ~torn', torn PROVE FALSE
  BY DEF IInv
<1>1. CASE FlushOk \/ FlushError
  BY <1>1, FlushEffect
<1>2. torn' # torn
  OBVIOUS
<1>3. CASE \E n \in Sizes : Appendrecord(n)
  BY <1>2, <1>3 DEF Appendrecord, fVars
<1>4. CASE Flushphyrecord \/ Crash
  BY <1>2, <1>4 DEF Flushphyrecord, Crash
<1>5. CASE Reading
  BY <1>2, <1>5 DEF Reading, Fill, FillNothing, ReadEof, ReadBad, ReadRecord, wVars, fVars
<1>6. CASE UNCHANGED vars
  BY <1>2, <1>6 DEF vars, wVars, fVars
<1> QED BY <1>1, <1>3, <1>4, <1>5, <1>6
     DEF Next, FlushWritten, FlushFailed, SyncOk, SyncFailed

\* The steps that leave frames alone leave their order alone.
LEMMA OrderedNext == IInv /\ FramesOrdered /\ [Next]_vars => FramesOrdered'
<1> SUFFICES ASSUME IInv, FramesOrdered, [Next]_vars PROVE FramesOrdered'
  OBVIOUS
<1>1. CASE Flushphyrecord
  BY <1>1, RoundOrdered
<1>2. CASE UNCHANGED <<frames, alen>>
  BY <1>2 DEF FramesOrdered, EndOf
<1>3. CASE Reading
  BY <1>2, <1>3 DEF Reading, Fill, FillNothing, ReadEof, ReadBad, ReadRecord, wVars
<1>4. CASE \E n \in Sizes : Appendrecord(n)
  BY <1>2, <1>4 DEF Appendrecord
<1>5. CASE FlushWritten \/ FlushFailed \/ SyncOk \/ SyncFailed \/ Crash
  BY <1>2, <1>5 DEF FlushWritten, FlushFailed, Loop, SyncOk, SyncFailed, Crash
<1>6. CASE UNCHANGED vars
  BY <1>2, <1>6 DEF vars, wVars
<1> QED BY <1>1, <1>3, <1>4, <1>5, <1>6 DEF Next

\* A write of all of buf_ puts each of its frames at its own place.
LEMMA CopiesInPlace ==
  ASSUME TypeOK, FramesOrdered, FileIsStream, pc # "dead"
  PROVE  /\ \A f \in Copies(flen, buf) : \E i \in 1..Len(frames) : f = frames[i]
         /\ \A i \in 1..Len(frames) : frames[i] \in file \union Copies(flen, buf)
<1>1. /\ alen \in Nat /\ buf \in 0..alen /\ flen \in Nat /\ alen - buf = flen
      /\ frames \in Seq(Frame)
  BY DEF TypeOK, FileIsStream
<1>2. ASSUME NEW i \in 1..Len(frames)
      PROVE  [frames[i] EXCEPT !.pos = flen + (@ - (alen - buf))] = frames[i]
  <2>1. frames[i] \in Frame /\ frames[i].pos \in Nat
    <3>1. frames[i] \in Frame
      BY <1>1
    <3> QED BY <3>1 DEF Frame
  <2>2. flen + (frames[i].pos - (alen - buf)) = frames[i].pos
    BY <1>1, <2>1
  <2> QED BY <2>1, <2>2 DEF Frame
<1>3. \A f \in Copies(flen, buf) : \E i \in 1..Len(frames) : f = frames[i]
  BY <1>2 DEF Copies
<1>4. ASSUME NEW i \in 1..Len(frames), frames[i] \notin file
      PROVE  frames[i] \in Copies(flen, buf)
  <2>1. frames[i].pos >= flen /\ EndOf(frames[i]) <= alen
    BY <1>4 DEF FileIsStream, FramesOrdered
  <2>2. frames[i].pos \in Nat /\ EndOf(frames[i]) \in Nat
    BY FrameNumbers
  <2>3. alen - buf <= frames[i].pos /\ EndOf(frames[i]) <= alen - buf + buf
    BY <1>1, <2>1, <2>2
  <2> QED BY <1>2, <2>3 DEF Copies
<1> QED BY <1>3, <1>4

\* A Flush leaves the file the beginning of the stream, unless a write took a part.
LEMMA FlushStream ==
  ASSUME PInv, ~torn, ~torn', FlushOk \/ FlushError, pc # "dead",
         UNCHANGED <<frames, alen>>,
         \/ UNCHANGED <<synced, covered>>
         \/ FlushOk /\ synced' = flen' /\ covered' = Len(frames)
  PROVE  FileIsStream'
<1>1. TypeOK /\ FramesOrdered /\ FileIsStream
  BY DEF PInv, IInv
<1>2. /\ flen \in Nat /\ buf \in Nat /\ alen \in Nat /\ flen + buf = alen
  BY <1>1 DEF TypeOK, FileIsStream
<1>3. \/ /\ file' = file \union Copies(flen, buf) /\ flen' = flen + buf /\ buf' = 0
      \/ /\ FlushError /\ file' = file /\ flen' = flen /\ buf' = buf
  BY <1>1, FlushEffect
<1>4. flen' + buf' = alen'
  BY <1>2, <1>3
<1>5. \A f \in file' : \E i \in 1..Len(frames) : f = frames[i]
  BY <1>1, <1>3, CopiesInPlace DEF FileIsStream
<1>6. \A i \in 1..Len(frames) : frames[i] \in file' \/ frames[i].pos >= flen'
  BY <1>1, <1>3, CopiesInPlace DEF FileIsStream
<1>7. \A i \in 1..covered' : EndOf(frames[i]) <= synced'
  <2>1. CASE UNCHANGED <<synced, covered>>
    BY <1>1, <2>1 DEF FileIsStream
  <2>2. CASE FlushOk /\ synced' = flen' /\ covered' = Len(frames)
    <3>1. buf' = 0
      BY <2>2 DEF FlushOk
    <3>2. flen' = alen
      BY <1>2, <1>3, <3>1
    <3> QED BY <1>1, <2>2, <3>2 DEF FramesOrdered
  <2> QED BY <2>1, <2>2
<1> QED BY <1>4, <1>5, <1>6, <1>7 DEF FileIsStream, EndOf

LEMMA StreamNext ==
  ASSUME PInv, ~torn, ~torn', [Next]_vars
  PROVE  FileIsStream'
<1>0. TypeOK /\ FramesOrdered /\ FileIsStream
  BY DEF PInv, IInv
<1>1. CASE Flushphyrecord
  <2> DEFINE f == [pos |-> alen + Padding, type |-> FrameType, rec |-> Len(appended),
                   off |-> appended[Len(appended)] - size, len |-> Fragment]
  <2>1. /\ pc = "append" /\ pc' = "flush" /\ frames' = Append(frames, f)
        /\ alen' = alen + Padding + HeaderSize + Fragment
        /\ buf' = buf + Padding + HeaderSize + Fragment
        /\ UNCHANGED <<file, flen, synced, covered>>
    BY <1>1 DEF Flushphyrecord, sVars
  <2>2. /\ block_offset \in 0..BlockSize /\ size \in Nat /\ alen \in Nat /\ buf \in Nat
        /\ flen \in Nat /\ frames \in Seq(Frame) /\ HeaderSize \in Nat
        /\ covered \in 0..Len(frames) /\ Len(frames) \in Nat
    BY <1>0, BlockAssumption DEF TypeOK
  <2>3. Padding \in Nat /\ Fragment \in Nat
    BY <2>2, RoundBounds
  <2>4. flen + buf = alen
    BY <1>0, <2>1 DEF FileIsStream
  <2>5. flen' + buf' = alen' /\ f.pos >= flen
    BY <2>1, <2>2, <2>3, <2>4
  <2> HIDE DEF f
  <2>6. /\ Len(frames') = Len(frames) + 1 /\ frames'[Len(frames) + 1] = f
        /\ \A i \in 1..Len(frames) : frames'[i] = frames[i]
    BY <2>1, <2>2
  <2>7. \A g \in file' : \E i \in 1..Len(frames') : g = frames'[i]
    <3>1. \A i \in 1..Len(frames) : i \in 1..Len(frames')
      BY <2>2, <2>6
    <3> QED BY <1>0, <2>1, <2>6, <3>1 DEF FileIsStream
  <2>8. ASSUME NEW i \in 1..Len(frames')
        PROVE  frames'[i] \in file' \/ frames'[i].pos >= flen'
    <3>1. CASE i = Len(frames) + 1
      BY <2>1, <2>5, <2>6, <3>1
    <3>2. CASE i \in 1..Len(frames)
      BY <1>0, <2>1, <2>6, <3>2 DEF FileIsStream
    <3> QED BY <2>2, <2>6, <3>1, <3>2
  <2>9. \A i \in 1..covered' : EndOf(frames'[i]) <= synced'
    <3>1. \A i \in 1..covered : i \in 1..Len(frames)
      BY <2>2
    <3> QED BY <1>0, <2>1, <2>6, <3>1 DEF FileIsStream
  <2> QED BY <2>5, <2>7, <2>8, <2>9 DEF FileIsStream, EndOf
<1>2. CASE FlushWritten \/ FlushFailed
  BY <1>2, FlushStream DEF FlushWritten, FlushFailed, Loop, sVars
<1>3. CASE SyncOk
  BY <1>3, FlushStream DEF SyncOk
<1>4. CASE SyncFailed
  BY <1>4, FlushStream DEF SyncFailed, sVars
<1>5. CASE Crash
  <2>1. /\ pc' = "dead" /\ flen' \in synced..flen
        /\ UNCHANGED <<frames, file, synced, covered>>
    BY <1>5 DEF Crash, sVars
  <2>2. flen \in Nat /\ synced \in 0..flen /\ flen' \in Nat /\ flen' <= flen
    BY <1>0, <2>1 DEF TypeOK
  <2>3. \A i \in 1..Len(frames) : frames[i].pos \in Nat
    BY <1>0, FrameNumbers
  <2> QED BY <1>0, <2>1, <2>2, <2>3 DEF FileIsStream, EndOf
<1>6. CASE UNCHANGED <<frames, alen, buf, file, flen, synced, covered>> /\ (pc' # "dead" => pc # "dead")
  BY <1>0, <1>6 DEF FileIsStream, EndOf
<1>7. CASE \E n \in Sizes : Appendrecord(n)
  BY <1>6, <1>7 DEF Appendrecord, fVars, sVars
<1>8. CASE Reading
  BY <1>6, <1>8 DEF Reading, Fill, FillNothing, ReadEof, ReadBad, ReadRecord, wVars, fVars, sVars
<1>9. CASE UNCHANGED vars
  BY <1>6, <1>9 DEF vars, wVars, fVars, sVars
<1> QED BY <1>1, <1>2, <1>3, <1>4, <1>5, <1>7, <1>8, <1>9 DEF Next

LEMMA PrefixNext == PInv /\ [Next]_vars => PInv'
<1> SUFFICES ASSUME PInv, [Next]_vars, ~torn, ~torn' PROVE ReaderPlace' /\ ReadsPrefix'
  BY NextInv, OrderedNext, TornStays, StreamNext DEF PInv
<1>0. TypeOK /\ ReaderPlace /\ BlockSize \in Nat /\ HeaderSize \in Nat
  BY BlockAssumption DEF PInv, IInv
<1>1. ASSUME NEW n \in Sizes, Appendrecord(n) PROVE ReaderPlace' /\ ReadsPrefix'
  BY <1>0, <1>1, FramesKept DEF Appendrecord, rVars, ReaderPlace
<1>2. CASE Flushphyrecord
  BY <1>2, WriterOrdered
<1>3. CASE FlushWritten \/ FlushFailed
  BY <1>0, <1>3, FramesKept DEF FlushWritten, FlushFailed, Loop, rVars, ReaderPlace
<1>4. CASE SyncOk
  BY <1>0, <1>4, FramesKept DEF SyncOk, rVars, ReaderPlace
<1>5. CASE SyncFailed
  BY <1>0, <1>5, FramesKept DEF SyncFailed, rVars, ReaderPlace
<1>6. CASE Crash
  BY <1>0, <1>6, FramesKept DEF Crash, ReaderPlace
<1>7. CASE Fill
  <2>1. flen \in Nat /\ end_of_buffer_offset_ \in Nat
    BY <1>0 DEF TypeOK
  <2>2. /\ rpc = "read" /\ rpc' = rpc /\ Backing < HeaderSize /\ ~eof_ /\ Unread > 0
        /\ rpos' = end_of_buffer_offset_
        /\ end_of_buffer_offset_' = end_of_buffer_offset_ + Unread
        /\ eof_' = (Unread < BlockSize)
        /\ UNCHANGED wVars /\ UNCHANGED delivered
    BY <1>7 DEF Fill
  <2>3. Unread \in Nat /\ Unread <= BlockSize
    BY <1>0, <2>1, <2>2 DEF Unread
  <2>4. end_of_buffer_offset_' \in Nat /\ end_of_buffer_offset_' >= end_of_buffer_offset_
    BY <2>1, <2>2, <2>3
  <2>5. ASSUME ~eof_' PROVE BlockStart(end_of_buffer_offset_')
    <3>1. ~(Unread < BlockSize)
      BY <2>2, <2>5
    <3>2. end_of_buffer_offset_' = end_of_buffer_offset_ + BlockSize
      BY <1>0, <2>2, <2>3, <3>1
    <3>3. BlockStart(end_of_buffer_offset_ + BlockSize)
      BY <1>0, <2>1, <2>2, BlockStartNext DEF ReaderPlace
    <3> QED BY <3>2, <3>3
  <2> QED BY <2>2, <2>4, <2>5, ReaderMoves
<1>8. CASE FillNothing
  BY <1>0, <1>8, ReaderMoves DEF FillNothing, ReaderPlace, TypeOK
<1>9. CASE ReadEof
  BY <1>0, <1>9, ReaderMoves DEF ReadEof, ReaderPlace, TypeOK
<1>10. CASE ReadBad
  BY <1>0, <1>10, ReaderMoves DEF ReadBad, ReaderPlace, TypeOK
<1>11. ASSUME NEW f \in file, ReadRecord(f)
       PROVE  ReaderPlace' /\ ReadsPrefix'
  <2>1. PICK i \in 1..Len(frames) : f = frames[i]
    BY DEF PInv, FileIsStream
  <2> QED BY <1>11, <2>1, ReaderTakes
<1>12. CASE UNCHANGED vars
  BY <1>0, <1>12, FramesKept DEF vars, wVars, rVars, ReaderPlace
<1> QED
  BY <1>1, <1>2, <1>3, <1>4, <1>5, <1>6, <1>7, <1>8, <1>9, <1>10, <1>11, <1>12 DEF Next, Reading

\* In the file as in the stream, every frame lies within one block and block_offset
\* is in step, over any sequence of records and of failed writes (in the bound
\* BufferRoom), until a write takes a part.
THEOREM FramesWithinBlocks == Spec => []FramesInBlocks
<1>1. PInv => FramesInBlocks
  <2> SUFFICES ASSUME PInv, ~torn
               PROVE  /\ pc # "dead" => BlockStart(flen + buf - block_offset)
                      /\ \A f \in file : InBlock(f)
    BY DEF FramesInBlocks
  <2>1. StreamInBlocks /\ FileIsStream
    BY DEF PInv, IInv
  <2>2. pc # "dead" => flen + buf = alen
    BY <2>1 DEF FileIsStream
  <2>3. ASSUME pc # "dead" PROVE BlockStart(flen + buf - block_offset)
    <3>1. flen + buf - block_offset = alen - block_offset
      BY <2>2, <2>3 DEF PInv, IInv, TypeOK
    <3> QED BY <2>1, <3>1 DEF StreamInBlocks
  <2>4. \A f \in file : InBlock(f)
    BY <2>1 DEF StreamInBlocks, FileIsStream
  <2> QED BY <2>3, <2>4
<1> QED BY <1>1, PrefixInit, PrefixNext, PTL DEF Spec

\* Whatever failed and whatever a crash cuts off the log, ReadRecord returns frames that were written,
\* from the first on, in order, none left out and none twice,
\* until a write takes a part of what it was given.
THEOREM ReadsBackPrefix == Spec => []ReadsPrefix
<1>1. PInv => ReadsPrefix
  BY DEF PInv, ReadsPrefix
<1> QED BY <1>1, PrefixInit, PrefixNext, PTL DEF Spec
-----------------------------------------------------------------------------
\* f is the frame that the reader, or the writer, comes to from position p: it is
\* there, or at the start of the next block and the gap is too short for a header.
Follows(p, f) ==
  \/ f.pos = p
  \/ f.pos > p /\ f.pos - p < HeaderSize /\ BlockStart(f.pos)

\* Frames follow one another without a gap that a reader would take for the end,
\* and all but the empty ones are kFullType.
FramesAdjacent ==
  /\ alen = IF frames = <<>> THEN 0 ELSE EndOf(frames[Len(frames)])
  /\ \A j \in 1..Len(frames) :
       /\ Follows(IF j = 1 THEN 0 ELSE EndOf(frames[j - 1]), frames[j])
       /\ frames[j].type = "kFullType" <=> frames[j].len > 0

\* The reader's buffer is a part of one block of the file, the rest of the file if
\* the end was seen; the frame it comes to next is the first it has not returned.
ReaderBuffer ==
  /\ rpc = "off" => end_of_buffer_offset_ = 0 /\ ~eof_
  /\ end_of_buffer_offset_ <= flen
  /\ eof_ => end_of_buffer_offset_ = flen
  /\ \E b \in 0..rpos : BlockStart(b) /\ end_of_buffer_offset_ <= b + BlockSize
  /\ rpc # "done" =>
       \A j \in 1..Len(frames) : j = Len(delivered) + 1 => Follows(rpos, frames[j])

\* When the reader has stopped it has returned every frame that ends in the synced
\* part, as far as the first empty one.
SyncedPlace ==
  rpc = "done" =>
    \A i \in 1..Len(frames) :
      (EndOf(frames[i]) <= synced /\ \A j \in 1..i : frames[j].len > 0) =>
        i <= Len(delivered)

SInv == FramesAdjacent /\ (~torn => ReaderBuffer /\ SyncedPlace)

LEMMA SyncedInit == Init => SInv
<1> SUFFICES ASSUME Init PROVE SInv
  OBVIOUS
<1>1. Len(frames) = 0 /\ frames = <<>> /\ alen = 0 /\ rpc = "off"
  BY DEF Init
<1>2. FramesAdjacent /\ SyncedPlace
  BY <1>1 DEF FramesAdjacent, SyncedPlace
<1>3. ReaderBuffer
  <2>1. 0 \in 0..rpos /\ BlockStart(0) /\ end_of_buffer_offset_ <= 0 + BlockSize
    BY BlockStartZero, BlockAssumption DEF Init
  <2> QED BY <1>1, <2>1 DEF Init, ReaderBuffer
<1> QED BY <1>2, <1>3 DEF SInv

\* The frames stay as they are.
LEMMA AdjacentKept ==
  ASSUME FramesAdjacent, UNCHANGED <<frames, alen>>
  PROVE  FramesAdjacent'
BY DEF FramesAdjacent, Follows, EndOf, BlockStart

\* A round of the loop pads to the start of a block, or not at all.
LEMMA RoundAdjacent ==
  ASSUME IInv, FramesAdjacent, Flushphyrecord
  PROVE  FramesAdjacent'
<1> DEFINE f == [pos |-> alen + Padding, type |-> FrameType, rec |-> Len(appended),
                 off |-> appended[Len(appended)] - size, len |-> Fragment]
<1>1. /\ frames' = Append(frames, f)
      /\ alen' = alen + Padding + HeaderSize + Fragment
  BY DEF Flushphyrecord
<1>2. /\ block_offset \in 0..BlockSize /\ size \in Nat /\ alen \in Nat
      /\ frames \in Seq(Frame) /\ HeaderSize \in Nat /\ BlockSize \in Nat
  BY BlockAssumption DEF IInv, TypeOK
<1>3. /\ Padding \in Nat /\ Fragment \in Nat /\ Padding < HeaderSize
      /\ \/ Padding = 0 /\ FrameOffset = block_offset
         \/ Padding = BlockSize - block_offset /\ FrameOffset = 0
  BY <1>2, RoundBounds
<1>4. f.pos = alen + Padding /\ EndOf(f) = alen'
  BY <1>1, <1>2, <1>3 DEF EndOf
<1>5. Follows(alen, f)
  <2>1. CASE Padding = 0
    BY <1>2, <1>4, <2>1 DEF Follows
  <2>2. CASE Padding # 0
    <3>1. BlockStart(alen + Padding - FrameOffset) /\ FrameOffset = 0
      BY <1>3, <2>2, RoundBlock DEF IInv, StreamInBlocks
    <3>2. BlockStart(f.pos)
      BY <1>2, <1>3, <1>4, <3>1
    <3>3. f.pos > alen /\ f.pos - alen < HeaderSize
      BY <1>2, <1>3, <1>4, <2>2
    <3> QED BY <3>2, <3>3 DEF Follows
  <2> QED BY <2>1, <2>2
<1>6. f.type = "kFullType" <=> f.len > 0
  BY DEF FrameType
<1> HIDE DEF f
<1>7. /\ Len(frames') = Len(frames) + 1 /\ Len(frames) \in Nat /\ frames' # <<>>
      /\ frames'[Len(frames) + 1] = f
      /\ \A i \in 1..Len(frames) : frames'[i] = frames[i]
  BY <1>1, <1>2
<1>8. ASSUME NEW j \in 1..Len(frames')
      PROVE  /\ Follows(IF j = 1 THEN 0 ELSE EndOf(frames'[j - 1]), frames'[j])
             /\ frames'[j].type = "kFullType" <=> frames'[j].len > 0
  <2>1. CASE j = Len(frames) + 1
    <3>1. alen = IF j = 1 THEN 0 ELSE EndOf(frames'[j - 1])
      <4>1. CASE Len(frames) = 0
        <5>1. frames = <<>>
          BY <1>2, <4>1
        <5> QED BY <2>1, <4>1, <5>1 DEF FramesAdjacent
      <4>2. CASE Len(frames) # 0
        <5>1. frames # <<>> /\ j # 1 /\ j - 1 = Len(frames) /\ Len(frames) \in 1..Len(frames)
          BY <1>2, <1>7, <2>1, <4>2
        <5>2. alen = EndOf(frames[Len(frames)])
          BY <5>1 DEF FramesAdjacent
        <5> QED BY <1>7, <5>1, <5>2
      <4> QED BY <4>1, <4>2
    <3> QED BY <1>5, <1>6, <1>7, <2>1, <3>1
  <2>2. CASE j # Len(frames) + 1
    <3>1. j \in 1..Len(frames) /\ (j # 1 => j - 1 \in 1..Len(frames))
      BY <1>7, <2>2
    <3>2. frames'[j] = frames[j] /\ (j # 1 => frames'[j - 1] = frames[j - 1])
      BY <1>7, <3>1
    <3> QED BY <3>1, <3>2 DEF FramesAdjacent
  <2> QED BY <2>1, <2>2
<1>9. alen' = EndOf(frames'[Len(frames')])
  BY <1>4, <1>7
<1>10. FramesAdjacent' =
         /\ alen' = IF frames' = <<>> THEN 0 ELSE EndOf(frames'[Len(frames')])
         /\ \A j \in 1..Len(frames') :
              /\ Follows(IF j = 1 THEN 0 ELSE EndOf(frames'[j - 1]), frames'[j])
              /\ frames'[j].type = "kFullType" <=> frames'[j].len > 0
  BY DEF FramesAdjacent, Follows, EndOf, BlockStart
<1> QED BY <1>7, <1>8, <1>9, <1>10

\* While the writer lives, the reader has not moved.
LEMMA ReaderOff ==
  ASSUME PInv, ~torn, FramesAdjacent', ReaderBuffer, rpc' # "done",
         UNCHANGED <<rpos, end_of_buffer_offset_, eof_, delivered>>, flen' \in Nat, rpc = "off"
  PROVE  ReaderBuffer' /\ SyncedPlace'
<1>1. /\ rpos = 0 /\ end_of_buffer_offset_ = 0 /\ ~eof_ /\ delivered = <<>>
  BY DEF PInv, ReaderPlace, ReaderBuffer
<1>2. 0 \in 0..rpos' /\ BlockStart(0) /\ end_of_buffer_offset_' <= 0 + BlockSize
  BY <1>1, BlockStartZero, BlockAssumption
<1>3. \A j \in 1..Len(frames') : j = 1 => Follows(rpos', frames'[j])
  <2>1. \A j \in 1..Len(frames') : Follows(IF j = 1 THEN 0 ELSE EndOf(frames'[j - 1]), frames'[j])
    BY DEF FramesAdjacent, Follows, EndOf, BlockStart
  <2> QED BY <1>1, <2>1
<1>4. Len(delivered') = 0
  BY <1>1
<1>5. (\A j \in 1..Len(frames) : j = Len(delivered) + 1 => Follows(rpos, frames[j]))'
  <2>1. \A j \in 1..Len(frames') : j = Len(delivered') + 1 => Follows(rpos', frames'[j])
    BY <1>3, <1>4
  <2> QED BY <2>1 DEF Follows, BlockStart
<1>6. (\E b \in 0..rpos : BlockStart(b) /\ end_of_buffer_offset_ <= b + BlockSize)'
  BY <1>2 DEF BlockStart
<1> QED BY <1>1, <1>5, <1>6 DEF ReaderBuffer, SyncedPlace

\* What stops the reader is no frame that fsync covered.  d is the number of
\* records returned; it is enough that the next frame was not there to be read.
LEMMA StopsAtUnsynced ==
  ASSUME PInv, ~torn, UNCHANGED <<frames, synced, delivered>>,
         \A j \in 1..Len(frames) :
           j = Len(delivered) + 1 => frames[j].len = 0 \/ EndOf(frames[j]) > synced
  PROVE  SyncedPlace'
<1>1. TypeOK /\ FramesOrdered /\ HeaderSize \in Nat
  BY BlockAssumption DEF PInv, IInv
<1>2. /\ Len(delivered) \in Nat /\ Len(frames) \in Nat /\ synced \in Nat
  BY <1>1 DEF TypeOK
<1>3. ASSUME NEW i \in 1..Len(frames), EndOf(frames[i]) <= synced,
             \A j \in 1..i : frames[j].len > 0, i > Len(delivered)
      PROVE  FALSE
  <2> DEFINE j == Len(delivered) + 1
  <2>1. j \in 1..i /\ j \in 1..Len(frames)
    BY <1>2, <1>3
  <2>2. frames[j].len > 0 /\ frames[j].len \in Nat /\ EndOf(frames[j]) \in Nat
        /\ EndOf(frames[i]) \in Nat /\ frames[i].pos \in Nat
        /\ EndOf(frames[i]) >= frames[i].pos + HeaderSize
    BY <1>1, <1>3, <2>1, FrameNumbers
  <2>3. EndOf(frames[j]) <= EndOf(frames[i])
    <3>1. CASE j = i
      BY <2>2, <3>1
    <3>2. CASE j < i
      <4>1. EndOf(frames[j]) <= frames[i].pos
        BY <1>1, <1>3, <2>1, <3>2 DEF FramesOrdered
      <4> QED BY <1>1, <2>2, <4>1
    <3> QED BY <1>3, <2>1, <3>1, <3>2
  <2> QED BY <1>2, <1>3, <2>1, <2>2, <2>3
<1>4. \A i \in 1..Len(frames) :
        (EndOf(frames[i]) <= synced /\ \A j \in 1..i : frames[j].len > 0) => i <= Len(delivered)
  BY <1>2, <1>3
<1>5. (\A i \in 1..Len(frames) :
        (EndOf(frames[i]) <= synced /\ \A j \in 1..i : frames[j].len > 0) => i <= Len(delivered))'
  BY <1>4 DEF EndOf
<1> QED BY <1>5 DEF SyncedPlace

\* With a header's worth of bytes in the buffer, the frame that follows is there
\* as a whole if it was synced: the gap before it would have ended the block.
LEMMA FrameIsThere ==
  ASSUME PInv, ~torn, ReaderBuffer, rpc = "read", Backing >= HeaderSize,
         NEW j \in 1..Len(frames), j = Len(delivered) + 1, EndOf(frames[j]) <= synced
  PROVE  frames[j] \in file /\ Intact(frames[j])
<1>1. TypeOK /\ StreamInBlocks /\ ReaderPlace /\ FileIsStream
  BY DEF PInv, IInv
<1>2. /\ rpos \in Nat /\ end_of_buffer_offset_ \in Nat /\ flen \in Nat /\ synced \in Nat
      /\ synced <= flen /\ HeaderSize \in Nat \ {0} /\ BlockSize \in Nat
      /\ frames[j].pos \in Nat /\ EndOf(frames[j]) \in Nat
  BY <1>1, FrameNumbers, BlockAssumption DEF TypeOK
<1>3. rpos + HeaderSize <= end_of_buffer_offset_
  BY <1>2 DEF Backing
<1>4. Follows(rpos, frames[j])
  BY DEF ReaderBuffer
<1>5. frames[j].pos = rpos
  <2> SUFFICES ASSUME frames[j].pos > rpos, frames[j].pos - rpos < HeaderSize,
                      BlockStart(frames[j].pos)
               PROVE  FALSE
    BY <1>4 DEF Follows
  <2>1. PICK b \in 0..rpos : BlockStart(b) /\ end_of_buffer_offset_ <= b + BlockSize
    BY DEF ReaderBuffer
  <2>2. b + BlockSize <= frames[j].pos
    BY <1>2, <2>1, BlockStartsApart
  <2> QED BY <1>2, <1>3, <2>1, <2>2
<1>6. EndOf(frames[j]) <= end_of_buffer_offset_
  <2>1. CASE eof_
    BY <1>2, <2>1 DEF ReaderBuffer
  <2>2. CASE ~eof_
    <3>1. BlockStart(end_of_buffer_offset_)
      BY <1>1, <2>2 DEF ReaderPlace
    <3>2. PICK p \in 0..frames[j].pos : BlockStart(p) /\ EndOf(frames[j]) <= p + BlockSize
      BY <1>1 DEF StreamInBlocks, InBlock
    <3>3. p < end_of_buffer_offset_
      BY <1>2, <1>3, <1>5, <3>2
    <3>4. p + BlockSize <= end_of_buffer_offset_
      BY <1>2, <3>1, <3>2, <3>3, BlockStartsApart
    <3> QED BY <1>2, <3>2, <3>4
  <2> QED BY <2>1, <2>2
<1>7. frames[j] \in file
  <2>1. EndOf(frames[j]) >= frames[j].pos + HeaderSize
    BY <1>1, FrameNumbers
  <2>2. ~(frames[j].pos >= flen)
    BY <1>2, <2>1
  <2> QED BY <1>1, <2>2 DEF FileIsStream
<1> QED BY <1>5, <1>6, <1>7 DEF Intact

\* Without a header's worth of bytes left in the buffer, the frame that follows
\* starts where the buffer ends, or after it.
LEMMA FrameAfterBuffer ==
  ASSUME PInv, ~torn, ReaderBuffer, rpc = "read", Backing < HeaderSize, ~eof_,
         NEW j \in 1..Len(frames), j = Len(delivered) + 1
  PROVE  frames[j].pos >= end_of_buffer_offset_ /\ Follows(end_of_buffer_offset_, frames[j])
<1>1. TypeOK /\ StreamInBlocks /\ ReaderPlace
  BY DEF PInv, IInv
<1>2. /\ rpos \in Nat /\ end_of_buffer_offset_ \in Nat /\ HeaderSize \in Nat
      /\ frames[j].pos \in Nat /\ Len(delivered) \in Nat
  BY <1>1, FrameNumbers, BlockAssumption DEF TypeOK
<1>3. frames[j].pos >= rpos /\ rpos <= end_of_buffer_offset_
      /\ BlockStart(end_of_buffer_offset_)
  BY <1>1, <1>2 DEF ReaderPlace
<1>4. frames[j].pos >= end_of_buffer_offset_
  BY <1>1, <1>3, TailHasNoFrame
<1>5. Follows(rpos, frames[j])
  BY DEF ReaderBuffer
<1> QED BY <1>2, <1>3, <1>4, <1>5 DEF Follows

LEMMA AdjacentNext == IInv /\ FramesAdjacent /\ [Next]_vars => FramesAdjacent'
<1> SUFFICES ASSUME IInv, FramesAdjacent, [Next]_vars PROVE FramesAdjacent'
  OBVIOUS
<1>1. CASE Flushphyrecord
  BY <1>1, RoundAdjacent
<1>2. CASE UNCHANGED <<frames, alen>>
  BY <1>2, AdjacentKept
<1>3. CASE Reading
  BY <1>2, <1>3 DEF Reading, Fill, FillNothing, ReadEof, ReadBad, ReadRecord, wVars
<1>4. CASE \E n \in Sizes : Appendrecord(n)
  BY <1>2, <1>4 DEF Appendrecord
<1>5. CASE FlushWritten \/ FlushFailed \/ SyncOk \/ SyncFailed \/ Crash
  BY <1>2, <1>5 DEF FlushWritten, FlushFailed, Loop, SyncOk, SyncFailed, Crash
<1>6. CASE UNCHANGED vars
  BY <1>2, <1>6 DEF vars, wVars
<1> QED BY <1>1, <1>3, <1>4, <1>5, <1>6 DEF Next

LEMMA SyncedNext == PInv /\ SInv /\ [Next]_vars => SInv'
<1> SUFFICES ASSUME PInv, SInv, [Next]_vars, ~torn, ~torn' PROVE SInv'
  BY TornStays, AdjacentNext DEF SInv, PInv
<1>0. /\ TypeOK /\ ReaderPlace /\ FramesAdjacent /\ ReaderBuffer /\ SyncedPlace
      /\ BlockSize \in Nat \ {0} /\ HeaderSize \in Nat \ {0}
      /\ flen \in Nat /\ alen \in Nat /\ rpos \in Nat /\ end_of_buffer_offset_ \in Nat
      /\ synced \in Nat /\ synced <= flen
      /\ Len(delivered) \in Nat /\ Len(frames) \in Nat
  BY BlockAssumption DEF PInv, IInv, SInv, TypeOK
<1>1. ASSUME NEW n \in Sizes, Appendrecord(n) PROVE SInv'
  <2>1. UNCHANGED <<frames, alen, flen, rpc, rpos, end_of_buffer_offset_, eof_, delivered>>
        /\ rpc = "off"
    BY <1>0, <1>1 DEF Appendrecord, rVars, fVars, ReaderPlace
  <2> QED BY <1>0, <2>1, AdjacentKept, ReaderOff DEF SInv
<1>2. CASE Flushphyrecord
  <2>1. UNCHANGED <<flen, rpc, rpos, end_of_buffer_offset_, eof_, delivered>> /\ rpc = "off"
    BY <1>0, <1>2 DEF Flushphyrecord, rVars, ReaderPlace
  <2>2. FramesAdjacent'
    BY <1>0, <1>2, RoundAdjacent DEF PInv
  <2> QED BY <1>0, <2>1, <2>2, ReaderOff DEF SInv
<1>3. CASE FlushWritten \/ FlushFailed \/ SyncOk \/ SyncFailed
  <2>1. /\ UNCHANGED <<frames, alen, rpc, rpos, end_of_buffer_offset_, eof_, delivered>>
        /\ pc # "dead" /\ (FlushOk \/ FlushError)
    BY <1>3 DEF FlushWritten, FlushFailed, Loop, SyncOk, SyncFailed, rVars
  <2>2. rpc = "off" /\ flen' \in Nat
    BY <1>0, <2>1, FlushEffect DEF ReaderPlace
  <2> QED BY <1>0, <2>1, <2>2, AdjacentKept, ReaderOff DEF SInv
<1>4. CASE Crash
  <2>1. /\ UNCHANGED <<frames, alen, rpos, end_of_buffer_offset_, eof_, delivered>>
        /\ rpc = "off" /\ rpc' = "read" /\ flen' \in Nat /\ pc # "dead"
    BY <1>0, <1>4 DEF Crash, ReaderPlace
  <2> QED BY <1>0, <2>1, AdjacentKept, ReaderOff DEF SInv
<1>5. CASE Fill
  <2>1. /\ rpc = "read" /\ rpc' = rpc /\ Backing < HeaderSize /\ ~eof_ /\ Unread > 0
        /\ rpos' = end_of_buffer_offset_
        /\ end_of_buffer_offset_' = end_of_buffer_offset_ + Unread
        /\ eof_' = (Unread < BlockSize)
        /\ UNCHANGED <<frames, alen, flen, delivered>>
    BY <1>5 DEF Fill, wVars, fVars
  <2>2. /\ Unread \in Nat /\ Unread <= BlockSize
        /\ end_of_buffer_offset_ + Unread <= flen
        /\ Unread < BlockSize => end_of_buffer_offset_ + Unread = flen
    BY <1>0, <2>1 DEF Unread
  <2>3. end_of_buffer_offset_' <= flen' /\ (eof_' => end_of_buffer_offset_' = flen')
    BY <2>1, <2>2
  <2>4. BlockStart(rpos') /\ rpos' \in 0..rpos' /\ end_of_buffer_offset_' <= rpos' + BlockSize
    BY <1>0, <2>1, <2>2 DEF ReaderPlace
  <2>5. \A j \in 1..Len(frames) : j = Len(delivered) + 1 => Follows(rpos', frames[j])
    BY <1>0, <2>1, FrameAfterBuffer
  <2>6. (\E b \in 0..rpos : BlockStart(b) /\ end_of_buffer_offset_ <= b + BlockSize)'
    BY <2>4 DEF BlockStart
  <2>7. (\A j \in 1..Len(frames) : j = Len(delivered) + 1 => Follows(rpos, frames[j]))'
    BY <2>1, <2>5 DEF Follows, BlockStart
  <2>8. ReaderBuffer' /\ SyncedPlace'
    BY <2>1, <2>3, <2>6, <2>7 DEF ReaderBuffer, SyncedPlace
  <2> QED BY <1>0, <2>1, <2>8, AdjacentKept DEF SInv
<1>6. CASE FillNothing
  <2>1. /\ rpc = "read" /\ rpc' \in {"read", "done"} /\ Backing < HeaderSize /\ ~eof_
        /\ Unread = 0
        /\ rpos' = end_of_buffer_offset_
        /\ UNCHANGED <<frames, alen, flen, synced, delivered, end_of_buffer_offset_, eof_>>
    BY <1>6 DEF FillNothing, wVars, fVars, sVars
  <2>2. end_of_buffer_offset_ = flen
    BY <1>0, <2>1 DEF Unread, ReaderBuffer
  <2>3. BlockStart(rpos') /\ rpos' \in 0..rpos' /\ end_of_buffer_offset_' <= rpos' + BlockSize
    BY <1>0, <2>1 DEF ReaderPlace
  <2>4. \A j \in 1..Len(frames) : j = Len(delivered) + 1 =>
          frames[j].pos >= end_of_buffer_offset_ /\ Follows(rpos', frames[j])
    BY <1>0, <2>1, FrameAfterBuffer
  <2>5. (\E b \in 0..rpos : BlockStart(b) /\ end_of_buffer_offset_ <= b + BlockSize)'
    BY <2>3 DEF BlockStart
  <2>6. (\A j \in 1..Len(frames) : j = Len(delivered) + 1 => Follows(rpos, frames[j]))'
    BY <2>1, <2>4 DEF Follows, BlockStart
  <2>7. ReaderBuffer'
    BY <1>0, <2>1, <2>5, <2>6 DEF ReaderBuffer
  <2>8. \A j \in 1..Len(frames) : j = Len(delivered) + 1 => EndOf(frames[j]) > synced
    <3>1. \A j \in 1..Len(frames) : /\ frames[j].pos \in Nat /\ EndOf(frames[j]) \in Nat
                                    /\ EndOf(frames[j]) >= frames[j].pos + HeaderSize
      BY <1>0, FrameNumbers
    <3>2. \A j \in 1..Len(frames) : j = Len(delivered) + 1 => frames[j].pos >= flen
      BY <2>2, <2>4
    <3> QED BY <1>0, <3>1, <3>2
  <2>9. SyncedPlace'
    BY <2>1, <2>8, StopsAtUnsynced
  <2> QED BY <1>0, <2>1, <2>7, <2>9, AdjacentKept DEF SInv
<1>7. CASE ReadEof
  <2>1. /\ rpc = "read" /\ rpc' = "done" /\ Backing < HeaderSize /\ eof_
        /\ rpos' = end_of_buffer_offset_
        /\ UNCHANGED <<frames, alen, flen, synced, delivered, end_of_buffer_offset_, eof_>>
    BY <1>7 DEF ReadEof, wVars, fVars, sVars
  <2>2. \A j \in 1..Len(frames) : j = Len(delivered) + 1 => EndOf(frames[j]) > synced
    <3>1. \A j \in 1..Len(frames) : /\ frames[j].pos \in Nat /\ EndOf(frames[j]) \in Nat
                                    /\ EndOf(frames[j]) >= frames[j].pos + HeaderSize
      BY <1>0, FrameNumbers
    <3>2. \A j \in 1..Len(frames) : j = Len(delivered) + 1 => frames[j].pos >= rpos
      BY <1>0, <2>1 DEF ReaderPlace
    <3>3. rpos + HeaderSize > flen
      BY <1>0, <2>1 DEF Backing, ReaderBuffer
    <3> QED BY <1>0, <3>1, <3>2, <3>3
  <2>3. SyncedPlace'
    BY <2>1, <2>2, StopsAtUnsynced
  <2>4. ReaderBuffer'
    <3>1. PICK b \in 0..rpos : BlockStart(b) /\ end_of_buffer_offset_ <= b + BlockSize
      BY <1>0 DEF ReaderBuffer
    <3>2. b \in 0..rpos' /\ end_of_buffer_offset_' <= b + BlockSize
      BY <1>0, <2>1, <3>1 DEF ReaderPlace
    <3>3. (\E c \in 0..rpos : BlockStart(c) /\ end_of_buffer_offset_ <= c + BlockSize)'
      BY <3>1, <3>2 DEF BlockStart
    <3> QED BY <1>0, <2>1, <3>3 DEF ReaderBuffer
  <2> QED BY <1>0, <2>1, <2>3, <2>4, AdjacentKept DEF SInv
<1>8. CASE ReadBad
  <2>1. /\ rpc = "read" /\ rpc' = "done" /\ Backing >= HeaderSize
        /\ rpos' = end_of_buffer_offset_
        /\ \A f \in file : ~Intact(f)
        /\ UNCHANGED <<frames, alen, flen, synced, delivered, end_of_buffer_offset_, eof_>>
    BY <1>8 DEF ReadBad, wVars, fVars, sVars
  <2>2. \A j \in 1..Len(frames) : j = Len(delivered) + 1 => EndOf(frames[j]) > synced
    <3>1. \A j \in 1..Len(frames) : EndOf(frames[j]) \in Nat
      BY <1>0, FrameNumbers
    <3>2. \A j \in 1..Len(frames) : j = Len(delivered) + 1 => ~(EndOf(frames[j]) <= synced)
      BY <1>0, <2>1, FrameIsThere
    <3> QED BY <1>0, <3>1, <3>2
  <2>3. SyncedPlace'
    BY <2>1, <2>2, StopsAtUnsynced
  <2>4. ReaderBuffer'
    <3>1. PICK b \in 0..rpos : BlockStart(b) /\ end_of_buffer_offset_ <= b + BlockSize
      BY <1>0 DEF ReaderBuffer
    <3>2. b \in 0..rpos' /\ end_of_buffer_offset_' <= b + BlockSize
      BY <1>0, <2>1, <3>1 DEF ReaderPlace
    <3>3. (\E c \in 0..rpos : BlockStart(c) /\ end_of_buffer_offset_ <= c + BlockSize)'
      BY <3>1, <3>2 DEF BlockStart
    <3> QED BY <1>0, <2>1, <3>3 DEF ReaderBuffer
  <2> QED BY <1>0, <2>1, <2>3, <2>4, AdjacentKept DEF SInv
<1>9. ASSUME NEW f \in file, ReadRecord(f)
      PROVE  SInv'
  <2>0. PICK i \in 1..Len(frames) : f = frames[i]
    BY DEF PInv, FileIsStream
  <2>1. /\ rpc = "read" /\ rpos' = EndOf(frames[i]) /\ frames[i].pos = rpos
        /\ UNCHANGED <<frames, alen, flen, synced, end_of_buffer_offset_, eof_>>
    BY <1>9, <2>0 DEF ReadRecord, wVars, fVars, sVars, Intact
  <2>2. i = Len(delivered) + 1
    BY <1>9, <2>0, TakesNextFrame
  <2>3. EndOf(frames[i]) \in Nat /\ EndOf(frames[i]) >= rpos
    BY <1>0, <2>1, FrameNumbers
  <2>4. (\E c \in 0..rpos : BlockStart(c) /\ end_of_buffer_offset_ <= c + BlockSize)'
    <3>1. PICK b \in 0..rpos : BlockStart(b) /\ end_of_buffer_offset_ <= b + BlockSize
      BY <1>0 DEF ReaderBuffer
    <3>2. b \in 0..rpos' /\ end_of_buffer_offset_' <= b + BlockSize
      BY <1>0, <2>1, <2>3, <3>1
    <3> QED BY <3>1, <3>2 DEF BlockStart
  <2>5. CASE frames[i].type = "kFullType"
    <3>1. delivered' = Append(delivered, frames[i]) /\ rpc' = "read"
      BY <1>9, <2>0, <2>1, <2>5 DEF ReadRecord
    <3>2. Len(delivered') = i
      BY <1>0, <2>2, <3>1 DEF TypeOK
    <3>3. \A j \in 1..Len(frames) : j = i + 1 => Follows(EndOf(frames[i]), frames[j])
      <4>1. \A j \in 1..Len(frames) : j = i + 1 => j # 1 /\ j - 1 = i
        BY <1>0
      <4> QED BY <1>0, <4>1 DEF FramesAdjacent
    <3>4. (\A j \in 1..Len(frames) : j = Len(delivered) + 1 => Follows(rpos, frames[j]))'
      BY <2>1, <3>2, <3>3 DEF Follows, BlockStart
    <3>5. ReaderBuffer' /\ SyncedPlace'
      BY <1>0, <2>1, <2>4, <3>1, <3>4 DEF ReaderBuffer, SyncedPlace
    <3> QED BY <1>0, <2>1, <3>5, AdjacentKept DEF SInv
  <2>6. CASE frames[i].type # "kFullType"
    <3>1. delivered' = delivered /\ rpc' = "done"
      BY <1>9, <2>0, <2>6 DEF ReadRecord
    <3>2. frames[i].len = 0
      <4>1. frames[i].len \in Nat /\ ~(frames[i].len > 0)
        BY <1>0, <2>6, FrameNumbers DEF FramesAdjacent
      <4> QED BY <4>1
    <3>3. SyncedPlace'
      BY <2>1, <2>2, <3>1, <3>2, StopsAtUnsynced
    <3>4. ReaderBuffer'
      BY <1>0, <2>1, <2>4, <3>1 DEF ReaderBuffer
    <3> QED BY <1>0, <2>1, <3>3, <3>4, AdjacentKept DEF SInv
  <2> QED BY <2>5, <2>6
<1>10. CASE UNCHANGED vars
  <2>1. UNCHANGED <<frames, alen, flen, synced, rpc, rpos, end_of_buffer_offset_, eof_, delivered>>
    BY <1>10 DEF vars, wVars, fVars, sVars, rVars
  <2>2. SyncedPlace'
    BY <1>0, <2>1 DEF SyncedPlace, EndOf
  <2>3. ReaderBuffer'
    BY <1>0, <2>1 DEF ReaderBuffer, Follows, BlockStart
  <2> QED BY <1>0, <2>1, <2>2, <2>3, AdjacentKept DEF SInv
<1> QED
  BY <1>1, <1>2, <1>3, <1>4, <1>5, <1>6, <1>7, <1>8, <1>9, <1>10 DEF Next, Reading

\* Neither padding nor the end of a block nor a failed write stops the reader
\* early: when it has stopped, ReadRecord has returned every frame that was appended
\* before a Sync that returned Ok, as far as the first empty frame, for every block,
\* header and buffer size and every sequence of records, until a write takes a part.
THEOREM SyncedReadBack == Spec => []SyncedRead
<1>1. PInv /\ SInv => SyncedRead
  <2> SUFFICES ASSUME PInv, SInv, ~torn, rpc = "done", NEW i \in 1..covered,
                      \A j \in 1..i : frames[j].len > 0
               PROVE  Returned(frames[i])
    BY DEF SyncedRead, SyncedReturned
  <2>1. TypeOK /\ FileIsStream /\ ReadsPrefix /\ SyncedPlace
    BY DEF PInv, IInv, SInv
  <2>2. i \in 1..Len(frames) /\ EndOf(frames[i]) <= synced /\ Len(delivered) \in Nat
    BY <2>1 DEF TypeOK, FileIsStream
  <2>3. i \in 1..Len(delivered)
    BY <2>1, <2>2 DEF SyncedPlace
  <2>4. delivered[i] = frames[i] /\ frames[i] \in Frame
    BY <2>1, <2>2, <2>3 DEF ReadsPrefix, TypeOK
  <2>5. [delivered[i] EXCEPT !.pos = frames[i].pos] = frames[i]
    BY <2>4 DEF Frame
  <2> QED BY <2>3, <2>5 DEF Returned
<1>2. PInv /\ SInv /\ [Next]_vars => PInv' /\ SInv'
  BY PrefixNext, SyncedNext
<1> QED BY <1>1, <1>2, PrefixInit, SyncedInit, PTL DEF Spec
=============================================================================
