-------------------------------- MODULE Table --------------------------------
(***************************************************************************)
(* BuildTable: the entries of a memtable go through a Tablebuilder, which  *)
(* cuts them into data blocks, keeps an index and a filter block, and      *)
(* writes all of it and a footer to a WritableFile; then the file is       *)
(* synced and closed, or deleted.                                          *)
(*                                                                         *)
(* What a block holds is told by `placed'; in the file its elements are    *)
(* pairs of the number of the block and the place in it.                   *)
(***************************************************************************)
EXTENDS Block, WritableFile, FilterBlock

CONSTANTS TableKeys,    \* internal keys, in order
          ValueLengths, \* the lengths of values
          DataBlockSize,\* options.block_size
          BackSize,     \* kBlockBackSize: type and checksum after a block
          FooterSize,   \* Footer::kEncodedLength
          Compressed(_) \* snappy::Compress: the length of the result

ASSUME TableAssumption ==
  /\ TableKeys \in Seq(Seq(Nat)) /\ ValueLengths \subseteq Nat
  /\ \A i \in 2 .. Len(TableKeys) : KeyBefore(TableKeys[i - 1], TableKeys[i])
  /\ \A i \in 1 .. Len(TableKeys) : TableKeys[i] \in DOMAIN Hash
  /\ DataBlockSize \in Nat \ {0} /\ BackSize \in Nat \ {0} /\ FooterSize \in Nat \ {0}

VARIABLES
  pc,    \* BuildTable: "add", "sync", "close", "built", "deleted"
  used,  \* how many of the keys were considered for the table
  tb     \* the Tablebuilder with its file

vars == <<pc, used, tb>>

NewTable ==
  [data |-> EmptyBlock, index |-> EmptyBlock, filter |-> NewFilter, file |-> NewFile,
   offset |-> 0, pending_index_entry |-> FALSE, ok |-> TRUE, last_key |-> <<>>, placed |-> <<>>]

Init == pc = "add" /\ used = 0 /\ tb = NewTable
-----------------------------------------------------------------------------
\* The n-th block: compressed_output is cleared before it is written, which puts a NUL
\* in the place of its first byte.
Cells(n, size, compressed) ==
  [i \in 1 .. size |-> <<n, IF compressed /\ i = 1 THEN 0 ELSE i>>]

With(t, o) == [t EXCEPT !.file = o.f, !.ok = o.ok]

\* state is that of the last Append, whatever it was before; offset only counts blocks
\* that were appended whole.
WriteRawBlock(t, kind, size, compressed, holds) ==
  LET n       == Len(t.placed) + 1
      cells   == Cells(n, size, compressed)
      handle  == [offset |-> t.offset, size |-> size]
      back    == Cells(-n, BackSize, FALSE)
      Done(u) == [u EXCEPT !.placed = Append(@, [kind |-> kind, handle |-> handle, holds |-> holds,
                                                 cells |-> cells \o back]),
                           !.offset = IF u.ok THEN @ + size + BackSize ELSE @]
  IN  UNION {IF o.ok THEN {Done(With(t, p)) : p \in FileAppend(o.f, back)}
                     ELSE {Done(With(t, o))} :
             o \in FileAppend(t.file, cells)}

WriteBlock(t, kind, block, holds) ==
  WriteRawBlock(t, kind, Compressed(CurrentSizeEstimate(block)), TRUE, holds)

\* The keys of a block, as its entries spell them.
Spelled(block) ==
  LET key[i \in 0 .. Len(block.entries)] ==
        IF i = 0 THEN <<>>
        ELSE SubSeq(key[i - 1], 1, block.entries[i].shared) \o block.entries[i].suffix
  IN  key
KeysIn(block) == {Spelled(block)[i] : i \in 1 .. Len(block.entries)}

\* Tablebuilder::Flush.  pending_index_entry is set to false, and so is never true.
FlushBlock(t) ==
  IF t.data.entries = <<>> THEN {t}
  ELSE UNION {{[With(u, o) EXCEPT !.ok = u.ok, !.data = EmptyBlock, !.pending_index_entry = FALSE,
                                  !.filter = StartBlock(@, u.offset)] : o \in FileFlush(u.file)} :
              u \in WriteBlock(t, "data", t.data, KeysIn(t.data))}

\* The handle of the last data block goes into the index under the given key.
IndexPending(t, key) ==
  IF ~t.pending_index_entry THEN t
  ELSE [t EXCEPT !.index = BlockAdd(@, key, Len(t.placed), 2), !.pending_index_entry = FALSE]

AddEntry(t, key, vlen) ==
  LET u == IndexPending(t, key)
      v == [u EXCEPT !.filter = AddKey(@, key), !.last_key = key,
                     !.data = BlockAdd(@, key, vlen, vlen)]
  IN  IF CurrentSizeEstimate(v.data) >= DataBlockSize THEN FlushBlock(v) ELSE {v}

Add(vlen) ==
  /\ pc = "add" /\ used < Len(TableKeys)
  /\ used' = used + 1 /\ pc' = pc
  /\ tb' \in AddEntry(tb, TableKeys[used + 1], vlen)

\* The memtable does not have the key.
Skip ==
  /\ pc = "add" /\ used < Len(TableKeys)
  /\ used' = used + 1 /\ UNCHANGED <<pc, tb>>

\* Finish: the last data block, then filter, metaindex, index and footer, each only if
\* the one before was written.
FinishFilter(t) ==
  LET u == [t EXCEPT !.filter = FilterFinish(@)]
  IN  IF t.ok THEN WriteRawBlock(u, "filter", FilterSize(u.filter), FALSE, {}) ELSE {t}
FinishMeta(t) ==
  LET meta == BlockAdd(EmptyBlock, <<0, 0>>, Len(t.placed), 2)
  IN  IF t.ok THEN WriteBlock(t, "metaindex", meta, {Len(t.placed)}) ELSE {t}
FinishIndex(t) ==
  LET u == IndexPending(t, t.last_key)
      blocks == {u.index.entries[i].val : i \in 1 .. Len(u.index.entries)}
  IN  IF t.ok THEN WriteBlock(u, "index", u.index, blocks) ELSE {t}
FinishFooter(t) ==
  IF t.ok
  THEN {[With(t, o) EXCEPT !.offset = IF o.ok THEN @ + FooterSize ELSE @] :
        o \in FileAppend(t.file, Cells(0, FooterSize, FALSE))}
  ELSE {t}

Finish ==
  /\ pc = "add" /\ \E i \in 1 .. used : tb.last_key = TableKeys[i]
  /\ \E t \in FlushBlock(tb) : \E u \in FinishFilter(t) : \E v \in FinishMeta(u) :
       \E w \in FinishIndex(v) : tb' \in FinishFooter(w)
  /\ pc' = IF tb'.ok THEN "sync" ELSE "deleted"
  /\ UNCHANGED used

Sync ==
  /\ pc = "sync"
  /\ \E o \in FileSync(tb.file) :
       /\ tb' = With(tb, o)
       /\ pc' = IF o.ok THEN "close" ELSE "deleted"
  /\ UNCHANGED used

Close ==
  /\ pc = "close"
  /\ \E o \in FileClose(tb.file) :
       /\ tb' = With(tb, o)
       /\ pc' = IF o.ok THEN "built" ELSE "deleted"
  /\ UNCHANGED used

Next ==
  \/ \E v \in ValueLengths : Add(v)
  \/ Skip
  \/ Finish
  \/ Sync
  \/ Close

Spec == Init /\ [][Next]_vars
-----------------------------------------------------------------------------
(***************************************************************************)
(* Properties.                                                             *)
(***************************************************************************)
\* Where BuildTable is; the builder never counts more than it has appended.
TypeOK ==
  /\ pc \in {"add", "sync", "close", "built", "deleted"}
  /\ used \in 0 .. Len(TableKeys)
  /\ tb.offset \in Nat /\ tb.ok \in BOOLEAN
  /\ tb.file.offset = Len(tb.file.buf) \/ Broken(tb.file)

\* A table that BuildTable reports as built lies in the file as its handles and its size
\* say, also when writes failed on the way and were repeated by a later flush.  It does so
\* exactly if no write(2) took a part and no Append ran over the end of the buffer.
Whole ==
  /\ Len(tb.file.disk) = tb.offset
  /\ SubSeq(tb.file.disk, tb.offset - FooterSize + 1, tb.offset) = Cells(0, FooterSize, FALSE)
  /\ \A i \in 1 .. Len(tb.placed) :
       LET p   == tb.placed[i]
           end == p.handle.offset + Len(p.cells)
       IN  end <= tb.offset /\ SubSeq(tb.file.disk, p.handle.offset + 1, end) = p.cells
BuiltWhole == pc = "built" /\ ~Broken(tb.file) => (Whole <=> ~tb.file.lost)

\* In a table that is finished, the filter of the range in which a data block begins was
\* made, and has the bits of every internal key of the block, wherever the blocks before
\* it ended and whatever writes failed.
FilterHolds ==
  pc \in {"sync", "close", "built"} =>
    \A i \in 1 .. Len(tb.placed) :
      LET index == tb.placed[i].handle.offset \div FilterBase
      IN  tb.placed[i].kind = "data" =>
            \A key \in tb.placed[i].holds :
              /\ index < Len(tb.filter.offsets)
              /\ BloomMayMatch(tb.filter.filters, FilterAt(tb.filter, index),
                               FilterAt(tb.filter, index + 1), key)

\* Every data block of a finished table is named in its index (the comment on
\* pending_index_entry).
IndexComplete ==
  pc = "built" =>
    \A i, j \in 1 .. Len(tb.placed) :
      tb.placed[i].kind = "data" /\ tb.placed[j].kind = "index" => i \in tb.placed[j].holds
=============================================================================
