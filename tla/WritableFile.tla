---------------------------- MODULE WritableFile ----------------------------
(***************************************************************************)
(* WritableFile: what is appended goes through buf_ to the file.           *)
(*                                                                         *)
(* A file is a record: `buf' what buf_ holds, `offset' how much of it      *)
(* counts, `disk' what write(2) has taken, `lost' whether an operation has *)
(* put bytes out of their order (a write that took a part, an Append that  *)
(* ran over the end of buf_).  An operation is the set of its outcomes,    *)
(* since every write(2) can take all, take a part or fail: the file and    *)
(* the State returned (`ok').                                              *)
(***************************************************************************)
EXTENDS Integers, Sequences

CONSTANTS BufferSize,    \* kWritableFileBufferSize
          PartialLengths \* the parts a write(2) may take
ASSUME FileAssumption == BufferSize \in Nat \ {0} /\ PartialLengths \subseteq Nat \ {0}

NewFile == [buf |-> <<>>, offset |-> 0, disk |-> <<>>, lost |-> FALSE]

Taken(f, n) == [f EXCEPT !.disk = @ \o SubSeq(f.buf, 1, n)]
Lost(f)     == [f EXCEPT !.lost = TRUE]

\* Mutant: offset is not reset after the write.
EmptiedKeepsOffset(f) == [f EXCEPT !.buf = <<>>]
Emptied(f) == [f EXCEPT !.buf = <<>>, !.offset = 0]

\* offset has passed the end of buf_: what is done next runs over the members behind it,
\* so it may return anything.
Broken(f) == f.offset > BufferSize
Anything(f) == [f : {f}, ok : BOOLEAN]

\* Mutant: the buffer is emptied before it is known to be written.
FileFlushForgets(f) ==
  IF f.offset = 0 THEN {[f |-> f, ok |-> TRUE]}
  ELSE {[f |-> Emptied(Taken(f, f.offset)), ok |-> TRUE], [f |-> Emptied(f), ok |-> FALSE]}

\* The loop always writes from the beginning of buf_, and offset bytes.  After a write
\* that took a part it ends well only if the second one takes just what was missing;
\* otherwise size passes zero and it goes on until a write fails (one more is enough to
\* show it).  One write that takes a part is looked at for each file.
FileFlush(f) ==
  IF Broken(f) THEN Anything(f)
  ELSE IF f.offset = 0 THEN {[f |-> f, ok |-> TRUE]}
  ELSE {[f |-> Emptied(Taken(f, f.offset)), ok |-> TRUE], [f |-> f, ok |-> FALSE]}
       \union UNION {LET g == Lost(Taken(f, n))
                     IN  {[f |-> Emptied(Taken(g, f.offset - n)), ok |-> TRUE],
                          [f |-> g, ok |-> FALSE],
                          [f |-> Taken(g, f.offset), ok |-> FALSE]} :
                     n \in {k \in PartialLengths : k < f.offset /\ ~f.lost}}

\* What fits is copied behind what is there; then the buffer is flushed, whatever comes
\* of it, and the rest is taken from the beginning of the data, not from where the
\* first copy ended, or left out if it would fill the buffer.  Only if nothing fitted is
\* the beginning the right place.
FileAppend(f, data) ==
  LET room == BufferSize - f.offset
      n    == IF Len(data) <= room THEN Len(data) ELSE room
      rest == Len(data) - n
      f1   == [f EXCEPT !.buf = @ \o SubSeq(data, 1, n), !.offset = @ + n]
      Again(g) == [g EXCEPT !.buf = SubSeq(data, 1, rest) \o SubSeq(g.buf, rest + 1, Len(g.buf)),
                            !.offset = @ + rest,
                            !.lost = @ \/ n > 0 \/ g.offset > 0]
  IN  IF Broken(f) THEN Anything(f)
      ELSE IF rest = 0 THEN {[f |-> f1, ok |-> TRUE]}
      ELSE IF rest < BufferSize THEN {[f |-> Again(o.f), ok |-> TRUE] : o \in FileFlush(f1)}
      ELSE UNION {FileFlush(Lost(o.f)) : o \in FileFlush(f1)}

\* Flush, and then a call that can fail as well: the fsync of Sync, the close of Close.
\* Sync first opens and syncs the directory of a file whose name does not begin with
\* MANIFEST (Ismanifest is the wrong way round); when that fails Flush is not called,
\* which leaves what a Flush leaves whose first write fails.
FileSync(f)  == UNION {{o, [o EXCEPT !.ok = FALSE]} : o \in FileFlush(f)}
FileClose(f) == UNION {{o, [o EXCEPT !.ok = FALSE]} : o \in FileFlush(f)}
=============================================================================
