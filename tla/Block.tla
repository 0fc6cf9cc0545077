------------------------------- MODULE Block -------------------------------
(***************************************************************************)
(* Blocks of a table: Blockbuilder, which stores a key as the part it does *)
(* not share with the one before and a restart point, where a whole key is *)
(* stored, every so many entries; and Block::Iter, which finds its way     *)
(* back through the restart points.                                        *)
(*                                                                         *)
(* An internal key is the sequence of the characters of the user key with  *)
(* the tag as the last element.  Lengths count elements: a tag, the three  *)
(* lengths before an entry and a restart point take one each.              *)
(***************************************************************************)
EXTENDS Integers, Sequences, FiniteSetsExt

CONSTANT RestartInterval  \* block_restart_interval
ASSUME RestartAssumption == RestartInterval \in Nat \ {0}

CommonPrefix(a, b) ==
  Max({n \in 0 .. Len(a) : n <= Len(b) /\ SubSeq(a, 1, n) = SubSeq(b, 1, n)})

\* std::string_view::compare on user keys, then the larger tag first.
UserKeyOf(key) == SubSeq(key, 1, Len(key) - 1)
TagOf(key)     == key[Len(key)]
LexBefore(a, b) ==
  LET n == CommonPrefix(a, b)
  IN  \/ n = Len(a) /\ n < Len(b)
      \/ n < Len(a) /\ n < Len(b) /\ a[n + 1] < b[n + 1]
KeyBefore(a, b) ==
  \/ LexBefore(UserKeyOf(a), UserKeyOf(b))
  \/ UserKeyOf(a) = UserKeyOf(b) /\ TagOf(a) > TagOf(b)
-----------------------------------------------------------------------------
(* Blockbuilder. *)
EmptyBlock ==
  [entries |-> <<>>, size |-> 0, restarts |-> <<0>>, entrynum |-> 0, last_key |-> <<>>]

CurrentSizeEstimate(b) == b.size + Len(b.restarts) + 1

BlockAdd(b, key, val, vlen) ==
  LET restart == b.entrynum >= RestartInterval
      shared  == IF restart THEN 0 ELSE CommonPrefix(b.last_key, key)
      suffix  == SubSeq(key, shared + 1, Len(key))
      end     == b.size + 1 + Len(suffix) + vlen
  IN  [entries  |-> Append(b.entries, [off |-> b.size, end |-> end, shared |-> shared,
                                       suffix |-> suffix, val |-> val]),
       size     |-> end,
       restarts |-> IF restart THEN Append(b.restarts, b.size) ELSE b.restarts,
       entrynum |-> IF restart THEN 1 ELSE b.entrynum + 1,
       last_key |-> SubSeq(b.last_key, 1, shared) \o suffix]
-----------------------------------------------------------------------------
(***************************************************************************)
(* Block::Iter, as a record that the operations take and return.  `next'   *)
(* is NextEntryOffset, the end of value_; `ok' is the result of the last   *)
(* ParseNextKey.                                                           *)
(***************************************************************************)
NumRestarts(b) == Len(b.restarts)
GetRestartPoint(b, index) == b.restarts[index + 1]

NewIter(b) ==
  [current |-> b.size, restart_index |-> NumRestarts(b), key |-> <<>>,
   value |-> 0, next |-> 0, ok |-> FALSE]

IterValid(b, it) == it.current < b.size

EntryAt(b, off) == b.entries[CHOOSE i \in 1 .. Len(b.entries) : b.entries[i].off = off]

SeekToRestartPoint(b, it, index) ==
  [it EXCEPT !.key = <<>>, !.restart_index = index, !.next = GetRestartPoint(b, index)]

ParseNextKey(b, it) ==
  IF it.next >= b.size
  THEN [it EXCEPT !.current = b.size, !.restart_index = NumRestarts(b), !.ok = FALSE]
  ELSE LET e == EntryAt(b, it.next)
           passed == {j \in it.restart_index + 1 .. NumRestarts(b) - 1 :
                        GetRestartPoint(b, j) < e.off}
       IN  IF Len(it.key) < e.shared
           THEN [it EXCEPT !.current = e.off, !.key = <<>>, !.ok = FALSE]
           ELSE [current |-> e.off, restart_index |-> Max(passed \union {it.restart_index}),
                 key |-> SubSeq(it.key, 1, e.shared) \o e.suffix,
                 value |-> e.val, next |-> e.end, ok |-> TRUE]

\* do ... while (ParseNextKey() && NextEntryOffset() < limit)
ParseTo(b, it, limit) ==
  LET step[n \in 0 .. Len(b.entries)] ==
        IF n = 0 THEN ParseNextKey(b, it)
        ELSE LET p == step[n - 1]
             IN  IF p.ok /\ p.next < limit THEN ParseNextKey(b, p) ELSE p
  IN  step[Len(b.entries)]

\* The same, until a key that is not before the target.
ParseToKey(b, it, target) ==
  LET step[n \in 0 .. Len(b.entries)] ==
        IF n = 0 THEN ParseNextKey(b, it)
        ELSE LET p == step[n - 1]
             IN  IF p.ok /\ KeyBefore(p.key, target) THEN ParseNextKey(b, p) ELSE p
  IN  step[Len(b.entries)]

IterSeekToFirst(b, it) == ParseNextKey(b, SeekToRestartPoint(b, it, 0))

IterSeekToLast(b, it) ==
  ParseTo(b, SeekToRestartPoint(b, it, NumRestarts(b) - 1), b.size)

\* One turn of the bisection over the restart points.
Halve(b, target, s) ==
  LET mid == (s.left + s.right + 1) \div 2
      e   == EntryAt(b, GetRestartPoint(b, mid))
  IN  IF s.left >= s.right \/ ~s.ok THEN s
      ELSE IF e.shared # 0 THEN [s EXCEPT !.ok = FALSE]
      ELSE IF KeyBefore(e.suffix, target) THEN [s EXCEPT !.left = mid]
      ELSE [s EXCEPT !.right = mid - 1]

\* The last restart point whose key is before the target, by bisection.
Bisect(b, target) ==
  LET search[n \in 0 .. NumRestarts(b)] ==
        IF n = 0 THEN [left |-> 0, right |-> NumRestarts(b) - 1, ok |-> TRUE]
        ELSE Halve(b, target, search[n - 1])
  IN  search[NumRestarts(b)]

IterSeek(b, it, target) ==
  LET s == Bisect(b, target)
  IN  IF s.ok THEN ParseToKey(b, SeekToRestartPoint(b, it, s.left), target) ELSE it

IterNext(b, it) == ParseNextKey(b, it)

\* Back to the last restart point before the entry, and forward to the one before it.
IterPrev(b, it) ==
  LET before == {j \in 0 .. it.restart_index : GetRestartPoint(b, j) < it.current}
  IN  IF before = {}
      THEN [it EXCEPT !.current = b.size, !.restart_index = NumRestarts(b)]
      ELSE ParseTo(b, SeekToRestartPoint(b, it, Max(before)), it.current)
=============================================================================
