-------------------------------- MODULE Merge --------------------------------
(***************************************************************************)
(* Memtables are flushed into blocks and the blocks are read through one   *)
(* iterator: Memtable::Flushlevel0fromskip adds the nodes of the skiplist  *)
(* to a Blockbuilder, and NewMergingIterator makes a Merageitor over the   *)
(* Block::Iters of several blocks, or hands out the only one.              *)
(*                                                                         *)
(* A memtable fills one block here; where a table is cut into blocks is    *)
(* the subject of Table.                                                   *)
(***************************************************************************)
EXTENDS Memtable, Block

CONSTANTS UserKey,    \* the characters of a user key
          MaxBlocks   \* bound: memtables that are flushed

ASSUME UserKeyAssumption ==
  /\ \A k \in Keys : UserKey[k] \in Seq(Nat) /\ Len(UserKey[k]) = KeySize[k]
  /\ \A j, k \in Keys : j < k <=> LexBefore(UserKey[j], UserKey[k])

VARIABLES
  blocks,      \* the blocks that were written
  children_,   \* an IteratorWrapper for each: its iterator, valid_ and key_
  current_,    \* the index of a child; 0 is nullptr
  direction_,
  call,        \* the last operation; <<>> before the iterator is made (history)
  entries      \* what was added to the memtables, in order (history)

iterVars == <<blocks, children_, current_, direction_, call, entries>>
vars == <<memVars, iterVars>>

InternalKey(n) == UserKey[n.key] \o <<n.tag>>

InitM ==
  /\ Init /\ blocks = <<>> /\ children_ = <<>> /\ current_ = 0
  /\ direction_ = "kForward" /\ call = <<>> /\ entries = <<>>

\* The nodes in the order of the skiplist: a node has its rank.
InOrder(nodes) ==
  LET rank(n) == Cardinality({m \in nodes : Before(m, n)}) + 1
  IN  [i \in 1 .. Cardinality(nodes) |-> CHOOSE n \in nodes : rank(n) = i]

\* The block that they are added to, one after the other.
BlockOf(list) ==
  LET block[i \in 0 .. Len(list)] ==
        IF i = 0 THEN EmptyBlock
        ELSE BlockAdd(block[i - 1], InternalKey(list[i]), list[i].val, list[i].val)
  IN  block[Len(list)]

\* Flushlevel0fromskip adds the nodes in the order of the skiplist; the database goes
\* on with a new memtable.
Flushlevel0fromskip ==
  /\ call = <<>> /\ table # {} /\ Len(blocks) < MaxBlocks
  /\ rpc = "idle" /\ last_sequence = Len(adds)
  /\ blocks' = Append(blocks, BlockOf(InOrder(table)))
  /\ alloc_ptr_' = Null /\ alloc_bytes_remaining_' = 0 /\ blocks_' = <<>>
  /\ memory_usage_' = 0 /\ allocs' = {} /\ table' = {} /\ born' = Len(adds)
  /\ UNCHANGED <<adds, last_sequence, readVars, children_, current_, direction_, call, entries>>
-----------------------------------------------------------------------------
(* IteratorWrapper: what it remembers of its iterator after each operation. *)
Update(i, it, old) ==
  LET valid == IterValid(blocks[i], it)
  IN  [it |-> it, valid |-> valid, key |-> IF valid THEN it.key ELSE old]

WrapperSeek(c, i, target) == Update(i, IterSeek(blocks[i], c.it, target), c.key)
WrapperNext(c, i)         == Update(i, IterNext(blocks[i], c.it), c.key)
WrapperPrev(c, i)         == Update(i, IterPrev(blocks[i], c.it), c.key)
WrapperSeekToLast(c, i)   == Update(i, IterSeekToLast(blocks[i], c.it), c.key)
WrapperSeekToFirst(c, i)  == Update(i, IterSeekToFirst(blocks[i], c.it), c.key)

\* Everything that was ever added, the newest first for each key.
Sorted ==
  LET all == InOrder({Node(adds[s].key, adds[s].seq, adds[s].type, adds[s].val) : s \in 1 .. Len(adds)})
  IN  [i \in 1 .. Len(all) |-> <<InternalKey(all[i]), all[i].val>>]

NewMergingIterator ==
  /\ call = <<>> /\ blocks # <<>> /\ table = {} /\ rpc = "idle"
  /\ children_' = [i \in 1 .. Len(blocks) |-> Update(i, NewIter(blocks[i]), <<>>)]
  /\ call' = <<"Open">> /\ entries' = Sorted
  /\ UNCHANGED <<memVars, blocks, current_, direction_>>

Merging == Len(children_) > 1

ValidOf(cs) == {i \in 1 .. Len(cs) : cs[i].valid}

\* The first child with the smallest key, the last one with the largest.
FindSmallest(cs) ==
  IF ValidOf(cs) = {} THEN 0
  ELSE CHOOSE i \in ValidOf(cs) : \A j \in ValidOf(cs) :
         KeyBefore(cs[i].key, cs[j].key) \/ (cs[i].key = cs[j].key /\ i <= j)
FindLargest(cs) ==
  IF ValidOf(cs) = {} THEN 0
  ELSE CHOOSE i \in ValidOf(cs) : \A j \in ValidOf(cs) :
         KeyBefore(cs[j].key, cs[i].key) \/ (cs[i].key = cs[j].key /\ j <= i)

\* Every child moves, and the merge goes forward or backward from there.
MoveAll(op, cs, forward) ==
  /\ call # <<>>
  /\ children_' = cs /\ call' = op
  /\ IF Merging THEN /\ current_' = IF forward THEN FindSmallest(cs) ELSE FindLargest(cs)
                     /\ direction_' = IF forward THEN "kForward" ELSE "kReverse"
                ELSE UNCHANGED <<current_, direction_>>
  /\ UNCHANGED <<memVars, blocks, entries>>

SeekToFirst ==
  MoveAll(<<"SeekToFirst">>,
          [i \in 1 .. Len(children_) |-> WrapperSeekToFirst(children_[i], i)], TRUE)
SeekToLast ==
  MoveAll(<<"SeekToLast">>,
          [i \in 1 .. Len(children_) |-> WrapperSeekToLast(children_[i], i)], FALSE)
SeekTarget(target) ==
  MoveAll(<<"Seek", target>>,
          [i \in 1 .. Len(children_) |-> WrapperSeek(children_[i], i, target)], TRUE)

\* The iterator that a client holds: the Merageitor, or the only child.
At    == IF Merging THEN current_ ELSE 1
Valid == IF Merging THEN current_ # 0
         ELSE call # <<>> /\ IterValid(blocks[1], children_[1].it)
Key   == IF Merging THEN children_[At].key ELSE children_[At].it.key
Value == children_[At].it.value

\* Turning round, the other children are put after the current key.
TurnForward ==
  [i \in 1 .. Len(children_) |->
     IF i = At \/ direction_ = "kForward" THEN children_[i]
     ELSE LET c == WrapperSeek(children_[i], i, Key)
          IN  IF c.valid /\ c.key = Key THEN WrapperNext(c, i) ELSE c]

\* Mutant: a child without an entry after the key is left at its end.
TurnBackwardNoLast ==
  [i \in 1 .. Len(children_) |->
     IF i = At \/ direction_ = "kReverse" THEN children_[i]
     ELSE LET c == WrapperSeek(children_[i], i, Key)
          IN  IF c.valid THEN WrapperPrev(c, i) ELSE c]

\* Turning round, the other children are put before the current key.
TurnBackward ==
  [i \in 1 .. Len(children_) |->
     IF i = At \/ direction_ = "kReverse" THEN children_[i]
     ELSE LET c == WrapperSeek(children_[i], i, Key)
          IN  IF c.valid THEN WrapperPrev(c, i) ELSE WrapperSeekToLast(c, i)]

NextEntry ==
  /\ call # <<>> /\ Valid
  /\ LET cs == TurnForward
     IN  MoveAll(<<"Next">>, [cs EXCEPT ![At] = WrapperNext(@, At)], TRUE)

PrevEntry ==
  /\ call # <<>> /\ Valid
  /\ LET cs == TurnBackward
     IN  MoveAll(<<"Prev">>, [cs EXCEPT ![At] = WrapperPrev(@, At)], FALSE)

SeekTargets ==
  {UserKey[k] \o <<PackSequenceAndType(s, kTypeValue)>> : k \in Keys, s \in 0 .. MaxAdds}

NextM ==
  \/ call = <<>> /\ Next /\ UNCHANGED iterVars
  \/ Flushlevel0fromskip
  \/ NewMergingIterator
  \/ SeekToFirst
  \/ SeekToLast
  \/ \E t \in SeekTargets : SeekTarget(t)
  \/ NextEntry
  \/ PrevEntry

SpecM == InitM /\ [][NextM]_vars
-----------------------------------------------------------------------------
(***************************************************************************)
(* The refinement: the position is that of the entry which key() and       *)
(* value() show.                                                           *)
(***************************************************************************)
Position ==
  IF call = <<>> \/ ~Valid THEN 0
  ELSE LET at == {i \in 1 .. Len(entries) : entries[i] = <<Key, Value>>}
       IN  IF at = {} THEN Len(entries) + 1 ELSE CHOOSE i \in at : TRUE

AtOrAfterTarget(e, target) == ~KeyBefore(e[1], target)

Abstract == INSTANCE Cursor WITH list <- entries, pos <- Position,
              Targets <- SeekTargets, AtOrAfter <- AtOrAfterTarget

\* Whatever sequence of calls a client makes, with any changes of direction, the
\* iterator over the blocks is a cursor over all entries that were added to the
\* memtables: none is left out, repeated or out of order, and the value belongs to
\* the key.
IteratorIsCursor == Abstract!Spec
=============================================================================
