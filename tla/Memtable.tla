------------------------------ MODULE Memtable ------------------------------
(***************************************************************************)
(* A memtable: Memtable::Add takes the bytes of an entry from the arena,   *)
(* encodes the entry there and inserts a node with a copy of it into the   *)
(* skiplist; Memtable::Get seeks an internal key, while the writer goes on *)
(* inserting.                                                              *)
(*                                                                         *)
(* An address is a block of the arena and an offset in it; operator new[]  *)
(* aligns the beginning of a block.  A user key is a number, a value its   *)
(* length.  The skiplist, an external library, is the set of its nodes: an *)
(* insertion is atomic and a search sees the nodes inserted before it.     *)
(***************************************************************************)
EXTENDS Integers, Sequences, FiniteSets

CONSTANTS BlockSize,    \* BlockSize of the arena
          Keys,         \* the user keys
          KeySize,      \* their lengths
          ValueSizes,   \* the lengths of values
          MaxAdds       \* bound: calls of Add

ASSUME ArenaAssumption == BlockSize \in Nat \ {0}
ASSUME SizeAssumption  == KeySize \in [Keys -> Nat] /\ ValueSizes \subseteq Nat
ASSUME EntryAssumption == Keys \subseteq Nat /\ MaxAdds \in Nat

VARIABLES
  alloc_ptr_,             \* [blk, off]; blk = 0 is nullptr
  alloc_bytes_remaining_,
  blocks_,                \* the lengths of the blocks
  memory_usage_,
  allocs,                 \* what was handed out (history)
  table,                  \* the nodes of the skiplist
  adds,                   \* the operations added, in order (history)
  born,                   \* how many of them older memtables have
  last_sequence,          \* VersionSet::LastSequence: what readers may see
  rpc, lookey, found      \* a reader: where it is, what it looks for, the answer

arenaVars == <<alloc_ptr_, alloc_bytes_remaining_, blocks_, memory_usage_, allocs>>
tableVars == <<table, adds, born, last_sequence>>
readVars  == <<rpc, lookey, found>>
memVars   == <<arenaVars, tableVars, readVars>>

kTypeDeletion == 0
kTypeValue    == 1
Align         == 8      \* of AllocateAligned
PointerSize   == 8      \* sizeof(char*), added to memory_usage_ with a block

\* Seven bits of a 32-bit length to a byte.
VarintLength(v) == 1 + Cardinality({b \in {128, 16384, 2097152, 268435456} : v >= b})
-----------------------------------------------------------------------------
Null == [blk |-> 0, off |-> 0]

Alloc == [blk : Nat, off : Nat, len : Nat]

Init ==
  /\ alloc_ptr_ = Null /\ alloc_bytes_remaining_ = 0 /\ blocks_ = <<>>
  /\ memory_usage_ = 0 /\ allocs = {}
  /\ table = {} /\ adds = <<>> /\ born = 0 /\ last_sequence = 0
  /\ rpc = "idle" /\ lookey = <<>> /\ found = <<>>

\* A block of its own, or a new block to go on in; the rest of the old one is lost.
AllocateNewBlock(bytes) ==
  /\ blocks_' = Append(blocks_, bytes)
  /\ memory_usage_' = memory_usage_ + bytes + PointerSize

HandOut(blk, off, bytes) ==
  allocs' = allocs \union {[blk |-> blk, off |-> off, len |-> bytes]}

\* Mutant: a large request does not get a block of its own.
AllocateFallbackAlwaysNew(bytes) ==
  LET blk == Len(blocks_) + 1
  IN  /\ AllocateNewBlock(IF bytes > BlockSize THEN bytes ELSE BlockSize)
      /\ HandOut(blk, 0, bytes)
      /\ alloc_ptr_' = [blk |-> blk, off |-> bytes]
      /\ alloc_bytes_remaining_' = IF bytes > BlockSize THEN 0 ELSE BlockSize - bytes

AllocateFallback(bytes) ==
  LET blk == Len(blocks_) + 1
  IN  /\ HandOut(blk, 0, bytes)
      /\ \/ /\ bytes > BlockSize \div 4
            /\ AllocateNewBlock(bytes)
            /\ UNCHANGED <<alloc_ptr_, alloc_bytes_remaining_>>
         \/ /\ bytes <= BlockSize \div 4
            /\ AllocateNewBlock(BlockSize)
            /\ alloc_ptr_' = [blk |-> blk, off |-> bytes]
            /\ alloc_bytes_remaining_' = BlockSize - bytes

\* The bytes to the next aligned address.
Slop == LET current_mod == alloc_ptr_.off % Align
        IN  IF current_mod = 0 THEN 0 ELSE Align - current_mod

\* Mutant: the slop is not counted in what is needed.
AllocateAlignedFree(bytes) ==
  \/ /\ bytes <= alloc_bytes_remaining_
     /\ HandOut(alloc_ptr_.blk, alloc_ptr_.off + Slop, bytes)
     /\ alloc_ptr_' = [alloc_ptr_ EXCEPT !.off = @ + Slop + bytes]
     /\ alloc_bytes_remaining_' = alloc_bytes_remaining_ - bytes
     /\ UNCHANGED <<blocks_, memory_usage_>>
  \/ bytes > alloc_bytes_remaining_ /\ AllocateFallback(bytes)

\* Mutant: the address is used as it is.
AllocateAlignedNoSlop(bytes) ==
  \/ /\ bytes <= alloc_bytes_remaining_
     /\ HandOut(alloc_ptr_.blk, alloc_ptr_.off, bytes)
     /\ alloc_ptr_' = [alloc_ptr_ EXCEPT !.off = @ + bytes]
     /\ alloc_bytes_remaining_' = alloc_bytes_remaining_ - bytes
     /\ UNCHANGED <<blocks_, memory_usage_>>
  \/ bytes > alloc_bytes_remaining_ /\ AllocateFallback(bytes)

AllocateAligned(bytes) ==
  LET needed == bytes + Slop
  IN  \/ /\ needed <= alloc_bytes_remaining_
         /\ HandOut(alloc_ptr_.blk, alloc_ptr_.off + Slop, bytes)
         /\ alloc_ptr_' = [alloc_ptr_ EXCEPT !.off = @ + needed]
         /\ alloc_bytes_remaining_' = alloc_bytes_remaining_ - needed
         /\ UNCHANGED <<blocks_, memory_usage_>>
      \/ needed > alloc_bytes_remaining_ /\ AllocateFallback(bytes)
-----------------------------------------------------------------------------
\* klength, user key, tag, vlength, value.
EncodedLength(key, vsize) ==
  VarintLength(KeySize[key] + 8) + KeySize[key] + 8 + VarintLength(vsize) + vsize

PackSequenceAndType(seq, t) == seq * 256 + t

\* cmp: user keys in order, and the newer of two entries of a key first.
Before(a, b) == a.key < b.key \/ (a.key = b.key /\ a.tag > b.tag)

Node(key, seq, type, vsize) ==
  [key |-> key, tag |-> PackSequenceAndType(seq, type), val |-> vsize]

\* InsertInto adds the operations of a batch, all under the number that Write took from
\* LastSequence (now_seq is never advanced).  Bound: a batch has no two operations of
\* one type on a key; theirs would be equal nodes, and their order the library's.
Add(key, type, vsize) ==
  LET seq == last_sequence + 1
      op  == [key |-> key, seq |-> seq, type |-> type, val |-> vsize]
  IN  /\ Len(adds) < MaxAdds
      /\ type = kTypeDeletion => vsize = 0
      /\ \A s \in 1 .. Len(adds) :
           ~(adds[s].key = key /\ adds[s].seq = seq /\ adds[s].type = type)
      /\ AllocateAligned(EncodedLength(key, vsize))
      /\ table' = table \union {Node(key, seq, type, vsize)}
      /\ adds' = Append(adds, op)
      /\ UNCHANGED <<born, last_sequence, readVars>>

\* Mutant: one more than was used.
SetLastSequenceAhead ==
  /\ last_sequence < Len(adds)
  /\ last_sequence' = Len(adds) + 1
  /\ UNCHANGED <<arenaVars, table, adds, born, readVars>>

\* Write stores LastSequence, advanced by the count of the batch, once the batch is in
\* the memtable.
SetLastSequence ==
  /\ last_sequence < Len(adds)
  /\ last_sequence' = Len(adds)
  /\ UNCHANGED <<arenaVars, table, adds, born, readVars>>

\* Get fixes its snapshot and encodes the key to look for.
\* Mutant: the tag of the key is that of a deletion.
LookeyDeletion(key, seq) == [key |-> key, tag |-> PackSequenceAndType(seq, kTypeDeletion)]
Lookey(key, seq) == [key |-> key, tag |-> PackSequenceAndType(seq, kTypeValue)]

GetBegin(key) ==
  /\ rpc = "idle" /\ rpc' = "seek"
  /\ lookey' = <<Lookey(key, last_sequence), last_sequence>>
  /\ UNCHANGED <<found, arenaVars, tableVars>>

\* The first node that is not before the key, if it is one of the same user key.
Seek(nodes, lk) ==
  LET after == {n \in nodes : ~Before(n, lk)}
      first == CHOOSE n \in after : \A m \in after : m = n \/ Before(n, m)
  IN  IF after # {} /\ first.key = lk.key THEN <<first>> ELSE <<>>

\* Memtable::Get: nothing, a deletion, or the value.
Answer(nodes, lk) ==
  LET t == Seek(nodes, lk)
  IN  IF t = <<>> THEN [kind |-> "none", val |-> 0]
      ELSE IF t[1].tag % 16 = kTypeValue THEN [kind |-> "value", val |-> t[1].val]
      ELSE [kind |-> "deleted", val |-> 0]

GetSeek ==
  /\ rpc = "seek" /\ rpc' = "done"
  /\ found' = <<Answer(table, lookey[1])>>
  /\ UNCHANGED <<lookey, arenaVars, tableVars>>

GetReturn ==
  /\ rpc = "done" /\ rpc' = "idle"
  /\ lookey' = <<>> /\ found' = <<>>
  /\ UNCHANGED <<arenaVars, tableVars>>

Next ==
  \/ \E k \in Keys, v \in ValueSizes : Add(k, kTypeValue, v)
  \/ \E k \in Keys : Add(k, kTypeDeletion, 0)
  \/ SetLastSequence
  \/ \E k \in Keys : GetBegin(k)
  \/ GetSeek
  \/ GetReturn

Spec == Init /\ [][Next]_memVars
-----------------------------------------------------------------------------
(***************************************************************************)
(* Properties.                                                             *)
(***************************************************************************)
\* The types of the arena, the skiplist and the reader.
TypeOK ==
  /\ alloc_ptr_ \in [blk : Nat, off : Nat] /\ alloc_bytes_remaining_ \in Nat
  /\ blocks_ \in Seq(Nat) /\ memory_usage_ \in Nat /\ allocs \subseteq Alloc
  /\ table \subseteq [key : Keys, tag : Nat, val : Nat]
  /\ adds \in Seq([key : Keys, seq : Nat, type : {kTypeDeletion, kTypeValue}, val : Nat])
  /\ born \in 0 .. Len(adds) /\ last_sequence \in 0 .. Len(adds)
  /\ rpc \in {"idle", "seek", "done"}

\* No byte of the arena is handed out twice, and every byte that is handed out lies
\* in its block: Add never writes over an entry that is being inserted or read.
AllocationsDisjoint ==
  \A a \in allocs :
    /\ a.blk \in 1 .. Len(blocks_) /\ a.off + a.len <= blocks_[a.blk]
    /\ \A b \in allocs : a = b \/ a.blk # b.blk \/ a.off + a.len <= b.off
                               \/ b.off + b.len <= a.off

\* AllocateAligned's assert: what Add encodes into begins at an aligned address.
AllocationsAligned == \A a \in allocs : a.off % Align = 0

\* A request of more than a quarter block does not end the block in use: when a block
\* is given up, less than a quarter of it and a slop is lost.  MakeRoomForwrite
\* rotates by memory_usage_, so that what is lost counts as written.
LastByte(blk) ==
  LET ends == {a.off + a.len : a \in {c \in allocs : c.blk = blk}}
  IN  CHOOSE e \in ends : \A f \in ends : f <= e
WasteBounded ==
  \A i \in 1 .. Len(blocks_) :
    i # alloc_ptr_.blk => blocks_[i] - LastByte(i) < BlockSize \div 4 + Align

\* The operations of this memtable on a key up to a snapshot, what Get answers for one
\* of them, and the answers of the newest batch among them.
Operations(key, seq) == {s \in born + 1 .. seq : adds[s].key = key}
Reply(n) ==
  [kind |-> IF n.type = kTypeValue THEN "value" ELSE "deleted", val |-> n.val]
OfNewestBatch(key, seq) ==
  LET of == Operations(key, seq)
  IN  IF of = {} THEN {[kind |-> "none", val |-> 0]}
      ELSE {Reply(adds[s]) : s \in {r \in of : \A q \in of : adds[q].seq <= adds[r].seq}}

\* Get answers with an operation of the newest batch that this memtable has of the key
\* up to the snapshot, whatever was inserted between the choice of the snapshot and the
\* search.  That need not be the last operation of the batch on the key: a value sorts
\* before a deletion with the same sequence number, in whatever order the two came.
GetNewest ==
  rpc = "done" => \E a \in OfNewestBatch(lookey[1].key, lookey[2]) : found = <<a>>
=============================================================================
