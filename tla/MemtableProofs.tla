--------------------------- MODULE MemtableProofs ---------------------------
(***************************************************************************)
(* Proofs about a memtable, from its first entry to the flush that a new   *)
(* one follows, for any block size of the arena and any keys and values;   *)
(* and about the blocks that are flushed, for any restart interval, up to  *)
(* the theorem that the iterator over them is a cursor.                    *)
(***************************************************************************)
EXTENDS Merge, FiniteSetTheorems, SequenceTheorems, NumberLemmas, TLAPS

\* An entry takes at least one byte.
LEMMA VarintType == \A v \in Nat : VarintLength(v) \in Nat \ {0}
<1> SUFFICES ASSUME NEW v \in Nat PROVE VarintLength(v) \in Nat \ {0}
  BY SMT
<1> DEFINE bounds == {128, 16384, 2097152, 268435456}
           S == {b \in bounds : v >= b}
<1>1. VarintLength(v) = 1 + Cardinality(S)
  BY SMT DEF VarintLength
<1>2. S \subseteq 0 .. v
  BY SMT
<1> HIDE DEF S, bounds
<1>3. IsFiniteSet(S)
  <2>1. 0 \in Int /\ v \in Int
    BY SMT
  <2>2. IsFiniteSet(0 .. v)
    BY <2>1, FS_Interval, Zenon
  <2> QED BY <1>2, <2>2, FS_Subset, Zenon
<1>4. Cardinality(S) \in Nat
  BY <1>3, FS_CardinalityType, Zenon
<1> QED
  BY <1>1, <1>4, SMT

LEMMA EncodedType ==
  ASSUME NEW k \in Keys, NEW v \in Nat
  PROVE  EncodedLength(k, v) \in Nat \ {0}
<1>1. KeySize[k] \in Nat
  BY SizeAssumption
<1>2. VarintLength(KeySize[k] + 8) \in Nat /\ VarintLength(v) \in Nat
  BY <1>1, VarintType
<1> QED
  BY <1>1, <1>2 DEF EncodedLength
-----------------------------------------------------------------------------
(***************************************************************************)
(* The inductive invariant.  What is left of the block in use lies behind  *)
(* alloc_ptr_, and everything handed out from it lies before.              *)
(***************************************************************************)
ArenaType ==
  /\ alloc_ptr_ \in [blk : Nat, off : Nat] /\ alloc_bytes_remaining_ \in Nat
  /\ blocks_ \in Seq(Nat) /\ memory_usage_ \in Nat /\ allocs \subseteq Alloc

RestBehind ==
  \/ alloc_ptr_.blk = 0 /\ alloc_bytes_remaining_ = 0
  \/ /\ alloc_ptr_.blk \in 1 .. Len(blocks_)
     /\ alloc_ptr_.off + alloc_bytes_remaining_ = blocks_[alloc_ptr_.blk]

HandedOutBefore ==
  \A a \in allocs : a.blk = alloc_ptr_.blk => a.off + a.len <= alloc_ptr_.off

ArenaInv ==
  /\ ArenaType /\ RestBehind /\ HandedOutBefore
  /\ AllocationsDisjoint /\ AllocationsAligned

LEMMA SlopAligns ==
  ASSUME ArenaInv
  PROVE  Slop \in Nat /\ (alloc_ptr_.off + Slop) % Align = 0
<1>1. alloc_ptr_.off \in Nat
  BY DEF ArenaInv, ArenaType
<1>2. \A x \in Nat : x % 8 \in 0 .. 7 /\ x = 8 * (x \div 8) + (x % 8)
  BY SMT
<1>3. ASSUME NEW x \in Nat, x % 8 # 0 PROVE (x + (8 - (x % 8))) % 8 = 0
  <2>1. x + (8 - (x % 8)) = 8 * (x \div 8 + 1)
    BY <1>2, SMT
  <2>2. x \div 8 + 1 \in Nat
    BY SMT
  <2>3. \A y \in Nat : (8 * y) % 8 = 0
    BY SMT
  <2> QED BY <2>1, <2>2, <2>3
<1>4. CASE alloc_ptr_.off % 8 = 0
  BY <1>1, <1>4 DEF Slop, Align
<1>5. CASE alloc_ptr_.off % 8 # 0
  <2>1. Slop = 8 - (alloc_ptr_.off % 8) /\ Align = 8
    BY <1>5 DEF Slop, Align
  <2>2. Slop \in Nat
    BY <2>1, <1>1, <1>2
  <2> QED BY <2>1, <2>2, <1>1, <1>3, <1>5
<1> QED BY <1>4, <1>5

\* A request from the rest of the block in use.
LEMMA RestPreserves ==
  ASSUME ArenaInv, NEW bytes \in Nat \ {0},
         bytes + Slop <= alloc_bytes_remaining_,
         HandOut(alloc_ptr_.blk, alloc_ptr_.off + Slop, bytes),
         alloc_ptr_' = [alloc_ptr_ EXCEPT !.off = @ + (bytes + Slop)],
         alloc_bytes_remaining_' = alloc_bytes_remaining_ - (bytes + Slop),
         UNCHANGED <<blocks_, memory_usage_>>
  PROVE  ArenaInv'
<1> DEFINE new == [blk |-> alloc_ptr_.blk, off |-> alloc_ptr_.off + Slop, len |-> bytes]
<1>1. Slop \in Nat /\ (alloc_ptr_.off + Slop) % Align = 0
  BY SlopAligns
<1>2. /\ alloc_ptr_ \in [blk : Nat, off : Nat]
      /\ alloc_ptr_.blk \in Nat /\ alloc_ptr_.off \in Nat /\ alloc_bytes_remaining_ \in Nat
      /\ blocks_ \in Seq(Nat) /\ memory_usage_ \in Nat /\ allocs \subseteq Alloc
  BY DEF ArenaInv, ArenaType
<1>3. /\ alloc_ptr_.blk \in 1 .. Len(blocks_)
      /\ alloc_ptr_.off + alloc_bytes_remaining_ = blocks_[alloc_ptr_.blk]
  BY <1>1, <1>2 DEF ArenaInv, RestBehind
<1>4. allocs' = allocs \union {new} /\ blocks_' = blocks_
  BY DEF HandOut
<1>5. /\ alloc_ptr_'.blk = alloc_ptr_.blk
      /\ alloc_ptr_'.off = alloc_ptr_.off + (bytes + Slop)
      /\ alloc_ptr_' \in [blk : Nat, off : Nat]
  <2>1. alloc_ptr_.off + (bytes + Slop) \in Nat
    BY <1>1, <1>2
  <2>2. alloc_ptr_' = [blk |-> alloc_ptr_.blk, off |-> alloc_ptr_.off + (bytes + Slop)]
    BY <1>2
  <2> QED BY <2>1, <2>2, <1>2
<1>6. new \in Alloc
  BY <1>1, <1>2 DEF Alloc
<1>7. ArenaType'
  BY <1>1, <1>2, <1>4, <1>5, <1>6 DEF ArenaType
<1>8. RestBehind'
  BY <1>1, <1>2, <1>3, <1>4, <1>5 DEF RestBehind
<1>9. HandedOutBefore'
  <2> SUFFICES ASSUME NEW a \in allocs', a.blk = alloc_ptr_'.blk
               PROVE  a.off + a.len <= alloc_ptr_'.off
    BY DEF HandedOutBefore
  <2>1. CASE a \in allocs
    <3>1. a.off + a.len <= alloc_ptr_.off /\ a.off \in Nat /\ a.len \in Nat
      BY <2>1, <1>2, <1>5 DEF ArenaInv, HandedOutBefore, Alloc
    <3> QED BY <3>1, <1>1, <1>2, <1>5, SMTT(20)
  <2>2. CASE a = new
    BY <2>2, <1>1, <1>2, <1>5
  <2> QED BY <2>1, <2>2, <1>4
<1>10. AllocationsDisjoint'
  <2>1. ASSUME NEW a \in allocs, a.blk = new.blk PROVE a.off + a.len <= new.off
    <3>1. a.off + a.len <= alloc_ptr_.off /\ a.off \in Nat /\ a.len \in Nat
      BY <2>1, <1>2 DEF ArenaInv, HandedOutBefore, Alloc
    <3> QED BY <3>1, <1>1, <1>2
  <2>2. new.blk \in 1 .. Len(blocks_') /\ new.off + new.len <= blocks_'[new.blk]
    BY <1>1, <1>2, <1>3, <1>4
  <2> QED BY <2>1, <2>2, <1>4 DEF ArenaInv, AllocationsDisjoint
<1>11. AllocationsAligned'
  BY <1>1, <1>4 DEF ArenaInv, AllocationsAligned
<1> QED BY <1>7, <1>8, <1>9, <1>10, <1>11 DEF ArenaInv

\* A request that opens a block, which is its own or the new one in use.
LEMMA NewBlockPreserves ==
  ASSUME ArenaInv, NEW bytes \in Nat \ {0}, AllocateFallback(bytes)
  PROVE  ArenaInv'
<1> DEFINE blk == Len(blocks_) + 1
           new == [blk |-> blk, off |-> 0, len |-> bytes]
<1>1. /\ alloc_ptr_ \in [blk : Nat, off : Nat] /\ alloc_bytes_remaining_ \in Nat
      /\ blocks_ \in Seq(Nat) /\ memory_usage_ \in Nat /\ allocs \subseteq Alloc
      /\ Len(blocks_) \in Nat
  BY DEF ArenaInv, ArenaType
<1>2. allocs' = allocs \union {new} /\ new \in Alloc
  BY <1>1 DEF AllocateFallback, HandOut, Alloc
<1>3. PICK size \in Nat :
        /\ bytes <= size /\ AllocateNewBlock(size)
        /\ \/ UNCHANGED <<alloc_ptr_, alloc_bytes_remaining_>>
           \/ /\ alloc_ptr_' = [blk |-> blk, off |-> bytes]
              /\ alloc_bytes_remaining_' = size - bytes
  <2>1. CASE bytes > BlockSize \div 4
    BY <2>1, ArenaAssumption DEF AllocateFallback
  <2>2. CASE bytes <= BlockSize \div 4
    BY <2>2, ArenaAssumption DEF AllocateFallback
  <2> QED BY <2>1, <2>2, ArenaAssumption
<1>4. /\ blocks_' \in Seq(Nat) /\ Len(blocks_') = blk /\ blocks_'[blk] = size
      /\ \A i \in 1 .. Len(blocks_) : blocks_'[i] = blocks_[i]
      /\ memory_usage_' \in Nat
  BY <1>1, <1>3 DEF AllocateNewBlock, PointerSize
<1>5. \A a \in allocs : a.blk \in 1 .. Len(blocks_) /\ a.blk # blk
  BY <1>1 DEF ArenaInv, AllocationsDisjoint
<1>6. ArenaType'
  BY <1>1, <1>2, <1>3, <1>4, SMTT(20) DEF ArenaType
<1>7. RestBehind'
  <2>1. CASE UNCHANGED <<alloc_ptr_, alloc_bytes_remaining_>>
    <3>1. CASE alloc_ptr_.blk = 0 /\ alloc_bytes_remaining_ = 0
      BY <2>1, <3>1 DEF RestBehind
    <3>2. CASE /\ alloc_ptr_.blk \in 1 .. Len(blocks_)
               /\ alloc_ptr_.off + alloc_bytes_remaining_ = blocks_[alloc_ptr_.blk]
      <4>1. alloc_ptr_.blk \in 1 .. Len(blocks_')
        BY <3>2, <1>1, <1>4
      <4>2. blocks_'[alloc_ptr_.blk] = blocks_[alloc_ptr_.blk]
        BY <3>2, <1>4
      <4> QED BY <2>1, <3>2, <4>1, <4>2 DEF RestBehind
    <3> QED BY <3>1, <3>2 DEF ArenaInv, RestBehind
  <2>2. CASE /\ alloc_ptr_' = [blk |-> blk, off |-> bytes]
             /\ alloc_bytes_remaining_' = size - bytes
    <3>1. alloc_ptr_'.blk = blk /\ alloc_ptr_'.off = bytes
      BY <2>2
    <3>2. blk \in 1 .. Len(blocks_') /\ bytes + (size - bytes) = size
      BY <1>1, <1>4
    <3> QED BY <2>2, <3>1, <3>2, <1>4 DEF RestBehind
  <2> QED BY <2>1, <2>2, <1>3
<1>8. HandedOutBefore'
  <2>1. CASE UNCHANGED <<alloc_ptr_, alloc_bytes_remaining_>>
    <3>1. alloc_ptr_.blk # blk
      BY <1>1 DEF ArenaInv, RestBehind
    <3> QED BY <2>1, <3>1, <1>2 DEF ArenaInv, HandedOutBefore
  <2>2. CASE alloc_ptr_' = [blk |-> blk, off |-> bytes]
    BY <2>2, <1>2, <1>5 DEF HandedOutBefore
  <2> QED BY <2>1, <2>2, <1>3
<1>9. AllocationsDisjoint'
  <2>1. ASSUME NEW a \in allocs
        PROVE  a.blk \in 1 .. Len(blocks_') /\ a.off + a.len <= blocks_'[a.blk]
    BY <2>1, <1>1, <1>4, <1>5, SMTT(20) DEF ArenaInv, AllocationsDisjoint
  <2>2. new.blk \in 1 .. Len(blocks_') /\ new.off + new.len <= blocks_'[new.blk]
    BY <1>1, <1>3, <1>4
  <2> QED BY <2>1, <2>2, <1>2, <1>5 DEF ArenaInv, AllocationsDisjoint
<1>10. AllocationsAligned'
  BY <1>2 DEF ArenaInv, AllocationsAligned, Align
<1> QED BY <1>6, <1>7, <1>8, <1>9, <1>10 DEF ArenaInv

LEMMA AllocatePreserves ==
  ASSUME ArenaInv, NEW bytes \in Nat \ {0}, AllocateAligned(bytes)
  PROVE  ArenaInv'
<1>1. CASE AllocateFallback(bytes)
  BY <1>1, NewBlockPreserves
<1>2. CASE ~AllocateFallback(bytes)
  BY <1>2, RestPreserves DEF AllocateAligned
<1> QED BY <1>1, <1>2

LEMMA ArenaInitially == Init => ArenaInv
BY DEF Init, Null, ArenaInv, ArenaType, RestBehind, HandedOutBefore,
       AllocationsDisjoint, AllocationsAligned

LEMMA ArenaUnchanged ==
  ASSUME ArenaInv, UNCHANGED arenaVars PROVE ArenaInv'
BY DEF arenaVars, ArenaInv, ArenaType, RestBehind, HandedOutBefore,
       AllocationsDisjoint, AllocationsAligned

LEMMA ArenaStep == ArenaInv /\ [Next]_memVars => ArenaInv'
<1> SUFFICES ASSUME ArenaInv, [Next]_memVars PROVE ArenaInv'
  OBVIOUS
<1>1. ASSUME NEW k \in Keys, NEW t, NEW v \in Nat, Add(k, t, v) PROVE ArenaInv'
  BY <1>1, EncodedType, AllocatePreserves DEF Add
<1>2. CASE \E k \in Keys, v \in ValueSizes : Add(k, kTypeValue, v)
  BY <1>1, <1>2, SizeAssumption
<1>3. CASE \E k \in Keys : Add(k, kTypeDeletion, 0)
  BY <1>1, <1>3
<1>4. CASE SetLastSequence
  BY <1>4, ArenaUnchanged DEF SetLastSequence
<1>5. CASE \E k \in Keys : GetBegin(k)
  BY <1>5, ArenaUnchanged DEF GetBegin
<1>6. CASE GetSeek
  BY <1>6, ArenaUnchanged DEF GetSeek
<1>7. CASE GetReturn
  BY <1>7, ArenaUnchanged DEF GetReturn
<1>8. CASE UNCHANGED memVars
  BY <1>8, ArenaUnchanged DEF memVars
<1> QED BY <1>2, <1>3, <1>4, <1>5, <1>6, <1>7, <1>8 DEF Next

-----------------------------------------------------------------------------
(***************************************************************************)
(* What the flush and the iterators of Merge are to the memtable: a new    *)
(* one takes its place, or nothing happens to it.                          *)
(***************************************************************************)
Renewed ==
  /\ alloc_ptr_' = Null /\ alloc_bytes_remaining_' = 0 /\ blocks_' = <<>>
  /\ memory_usage_' = 0 /\ allocs' = {} /\ table' = {} /\ born' = Len(adds)
  /\ rpc = "idle" /\ last_sequence = Len(adds)
  /\ UNCHANGED <<adds, last_sequence, readVars>>

LEMMA MergeSteps == [NextM]_vars => [Next]_memVars \/ Renewed
<1> SUFFICES ASSUME [NextM]_vars PROVE [Next]_memVars \/ Renewed
  OBVIOUS
<1>1. CASE Flushlevel0fromskip
  BY <1>1 DEF Flushlevel0fromskip, Renewed
<1>2. CASE NewMergingIterator
  BY <1>2 DEF NewMergingIterator
<1>3. ASSUME NEW op, NEW cs, NEW f, MoveAll(op, cs, f) PROVE UNCHANGED memVars
  BY <1>3 DEF MoveAll
<1>4. CASE SeekToFirst \/ SeekToLast \/ (\E t \in SeekTargets : SeekTarget(t))
  BY <1>3, <1>4 DEF SeekToFirst, SeekToLast, SeekTarget
<1>5. CASE NextEntry \/ PrevEntry
  BY <1>3, <1>5 DEF NextEntry, PrevEntry
<1>6. CASE UNCHANGED vars
  BY <1>6 DEF vars
<1> QED BY <1>1, <1>2, <1>4, <1>5, <1>6 DEF NextM

LEMMA ArenaMergeStep == ArenaInv /\ [NextM]_vars => ArenaInv'
<1>1. ASSUME Renewed PROVE ArenaInv'
  BY <1>1 DEF Renewed, Null, ArenaInv, ArenaType, RestBehind, HandedOutBefore,
       AllocationsDisjoint, AllocationsAligned
<1> QED BY <1>1, MergeSteps, ArenaStep

LEMMA ArenaAlways == SpecM => []ArenaInv
<1>1. InitM => ArenaInv
  BY ArenaInitially DEF InitM
<1> QED BY <1>1, ArenaMergeStep, PTL DEF SpecM

\* No byte of the arena is handed out twice, and none outside a block
\* (Arena::AllocateAligned and AllocateFallback, as Memtable::Add calls them).
THEOREM NoOverlap == SpecM => []AllocationsDisjoint
<1>1. ArenaInv => AllocationsDisjoint
  BY DEF ArenaInv
<1> QED BY <1>1, ArenaAlways, PTL

\* The assert at the end of AllocateAligned holds.
THEOREM AlwaysAligned == SpecM => []AllocationsAligned
<1>1. ArenaInv => AllocationsAligned
  BY DEF ArenaInv
<1> QED BY <1>1, ArenaAlways, PTL

-----------------------------------------------------------------------------
(***************************************************************************)
(* What is lost of a block.  Every block has an allocation that marks its  *)
(* end: in the block in use it ends at alloc_ptr_, in every other one less *)
(* than a quarter block and a slop is behind it.                           *)
(***************************************************************************)
EndMarked(i) ==
  \E a \in allocs :
    /\ a.blk = i
    /\ i = alloc_ptr_.blk => a.off + a.len = alloc_ptr_.off
    /\ i # alloc_ptr_.blk => blocks_[i] - (a.off + a.len) < (BlockSize \div 4) + Align
WasteInv == \A i \in 1 .. Len(blocks_) : EndMarked(i)

LEMMA SlopBound == ArenaInv => Slop \in 0 .. 7
<1> SUFFICES ASSUME ArenaInv PROVE Slop \in 0 .. 7
  OBVIOUS
<1>1. alloc_ptr_.off \in Nat
  BY DEF ArenaInv, ArenaType
<1>2. \A x \in Nat : x % 8 \in 0 .. 7
  BY SMT
<1> QED BY <1>1, <1>2 DEF Slop, Align

LEMMA WasteAllocate ==
  ASSUME ArenaInv, ArenaInv', WasteInv, NEW bytes \in Nat \ {0}, AllocateAligned(bytes)
  PROVE  WasteInv'
<1>1. /\ alloc_ptr_ \in [blk : Nat, off : Nat] /\ alloc_bytes_remaining_ \in Nat
      /\ blocks_ \in Seq(Nat) /\ allocs \subseteq Alloc /\ Len(blocks_) \in Nat
      /\ BlockSize \div 4 \in Nat
  BY ArenaAssumption DEF ArenaInv, ArenaType
<1>2. Slop \in 0 .. 7
  BY SlopBound
<1> SUFFICES ASSUME NEW i \in 1 .. Len(blocks_') PROVE EndMarked(i)'
  BY DEF WasteInv
<1>3. CASE /\ bytes + Slop <= alloc_bytes_remaining_
           /\ HandOut(alloc_ptr_.blk, alloc_ptr_.off + Slop, bytes)
           /\ alloc_ptr_' = [alloc_ptr_ EXCEPT !.off = @ + (bytes + Slop)]
           /\ UNCHANGED blocks_
  <2> DEFINE new == [blk |-> alloc_ptr_.blk, off |-> alloc_ptr_.off + Slop, len |-> bytes]
  <2>1. /\ allocs' = allocs \cup {new} /\ alloc_ptr_'.blk = alloc_ptr_.blk
        /\ alloc_ptr_'.off = alloc_ptr_.off + (bytes + Slop) /\ blocks_' = blocks_
    BY <1>1, <1>3 DEF HandOut
  <2>2. CASE i = alloc_ptr_.blk
    <3>1. new.blk = i /\ new.off + new.len = alloc_ptr_'.off /\ new \in allocs'
      BY <1>1, <1>2, <2>1, <2>2
    <3> QED BY <2>1, <2>2, <3>1 DEF EndMarked
  <2>3. CASE i # alloc_ptr_.blk
    <3>1. EndMarked(i)
      BY <2>1 DEF WasteInv
    <3> QED BY <2>1, <2>3, <3>1 DEF EndMarked
  <2> QED BY <2>2, <2>3
<1>4. CASE bytes + Slop > alloc_bytes_remaining_ /\ AllocateFallback(bytes)
  <2> DEFINE blk == Len(blocks_) + 1
             new == [blk |-> blk, off |-> 0, len |-> bytes]
  <2>1. allocs' = allocs \cup {new} /\ new.blk = blk /\ new.off + new.len = bytes
    BY <1>1, <1>4 DEF AllocateFallback, HandOut
  <2>2. PICK size \in Nat :
          /\ AllocateNewBlock(size)
          /\ \/ size = bytes /\ UNCHANGED alloc_ptr_
             \/ /\ alloc_ptr_' = [blk |-> blk, off |-> bytes] /\ bytes <= BlockSize \div 4
    <3>1. CASE bytes > BlockSize \div 4
      BY <1>4, <3>1, ArenaAssumption DEF AllocateFallback
    <3>2. CASE bytes <= BlockSize \div 4
      BY <1>4, <3>2, ArenaAssumption DEF AllocateFallback
    <3> QED BY <1>1, <3>1, <3>2
  <2>3. /\ Len(blocks_') = blk /\ blocks_'[blk] = size
        /\ \A j \in 1 .. Len(blocks_) : blocks_'[j] = blocks_[j]
    BY <1>1, <2>2 DEF AllocateNewBlock
  <2>4. alloc_ptr_.blk # blk
    BY <1>1 DEF ArenaInv, RestBehind
  <2>5. CASE i = blk
    <3>1. CASE size = bytes /\ UNCHANGED alloc_ptr_
      <4>1. blocks_'[i] - (new.off + new.len) < (BlockSize \div 4) + Align
        BY <1>1, <2>1, <2>3, <2>5, <3>1 DEF Align
      <4> QED BY <2>1, <2>4, <2>5, <3>1, <4>1 DEF EndMarked
    <3>2. CASE alloc_ptr_' = [blk |-> blk, off |-> bytes]
      BY <2>1, <2>5, <3>2 DEF EndMarked
    <3> QED BY <2>2, <3>1, <3>2
  <2>6. CASE i # blk
    <3>1. i \in 1 .. Len(blocks_) /\ blocks_'[i] = blocks_[i] /\ blocks_[i] \in Nat
      BY <1>1, <2>3, <2>6, SMTT(20)
    <3>2. PICK a \in allocs :
            /\ a.blk = i
            /\ i = alloc_ptr_.blk => a.off + a.len = alloc_ptr_.off
            /\ i # alloc_ptr_.blk => blocks_[i] - (a.off + a.len) < (BlockSize \div 4) + Align
      BY <3>1 DEF WasteInv, EndMarked
    <3>3. CASE UNCHANGED alloc_ptr_
      BY <2>1, <3>1, <3>2, <3>3 DEF EndMarked
    <3>4. CASE alloc_ptr_' = [blk |-> blk, off |-> bytes] /\ bytes <= BlockSize \div 4
      <4>1. i # alloc_ptr_'.blk
        BY <2>6, <3>4
      <4>2. blocks_[i] - (a.off + a.len) < (BlockSize \div 4) + Align
        <5>1. CASE i = alloc_ptr_.blk
          <6>1. alloc_ptr_.off + alloc_bytes_remaining_ = blocks_[i]
            BY <3>1, <5>1 DEF ArenaInv, RestBehind
          <6>2. a.off + a.len = alloc_ptr_.off /\ alloc_ptr_.off \in Nat
            BY <1>1, <3>2, <5>1
          <6>3. blocks_[i] - (a.off + a.len) = alloc_bytes_remaining_
            BY <1>1, <6>1, <6>2
          <6>4. alloc_bytes_remaining_ < bytes + Slop /\ bytes <= BlockSize \div 4
            BY <1>1, <1>2, <1>4, <3>4
          <6>5. \A r, b, d, q \in Int : r < b + d /\ b <= q /\ d <= 7 => r < q + 8
            OBVIOUS
          <6>6. Slop \in Int /\ Slop <= 7 /\ bytes \in Int
            BY <1>2
          <6>7. alloc_bytes_remaining_ < (BlockSize \div 4) + 8
            BY <1>1, <6>4, <6>5, <6>6
          <6> QED BY <6>3, <6>7 DEF Align
        <5> QED BY <3>2, <5>1
      <4> QED BY <2>1, <3>1, <3>2, <4>1, <4>2 DEF EndMarked
    <3> QED BY <2>2, <3>3, <3>4
  <2> QED BY <2>5, <2>6
<1> QED BY <1>3, <1>4 DEF AllocateAligned

LEMMA WasteStep == ArenaInv /\ ArenaInv' /\ WasteInv /\ [NextM]_vars => WasteInv'
<1> SUFFICES ASSUME ArenaInv, ArenaInv', WasteInv, [NextM]_vars PROVE WasteInv'
  OBVIOUS
<1>1. ASSUME NEW k \in Keys, NEW t, NEW v \in Nat, Add(k, t, v) PROVE WasteInv'
  BY <1>1, EncodedType, WasteAllocate DEF Add
<1>2. CASE \E k \in Keys, v \in ValueSizes : Add(k, kTypeValue, v)
  BY <1>1, <1>2, SizeAssumption
<1>3. CASE \E k \in Keys : Add(k, kTypeDeletion, 0)
  BY <1>1, <1>3
<1>4. CASE UNCHANGED arenaVars
  BY <1>4 DEF arenaVars, WasteInv, EndMarked
<1>5. CASE Renewed
  BY <1>5 DEF Renewed, WasteInv
<1> QED BY <1>2, <1>3, <1>4, <1>5, MergeSteps DEF Next, SetLastSequence, GetBegin, GetSeek,
           GetReturn, memVars

LEMMA WasteBound == ArenaInv /\ WasteInv => WasteBounded
<1> SUFFICES ASSUME ArenaInv, WasteInv, NEW i \in 1 .. Len(blocks_), i # alloc_ptr_.blk
             PROVE  blocks_[i] - LastByte(i) < (BlockSize \div 4) + Align
  BY DEF WasteBounded
<1> DEFINE ends == {a.off + a.len : a \in {c \in allocs : c.blk = i}}
<1>1. PICK a \in allocs :
        a.blk = i /\ blocks_[i] - (a.off + a.len) < (BlockSize \div 4) + Align
  BY DEF WasteInv, EndMarked
<1>2. blocks_[i] \in Nat /\ a.off + a.len \in ends /\ BlockSize \div 4 \in Nat
  BY <1>1, ArenaAssumption DEF ArenaInv, ArenaType
<1>3. ends \subseteq Nat /\ \A e \in ends : e <= blocks_[i]
  <2> SUFFICES ASSUME NEW c \in allocs, c.blk = i
               PROVE  c.off + c.len \in Nat /\ c.off + c.len <= blocks_[i]
    OBVIOUS
  <2>1. c.off \in Nat /\ c.len \in Nat
    BY DEF ArenaInv, ArenaType, Alloc
  <2>2. c.off + c.len <= blocks_[c.blk]
    BY DEF ArenaInv, AllocationsDisjoint
  <2> QED BY <2>1, <2>2
<1>4. \E e \in ends : \A f \in ends : f <= e
  BY <1>2, <1>3, GreatestNat
<1>5. LastByte(i) \in ends /\ \A f \in ends : f <= LastByte(i)
  BY <1>4 DEF LastByte
<1> HIDE DEF ends
<1>6. a.off + a.len <= LastByte(i) /\ LastByte(i) \in Nat /\ a.off + a.len \in Nat
  BY <1>2, <1>3, <1>5
<1> QED BY <1>1, <1>2, <1>6 DEF Align

\* When AllocateFallback gives up a block, less than a quarter of it and a slop is lost,
\* so that memory_usage_, by which MakeRoomForwrite rotates, is close to what was written.
THEOREM LittleWasted == SpecM => []WasteBounded
<1>1. InitM => WasteInv
  BY DEF InitM, Init, WasteInv
<1> QED BY <1>1, WasteStep, WasteBound, ArenaAlways, PTL DEF SpecM

-----------------------------------------------------------------------------
(***************************************************************************)
(* Memtable::Get.  The nodes are the entries of this memtable, and between *)
(* the choice of a snapshot and the search only newer ones are added.      *)
(***************************************************************************)
AddEntry == [key : Keys, seq : Nat, type : {kTypeDeletion, kTypeValue}, val : Nat]
NodeOf(s) == Node(adds[s].key, adds[s].seq, adds[s].type, adds[s].val)
TagNo(s)  == 256 * adds[s].seq + adds[s].type

TableType ==
  /\ adds \in Seq(AddEntry)
  /\ born \in 0 .. Len(adds) /\ last_sequence \in 0 .. Len(adds) /\ born <= last_sequence
  /\ rpc \in {"idle", "seek", "done"}

\* The numbers of batches: no two operations have equal internal keys, and a number that
\* was LastSequence divides the operations in two, by their place and by their number.
Distinct ==
  \A r, s \in 1 .. Len(adds) :
    adds[r].key = adds[s].key /\ adds[r].seq = adds[s].seq /\ adds[r].type = adds[s].type => r = s
Divides(n) == \A s \in 1 .. Len(adds) : adds[s].seq <= n <=> s <= n
Numbered ==
  /\ Distinct /\ Divides(last_sequence)
  /\ \A s \in 1 .. Len(adds) : adds[s].seq <= s

DeletionsEmpty == \A s \in 1 .. Len(adds) : adds[s].type = kTypeDeletion => adds[s].val = 0
TableHeld == table = {NodeOf(s) : s \in born + 1 .. Len(adds)}
Looking ==
  rpc # "idle" =>
    \E k \in Keys, s \in born .. last_sequence : lookey = <<Lookey(k, s), s>> /\ Divides(s)
ReadInv == TableType /\ Numbered /\ DeletionsEmpty /\ TableHeld /\ Looking /\ GetNewest

\* The fields of a node, and what its tag says.
LEMMA NodeFields ==
  ASSUME TableType, NEW s \in 1 .. Len(adds)
  PROVE  /\ NodeOf(s).key = adds[s].key /\ NodeOf(s).key \in Nat /\ adds[s] \in AddEntry
         /\ NodeOf(s).val = adds[s].val /\ NodeOf(s).val \in Nat
         /\ NodeOf(s).tag = TagNo(s) /\ NodeOf(s).tag \in Nat
         /\ NodeOf(s).tag % 16 = adds[s].type
         /\ NodeOf(s) \in [key : Keys, tag : Nat, val : Nat]
         /\ adds[s].seq \in Nat /\ adds[s].type \in {0, 1}
<1>1. /\ adds[s] \in AddEntry /\ adds[s].key \in Keys /\ adds[s].val \in Nat
      /\ adds[s].type \in {0, 1} /\ adds[s].seq \in Nat
  <2>1. adds[s] \in AddEntry
    BY DEF TableType
  <2> QED BY <2>1 DEF AddEntry, kTypeDeletion, kTypeValue
<1>2. NodeOf(s) = [key |-> adds[s].key, tag |-> adds[s].seq * 256 + adds[s].type, val |-> adds[s].val]
  BY DEF NodeOf, Node, PackSequenceAndType
<1>3. \A n \in Nat : (256 * n + 0) % 16 = 0 /\ (256 * n + 1) % 16 = 1 /\ n * 256 = 256 * n
  BY SMT
<1>4. adds[s].key \in Nat
  BY <1>1, EntryAssumption
<1>5. (256 * adds[s].seq + adds[s].type) % 16 = adds[s].type /\ adds[s].seq * 256 = 256 * adds[s].seq
  BY <1>1, <1>3
<1> QED BY <1>1, <1>2, <1>4, <1>5 DEF TagNo

\* A tag gives the number and the type.
LEMMA TagSplits ==
  ASSUME TableType, NEW r \in 1 .. Len(adds), NEW s \in 1 .. Len(adds)
  PROVE  /\ TagNo(r) \in Nat /\ TagNo(s) \in Nat
         /\ TagNo(r) = TagNo(s) => adds[r].seq = adds[s].seq /\ adds[r].type = adds[s].type
         /\ TagNo(r) >= TagNo(s) => adds[r].seq >= adds[s].seq
<1>1. PICK m, n, t, u : /\ m = adds[r].seq /\ n = adds[s].seq /\ t = adds[r].type /\ u = adds[s].type
                        /\ m \in Nat /\ n \in Nat /\ t \in {0, 1} /\ u \in {0, 1}
  BY NodeFields
<1>2. /\ 256 * m + t = 256 * n + u => m = n /\ t = u
      /\ 256 * m + t >= 256 * n + u => m >= n
      /\ 256 * m + t \in Nat /\ 256 * n + u \in Nat
  <2>1. m \in Nat /\ n \in Nat /\ t \in 0 .. 1 /\ u \in 0 .. 1
    BY <1>1
  <2> QED BY <2>1
<1> QED BY <1>1, <1>2 DEF TagNo

\* Of two nodes one is before the other: by key, and then by tag, the larger first.
LEMMA NodeOrder ==
  ASSUME TableType, NEW r \in 1 .. Len(adds), NEW s \in 1 .. Len(adds)
  PROVE  Before(NodeOf(r), NodeOf(s)) <=>
           adds[r].key < adds[s].key \/ (adds[r].key = adds[s].key /\ TagNo(r) > TagNo(s))
<1>1. /\ NodeOf(r).key = adds[r].key /\ NodeOf(r).tag = TagNo(r)
      /\ NodeOf(s).key = adds[s].key /\ NodeOf(s).tag = TagNo(s)
  BY NodeFields
<1> QED BY <1>1 DEF Before

\* ... and what a lookup key is not behind.
LEMMA LookOrder ==
  ASSUME TableType, NEW r \in 1 .. Len(adds), NEW k \in Keys, NEW s \in Nat, Divides(s)
  PROVE  Before(NodeOf(r), Lookey(k, s)) <=>
           adds[r].key < k \/ (adds[r].key = k /\ r > s)
<1>1. NodeOf(r).key = adds[r].key /\ NodeOf(r).tag = TagNo(r)
  BY NodeFields
<1>2. adds[r].type \in {0, 1} /\ adds[r].seq \in Nat /\ r \in Nat
  BY NodeFields
<1>3. Lookey(k, s).key = k /\ Lookey(k, s).tag = s * 256 + 1
  BY DEF Lookey, PackSequenceAndType, kTypeValue
<1>4. TagNo(r) > s * 256 + 1 <=> adds[r].seq > s
  BY <1>2 DEF TagNo
<1>5. adds[r].seq > s <=> r > s
  <2>1. adds[r].seq <= s <=> r <= s
    BY DEF Divides
  <2> QED BY <1>2, <2>1
<1> QED BY <1>1, <1>3, <1>4, <1>5 DEF Before

\* The nodes from a lookup key on have a first one.
LEMMA FirstExists ==
  ASSUME TableType, Numbered, NEW S, S \subseteq 1 .. Len(adds), S # {}
  PROVE  \E r \in S : \A q \in S : q = r \/ Before(NodeOf(r), NodeOf(q))
<1> DEFINE ks == {adds[q].key : q \in S}
<1>0. Len(adds) \in Nat /\ \A q \in S : q \in Nat /\ q \in 1 .. Len(adds)
  BY DEF TableType
<1>1. ks \subseteq Nat /\ ks # {}
  <2>1. \A q \in S : adds[q].key \in Nat
    BY NodeFields
  <2> QED BY <2>1
<1>2. PICK k \in ks : \A j \in ks : k <= j
  BY <1>1, LeastNat
<1> DEFINE rs == {q \in S : adds[q].key = k}
           ts == {TagNo(q) : q \in rs}
<1>3. ts \subseteq Nat /\ ts # {} /\ (\A t \in ts : t <= 256 * Len(adds) + 1) /\ 256 * Len(adds) + 1 \in Nat
  <2>1. PICK q \in S : adds[q].key = k
    BY <1>2
  <2>2. TagNo(q) \in ts
    BY <2>1
  <2>3. ASSUME NEW p \in rs PROVE TagNo(p) \in Nat /\ TagNo(p) <= 256 * Len(adds) + 1
    <3>1. p \in 1 .. Len(adds)
      BY <1>0
    <3>2. adds[p].seq \in Nat /\ adds[p].type \in {0, 1} /\ adds[p].seq <= p
      BY <3>1, NodeFields DEF Numbered
    <3> QED BY <1>0, <3>1, <3>2 DEF TagNo
  <2>4. 256 * Len(adds) + 1 \in Nat
    BY <1>0
  <2> QED BY <2>2, <2>3, <2>4
<1>4. PICK t \in ts : \A u \in ts : u <= t
  <2> HIDE DEF ts
  <2> QED BY <1>3, GreatestNat
<1>5. PICK r \in rs : t = TagNo(r)
  BY <1>4
<1>6. ASSUME NEW q \in S, q # r PROVE Before(NodeOf(r), NodeOf(q))
  <2>1. r \in 1 .. Len(adds) /\ q \in 1 .. Len(adds) /\ adds[r].key = k
    BY <1>0, <1>5
  <2>2. k <= adds[q].key /\ k \in Nat /\ adds[q].key \in Nat
    BY <1>1, <1>2, <1>6
  <2>3. adds[q].key = k => TagNo(q) < TagNo(r)
    <3> SUFFICES ASSUME adds[q].key = k PROVE TagNo(q) < TagNo(r)
      OBVIOUS
    <3>1. TagNo(q) <= TagNo(r)
      BY <1>4, <1>5
    <3>2. TagNo(q) # TagNo(r)
      BY <1>6, <2>1, TagSplits DEF Numbered, Distinct
    <3> QED BY <2>1, <3>1, <3>2, TagSplits
  <2> QED BY <2>1, <2>2, <2>3, NodeOrder
<1> QED BY <1>5, <1>6

\* The search finds an operation of the newest batch on the key up to the snapshot, or none.
LEMMA SeekNewest ==
  ASSUME TableType, Numbered, DeletionsEmpty, TableHeld, NEW k \in Keys,
         NEW s \in born .. last_sequence, Divides(s)
  PROVE  Answer(table, Lookey(k, s)) \in OfNewestBatch(k, s)
<1> DEFINE lk == Lookey(k, s)
           after == {n \in table : ~Before(n, lk)}
           S == {r \in born + 1 .. Len(adds) : ~Before(NodeOf(r), lk)}
           of == {r \in born + 1 .. s : adds[r].key = k}
<1>0. /\ born \in Nat /\ Len(adds) \in Nat /\ s \in Nat /\ s <= Len(adds) /\ k \in Nat
      /\ \A r \in born + 1 .. Len(adds) : r \in 1 .. Len(adds)
  BY EntryAssumption DEF TableType
<1>1. after = {NodeOf(r) : r \in S}
  BY DEF TableHeld
<1>2. S \subseteq 1 .. Len(adds)
  BY <1>0
<1>3. \A r \in 1 .. Len(adds) : adds[r].key \in Nat /\ r \in Nat
  BY <1>0, NodeFields
<1>4. \A r \in S : adds[r].key >= k /\ (adds[r].key = k => r <= s)
  <2> SUFFICES ASSUME NEW r \in S PROVE adds[r].key >= k /\ (adds[r].key = k => r <= s)
    OBVIOUS
  <2>1. r \in 1 .. Len(adds) /\ ~Before(NodeOf(r), lk)
    BY <1>2
  <2>2. ~(adds[r].key < k \/ (adds[r].key = k /\ r > s))
    BY <1>0, <2>1, LookOrder
  <2> QED BY <1>0, <1>3, <2>1, <2>2
<1>5. of \subseteq S
  <2> SUFFICES ASSUME NEW r \in born + 1 .. s, adds[r].key = k PROVE r \in S
    OBVIOUS
  <2>1. r \in born + 1 .. Len(adds) /\ r \in 1 .. Len(adds) /\ r <= s
    BY <1>0
  <2>2. ~Before(NodeOf(r), lk)
    BY <1>0, <2>1, LookOrder
  <2> QED BY <2>1, <2>2
<1>6. OfNewestBatch(k, s) =
        IF of = {} THEN {[kind |-> "none", val |-> 0]}
        ELSE {Reply(adds[p]) : p \in {r \in of : \A q \in of : adds[q].seq <= adds[r].seq}}
  BY DEF OfNewestBatch, Operations
<1>7. lk.key = k
  BY DEF Lookey
<1>8. CASE S = {}
  <2>1. after = {} /\ of = {}
    BY <1>1, <1>5, <1>8
  <2>2. Seek(table, lk) = <<>>
    BY <2>1 DEF Seek
  <2> QED BY <1>6, <2>1, <2>2 DEF Answer
<1>9. CASE S # {}
  <2> DEFINE first == CHOOSE n \in after : \A m \in after : m = n \/ Before(n, m)
  <2>1. PICK r \in S : \A q \in S : q = r \/ Before(NodeOf(r), NodeOf(q))
    BY <1>2, <1>9, FirstExists
  <2>2. r \in 1 .. Len(adds) /\ NodeOf(r) \in after
    BY <1>1, <1>2
  <2>3. \A m \in after : m = NodeOf(r) \/ Before(NodeOf(r), m)
    BY <1>1, <2>1
  <2>4. first \in after /\ \A m \in after : m = first \/ Before(first, m)
    BY <2>2, <2>3
  <2>5. PICK q \in S : first = NodeOf(q)
    BY <1>1, <2>4
  <2>6. first = NodeOf(r)
    <3> SUFFICES ASSUME NodeOf(r) # first PROVE FALSE
      OBVIOUS
    <3>1. Before(NodeOf(q), NodeOf(r)) /\ Before(NodeOf(r), NodeOf(q))
      BY <2>2, <2>3, <2>4, <2>5
    <3>2. q \in 1 .. Len(adds)
      BY <1>2
    <3>3. TagNo(q) \in Nat /\ TagNo(r) \in Nat
      BY <2>2, <3>2, TagSplits
    <3>4. adds[q].key \in Nat /\ adds[r].key \in Nat
      BY <1>3, <2>2, <3>2
    <3> QED BY <2>2, <3>1, <3>2, <3>3, <3>4, NodeOrder
  <2>7. NodeOf(r).key = adds[r].key
    BY <2>2, NodeFields
  <2>8. Seek(table, lk) = IF adds[r].key = k THEN <<NodeOf(r)>> ELSE <<>>
    <3>1. Seek(table, lk) = IF after # {} /\ first.key = lk.key THEN <<first>> ELSE <<>>
      BY Zenon DEF Seek
    <3>2. after # {} /\ first.key = adds[r].key
      BY <2>2, <2>6, <2>7
    <3> HIDE DEF first, after
    <3> QED BY <1>7, <2>6, <3>1, <3>2
  <2>9. CASE adds[r].key = k
    <3>1. r \in of
      BY <1>0, <1>4, <2>2, <2>9
    <3>2. \A p \in of : adds[p].seq <= adds[r].seq
      <4> SUFFICES ASSUME NEW p \in of PROVE adds[p].seq <= adds[r].seq
        OBVIOUS
      <4>1. p \in S /\ p \in 1 .. Len(adds) /\ adds[p].key = k
        BY <1>2, <1>5
      <4>2. adds[p].seq \in Nat /\ adds[r].seq \in Nat
        BY <2>2, <4>1, NodeFields
      <4>3. p = r \/ TagNo(r) > TagNo(p)
        BY <1>3, <2>1, <2>2, <2>9, <4>1, NodeOrder
      <4> QED BY <2>2, <4>1, <4>2, <4>3, TagSplits
    <3>5. Reply(adds[r]) \in OfNewestBatch(k, s)
      BY <1>6, <3>1, <3>2
    <3>6. /\ NodeOf(r).tag % 16 = adds[r].type /\ NodeOf(r).val = adds[r].val
          /\ adds[r] \in AddEntry
      BY <2>2, NodeFields
    <3>7. adds[r].type # kTypeValue => adds[r].val = 0
      BY <2>2, <3>6 DEF DeletionsEmpty, AddEntry
    <3>8. Seek(table, lk) = <<NodeOf(r)>>
      BY <2>8, <2>9
    <3>9. Answer(table, lk) =
            IF NodeOf(r).tag % 16 = kTypeValue THEN [kind |-> "value", val |-> NodeOf(r).val]
            ELSE [kind |-> "deleted", val |-> 0]
      BY <3>8 DEF Answer
    <3> QED BY <3>5, <3>6, <3>7, <3>9 DEF Reply
  <2>10. CASE adds[r].key # k
    <3>1. of = {}
      <4> SUFFICES ASSUME NEW p \in of PROVE FALSE
        OBVIOUS
      <4>1. p \in S /\ p \in 1 .. Len(adds) /\ adds[p].key = k /\ p # r
        BY <1>2, <1>5, <2>10
      <4>2. Before(NodeOf(r), NodeOf(p))
        BY <2>1, <4>1
      <4>3. adds[r].key < k
        BY <1>0, <1>3, <2>2, <2>10, <4>1, <4>2, NodeOrder
      <4> QED BY <1>0, <1>3, <1>4, <2>2, <4>3
    <3>2. Seek(table, lk) = <<>>
      BY <2>8, <2>10
    <3> QED BY <1>6, <3>1, <3>2 DEF Answer
  <2> QED BY <2>9, <2>10
<1> QED BY <1>8, <1>9

\* What was added before is not changed by Add.
LEMMA AddRead ==
  ASSUME ReadInv, NEW k \in Keys, NEW t \in {kTypeDeletion, kTypeValue}, NEW v \in Nat,
         Add(k, t, v)
  PROVE  ReadInv'
<1> DEFINE q == last_sequence + 1
           new == [key |-> k, seq |-> q, type |-> t, val |-> v]
<1>1. /\ adds' = Append(adds, new) /\ UNCHANGED <<born, last_sequence, rpc, lookey, found>>
      /\ table' = table \cup {Node(k, q, t, v)}
      /\ t = kTypeDeletion => v = 0
      /\ \A s \in 1 .. Len(adds) : ~(adds[s].key = k /\ adds[s].seq = q /\ adds[s].type = t)
  BY DEF Add, readVars
<1>2. /\ adds \in Seq(AddEntry) /\ Len(adds) \in Nat /\ born \in Nat /\ born <= Len(adds)
      /\ last_sequence \in Nat /\ last_sequence <= Len(adds) /\ q \in Nat
  BY DEF ReadInv, TableType
<1>3. new \in AddEntry
  BY <1>2 DEF AddEntry
<1>4. /\ adds' \in Seq(AddEntry) /\ Len(adds') = Len(adds) + 1
      /\ adds'[Len(adds) + 1] = new /\ \A s \in 1 .. Len(adds) : adds'[s] = adds[s]
  BY <1>1, <1>2, <1>3
<1>5. TableType'
  BY <1>1, <1>2, <1>4 DEF ReadInv, TableType
<1>6. DeletionsEmpty'
  BY <1>1, <1>2, <1>4 DEF ReadInv, DeletionsEmpty
<1>7. TableHeld'
  <2>0. PICK n \in Nat : n = Len(adds) + 1
    BY <1>2
  <2>1. \A s \in 1 .. Len(adds) : NodeOf(s)' = NodeOf(s)
    BY <1>4 DEF NodeOf
  <2>2. NodeOf(n)' = Node(k, q, t, v)
    BY <1>4, <2>0 DEF NodeOf
  <2>3. /\ born + 1 .. Len(adds') = (born + 1 .. Len(adds)) \cup {n}
        /\ \A s \in born + 1 .. Len(adds) : s \in 1 .. Len(adds)
    BY <1>2, <1>4, <2>0
  <2>4. {NodeOf(s)' : s \in born + 1 .. Len(adds')} =
          {NodeOf(s) : s \in born + 1 .. Len(adds)} \cup {Node(k, q, t, v)}
    <3>1. \A s \in born + 1 .. Len(adds') : \/ s \in born + 1 .. Len(adds) /\ NodeOf(s)' = NodeOf(s)
                                            \/ s = n /\ NodeOf(s)' = Node(k, q, t, v)
      BY <2>1, <2>2, <2>3
    <3>2. n \in born + 1 .. Len(adds')
      BY <2>3
    <3>3. \A s \in born + 1 .. Len(adds) : s \in born + 1 .. Len(adds') /\ NodeOf(s)' = NodeOf(s)
      BY <2>1, <2>3
    <3> QED BY <2>2, <3>1, <3>2, <3>3, Zenon
  <2> QED BY <1>1, <2>0, <2>4 DEF ReadInv, TableHeld
<1>8. Numbered'
  <2>1. PICK n \in Nat : n = Len(adds) + 1
    BY <1>2
  <2>2. \A s \in 1 .. Len(adds') : (s \in 1 .. Len(adds) /\ adds'[s] = adds[s] /\ s <= Len(adds)) \/ (s = n /\ adds'[s] = new)
    BY <1>2, <1>4, <2>1
  <2>3. Distinct'
    <3> SUFFICES ASSUME NEW r \in 1 .. Len(adds'), NEW s \in 1 .. Len(adds'),
                        adds'[r].key = adds'[s].key, adds'[r].seq = adds'[s].seq, adds'[r].type = adds'[s].type
                 PROVE  r = s
      BY DEF Distinct
    <3> QED BY <1>1, <2>2 DEF ReadInv, Numbered, Distinct
  <2>4. Divides(last_sequence)'
    <3> SUFFICES ASSUME NEW s \in 1 .. Len(adds') PROVE adds'[s].seq <= last_sequence <=> s <= last_sequence
      BY <1>1 DEF Divides
    <3>1. CASE s = n /\ adds'[s] = new
      BY <1>2, <2>1, <3>1
    <3> QED BY <2>2, <3>1 DEF ReadInv, Numbered, Divides
  <2>5. \A s \in 1 .. Len(adds') : adds'[s].seq <= s
    <3> SUFFICES ASSUME NEW s \in 1 .. Len(adds') PROVE adds'[s].seq <= s
      OBVIOUS
    <3>1. CASE s = n /\ adds'[s] = new
      BY <1>2, <2>1, <3>1
    <3> QED BY <2>2, <3>1 DEF ReadInv, Numbered
  <2> QED BY <2>3, <2>4, <2>5 DEF Numbered
<1>9. ASSUME NEW j \in Keys, NEW s \in born .. last_sequence, Divides(s)
      PROVE  Divides(s)' /\ OfNewestBatch(j, s)' = OfNewestBatch(j, s)
  <2>1. Divides(s)'
    <3> SUFFICES ASSUME NEW r \in 1 .. Len(adds') PROVE adds'[r].seq <= s <=> r <= s
      BY DEF Divides
    <3>1. CASE r \in 1 .. Len(adds)
      BY <1>4, <1>9, <3>1 DEF Divides
    <3>2. CASE r = Len(adds) + 1
      BY <1>2, <1>4, <3>2
    <3> QED BY <1>2, <1>4, <3>1, <3>2
  <2>2. \A r \in born + 1 .. s : adds'[r] = adds[r]
    BY <1>2, <1>4
  <2>3. Operations(j, s)' = Operations(j, s)
    BY <1>1, <2>2 DEF Operations
  <2>4. \A r \in Operations(j, s) : adds'[r] = adds[r]
    BY <2>2 DEF Operations
  <2>5. OfNewestBatch(j, s)' = OfNewestBatch(j, s)
    <3> DEFINE of == Operations(j, s)
               best == {r \in of : \A p \in of : adds[p].seq <= adds[r].seq}
    <3>1. {r \in of : \A p \in of : adds'[p].seq <= adds'[r].seq} = best
      BY <2>4
    <3>2. {Reply(adds'[r]) : r \in best} = {Reply(adds[r]) : r \in best}
      BY <2>4
    <3>3. OfNewestBatch(j, s)' =
            IF of = {} THEN {[kind |-> "none", val |-> 0]}
            ELSE {Reply(adds'[r]) : r \in {r \in of : \A p \in of : adds'[p].seq <= adds'[r].seq}}
      BY <2>3 DEF OfNewestBatch, Reply
    <3> QED BY <3>1, <3>2, <3>3 DEF OfNewestBatch
  <2> QED BY <2>1, <2>5
<1>10. Looking'
  BY <1>1, <1>9 DEF ReadInv, Looking
<1>11. GetNewest'
  <2> SUFFICES ASSUME rpc = "done" PROVE GetNewest'
    BY <1>1 DEF GetNewest
  <2>1. PICK j \in Keys, s \in born .. last_sequence : lookey = <<Lookey(j, s), s>> /\ Divides(s)
    BY DEF ReadInv, Looking
  <2>3. OfNewestBatch(j, s)' = OfNewestBatch(j, s)
    BY <1>9, <2>1
  <2>4. lookey[1].key = j /\ lookey[2] = s
    BY <2>1 DEF Lookey
  <2> QED BY <1>1, <2>3, <2>4 DEF ReadInv, GetNewest
<1> QED BY <1>5, <1>6, <1>7, <1>8, <1>10, <1>11 DEF ReadInv

LEMMA ReadStep == ReadInv /\ [NextM]_vars => ReadInv'
<1> SUFFICES ASSUME ReadInv, [NextM]_vars PROVE ReadInv'
  OBVIOUS
<1>1. CASE \E k \in Keys, v \in ValueSizes : Add(k, kTypeValue, v)
  BY <1>1, AddRead, SizeAssumption
<1>2. CASE \E k \in Keys : Add(k, kTypeDeletion, 0)
  BY <1>2, AddRead
<1>3. CASE SetLastSequence
  <2>1. last_sequence' = Len(adds) /\ UNCHANGED <<table, adds, born, rpc, lookey, found>>
    BY <1>3 DEF SetLastSequence, readVars
  <2>2. TableType'
    BY <2>1 DEF ReadInv, TableType
  <2>3. DeletionsEmpty' /\ TableHeld'
    BY <2>1 DEF ReadInv, DeletionsEmpty, TableHeld, NodeOf
  <2>4. GetNewest'
    BY <2>1 DEF ReadInv, GetNewest, OfNewestBatch, Operations, Reply
  <2>5. Looking'
    <3> SUFFICES ASSUME rpc # "idle" PROVE Looking'
      BY <2>1 DEF Looking
    <3>1. PICK k \in Keys, s \in born .. last_sequence : lookey = <<Lookey(k, s), s>> /\ Divides(s)
      BY DEF ReadInv, Looking
    <3>2. s \in born' .. last_sequence'
      BY <2>1 DEF ReadInv, TableType
    <3>3. Divides(s)'
      BY <2>1, <3>1 DEF Divides
    <3> QED BY <2>1, <3>1, <3>2, <3>3 DEF Looking
  <2>6. Numbered'
    <3>1. Distinct' /\ \A s \in 1 .. Len(adds') : adds'[s].seq <= s
      BY <2>1 DEF ReadInv, Numbered, Distinct
    <3>2. ASSUME NEW s \in 1 .. Len(adds) PROVE adds[s].seq <= Len(adds) /\ s <= Len(adds)
      <4>1. adds[s].seq \in Nat /\ adds[s].seq <= s /\ Len(adds) \in Nat
        BY NodeFields DEF ReadInv, Numbered, TableType
      <4> QED BY <4>1
    <3>3. Divides(last_sequence)'
      BY <2>1, <3>2 DEF Divides
    <3> QED BY <3>1, <3>3 DEF Numbered
  <2> QED BY <2>2, <2>3, <2>4, <2>5, <2>6 DEF ReadInv
<1>4. CASE \E k \in Keys : GetBegin(k)
  <2>1. PICK k \in Keys : GetBegin(k)
    BY <1>4
  <2>2. /\ rpc' = "seek" /\ lookey' = <<Lookey(k, last_sequence), last_sequence>>
        /\ UNCHANGED <<table, adds, born, last_sequence>>
    BY <2>1 DEF GetBegin, tableVars
  <2>3. TableType' /\ DeletionsEmpty' /\ GetNewest'
    BY <2>2 DEF ReadInv, TableType, DeletionsEmpty, GetNewest
  <2>4. TableHeld'
    BY <2>2 DEF ReadInv, TableHeld, NodeOf
  <2>5. last_sequence \in born' .. last_sequence' /\ Divides(last_sequence)' /\ Numbered'
    BY <2>2 DEF ReadInv, TableType, Numbered, Distinct, Divides
  <2>6. Looking'
    BY <2>2, <2>5 DEF Looking, Divides
  <2> QED BY <2>3, <2>4, <2>5, <2>6 DEF ReadInv
<1>5. CASE GetSeek
  <2>1. /\ rpc = "seek" /\ rpc' = "done" /\ found' = <<Answer(table, lookey[1])>>
        /\ UNCHANGED <<table, adds, born, last_sequence, lookey>>
    BY <1>5 DEF GetSeek, tableVars
  <2>2. TableType' /\ Numbered' /\ DeletionsEmpty' /\ Looking'
    BY <2>1 DEF ReadInv, TableType, Numbered, Distinct, Divides, DeletionsEmpty, Looking
  <2>3. TableHeld'
    BY <2>1 DEF ReadInv, TableHeld, NodeOf
  <2>4. GetNewest'
    <3>1. PICK k \in Keys, s \in born .. last_sequence : lookey = <<Lookey(k, s), s>> /\ Divides(s)
      BY <2>1 DEF ReadInv, Looking
    <3>2. lookey[1] = Lookey(k, s) /\ lookey[1].key = k /\ lookey[2] = s
      BY <3>1 DEF Lookey
    <3>3. Answer(table, Lookey(k, s)) \in OfNewestBatch(k, s)
      BY <3>1, SeekNewest DEF ReadInv
    <3>4. OfNewestBatch(k, s)' = OfNewestBatch(k, s)
      BY <2>1 DEF OfNewestBatch, Operations, Reply
    <3> QED BY <2>1, <3>2, <3>3, <3>4 DEF GetNewest
  <2> QED BY <2>2, <2>3, <2>4 DEF ReadInv
<1>6. CASE GetReturn
  <2>1. rpc' = "idle" /\ UNCHANGED <<table, adds, born, last_sequence>>
    BY <1>6 DEF GetReturn, tableVars
  <2>2. TableType' /\ Numbered' /\ DeletionsEmpty' /\ Looking' /\ GetNewest'
    BY <2>1 DEF ReadInv, TableType, Numbered, Distinct, Divides, DeletionsEmpty, Looking, GetNewest
  <2>3. TableHeld'
    BY <2>1 DEF ReadInv, TableHeld, NodeOf
  <2> QED BY <2>2, <2>3 DEF ReadInv
<1>7. CASE Renewed
  <2>1. /\ rpc' = "idle" /\ table' = {} /\ born' = Len(adds) /\ UNCHANGED <<adds, last_sequence>>
        /\ last_sequence = Len(adds)
    BY <1>7 DEF Renewed, readVars
  <2>2. TableType' /\ Numbered' /\ DeletionsEmpty' /\ Looking' /\ GetNewest'
    BY <2>1 DEF ReadInv, TableType, Numbered, Distinct, Divides, DeletionsEmpty, Looking, GetNewest
  <2>3. Len(adds) + 1 .. Len(adds) = {}
    BY DEF ReadInv, TableType
  <2>4. TableHeld'
    BY <2>1, <2>3 DEF TableHeld
  <2> QED BY <2>2, <2>4 DEF ReadInv
<1>8. CASE UNCHANGED memVars
  <2>1. UNCHANGED <<table, adds, born, last_sequence, rpc, lookey, found>>
    BY <1>8 DEF memVars, tableVars, readVars
  <2>2. TableType' /\ Numbered' /\ DeletionsEmpty' /\ Looking'
    BY <2>1 DEF ReadInv, TableType, Numbered, Distinct, Divides, DeletionsEmpty, Looking
  <2>3. TableHeld' /\ GetNewest'
    BY <2>1 DEF ReadInv, TableHeld, NodeOf, GetNewest, OfNewestBatch, Operations, Reply
  <2> QED BY <2>2, <2>3 DEF ReadInv
<1> QED BY <1>1, <1>2, <1>3, <1>4, <1>5, <1>6, <1>7, <1>8, MergeSteps DEF Next

LEMMA ReadAlways == SpecM => []ReadInv
<1>1. InitM => ReadInv
  <2> SUFFICES ASSUME InitM PROVE ReadInv
    OBVIOUS
  <2>1. adds = <<>> /\ table = {} /\ born = 0 /\ last_sequence = 0 /\ rpc = "idle"
    BY DEF InitM, Init
  <2>2. Len(adds) = 0 /\ adds \in Seq(AddEntry) /\ 0 + 1 .. 0 = {}
    BY <2>1
  <2> QED BY <2>1, <2>2 DEF ReadInv, TableType, Numbered, Distinct, Divides, DeletionsEmpty, TableHeld, Looking, GetNewest
<1> QED BY <1>1, ReadStep, PTL DEF SpecM

\* Type correctness of the arena, the skiplist and the reader.
THEOREM MemtableTypeCorrect == SpecM => []TypeOK
<1>1. ArenaInv /\ ReadInv => TypeOK
  <2> SUFFICES ASSUME ArenaInv, ReadInv PROVE TypeOK
    OBVIOUS
  <2>1. table \subseteq [key : Keys, tag : Nat, val : Nat]
    <3>1. \A s \in born + 1 .. Len(adds) : s \in 1 .. Len(adds)
      BY DEF ReadInv, TableType
    <3>2. \A s \in born + 1 .. Len(adds) : NodeOf(s) \in [key : Keys, tag : Nat, val : Nat]
      BY <3>1, NodeFields DEF ReadInv
    <3> QED BY <3>2 DEF ReadInv, TableHeld
  <2>2. ArenaType /\ TableType
    BY DEF ArenaInv, ReadInv
  <2> QED BY <2>1, <2>2 DEF TypeOK, ArenaType, TableType, AddEntry
<1> QED BY <1>1, ArenaAlways, ReadAlways, PTL

\* Memtable::Get answers with an operation of the newest batch that has its key up to the
\* snapshot, a value or a deletion, or that there is none, whatever Add inserts between
\* the choice of the snapshot and the search, and over any number of flushed memtables
\* before.  Which operation of a batch that both puts and deletes the key is not said.
THEOREM GetsNewest == SpecM => []GetNewest
<1>1. ReadInv => GetNewest
  BY DEF ReadInv
<1> QED BY <1>1, ReadAlways, PTL
-----------------------------------------------------------------------------
(***************************************************************************)
(* Blocks.  A block lists the entries that were added to it: they lie one  *)
(* after the other, each one spells its key from the one before, and a     *)
(* restart point is the place of an entry with its whole key.              *)
(***************************************************************************)
Chars == Seq(Nat)
Stored == [off : Nat, end : Nat, shared : Nat, suffix : Chars, val : Nat]

Placed(b, n) ==
  /\ b.entries \in Seq(Stored) /\ Len(b.entries) = n /\ b.size \in Nat /\ (n = 0 => b.size = 0)
  /\ \A i \in 1 .. n : /\ b.entries[i].off < b.entries[i].end /\ b.entries[i].end <= b.size
                       /\ i = 1 => b.entries[i].off = 0
                       /\ i = n => b.entries[i].end = b.size
                       /\ i < n => b.entries[i + 1].off = b.entries[i].end
  /\ \A i, j \in 1 .. n : i < j => b.entries[i].end <= b.entries[j].off

Spells(b, list) ==
  \A i \in 1 .. Len(list) :
    /\ list[i][2] = b.entries[i].val
    /\ b.entries[i].shared = 0 => list[i][1] = b.entries[i].suffix
    /\ b.entries[i].shared # 0 =>
         /\ i > 1 /\ b.entries[i].shared <= Len(list[i - 1][1])
         /\ list[i][1] = SubSeq(list[i - 1][1], 1, b.entries[i].shared) \o b.entries[i].suffix

Restarting(b, n) ==
  /\ b.restarts \in Seq(Nat) /\ Len(b.restarts) >= 1 /\ b.restarts[1] = 0
  /\ n = 0 => Len(b.restarts) = 1
  /\ \A j, k \in 1 .. Len(b.restarts) : j < k => b.restarts[j] < b.restarts[k]
  /\ n # 0 => \A j \in 1 .. Len(b.restarts) : \E i \in 1 .. n :
                b.restarts[j] = b.entries[i].off /\ b.entries[i].shared = 0

Holds(b, list) ==
  /\ list \in Seq(Chars \X Nat)
  /\ Placed(b, Len(list)) /\ Spells(b, list) /\ Restarting(b, Len(list))

BlockRecord == [entries : Seq(Stored), size : Nat, restarts : Seq(Nat), entrynum : Nat, last_key : Chars]

Building(b, list) ==
  /\ Holds(b, list) /\ b \in BlockRecord
  /\ b.entrynum \in Nat /\ (b.entrynum = 0 \/ list # <<>>)
  /\ b.last_key = IF list = <<>> THEN <<>> ELSE list[Len(list)][1]

\* Max, of the community modules, is the maximum.
LEMMA MaxOf ==
  ASSUME NEW T, T \subseteq Nat, T # {}, NEW n \in Nat, \A y \in T : y <= n
  PROVE  Max(T) \in T /\ \A y \in T : y <= Max(T)
<1>1. PICK x \in T : \A y \in T : y <= x
  BY GreatestNat
<1>2. \E z \in T : \A y \in T : z >= y
  BY <1>1
<1>3. Max(T) \in T /\ \A y \in T : Max(T) >= y
  BY <1>2 DEF Max
<1> QED BY <1>3

\* What two keys share is a prefix of both.
LEMMA PrefixShared ==
  ASSUME NEW a \in Chars, NEW b \in Chars
  PROVE  /\ CommonPrefix(a, b) \in Nat /\ CommonPrefix(a, b) <= Len(a) /\ CommonPrefix(a, b) <= Len(b)
         /\ SubSeq(a, 1, CommonPrefix(a, b)) = SubSeq(b, 1, CommonPrefix(a, b))
<1> DEFINE T == {n \in 0 .. Len(a) : n <= Len(b) /\ SubSeq(a, 1, n) = SubSeq(b, 1, n)}
<1>1. T \subseteq Nat /\ Len(a) \in Nat /\ Len(b) \in Nat /\ \A y \in T : y <= Len(a)
  BY DEF Chars
<1>2. 0 \in T
  <2>1. SubSeq(a, 1, 0) = <<>> /\ SubSeq(b, 1, 0) = <<>>
    BY DEF Chars
  <2> QED BY <1>1, <2>1
<1>3. Max(T) \in T
  <2> HIDE DEF T
  <2> QED BY <1>1, <1>2, MaxOf
<1>4. CommonPrefix(a, b) = Max(T)
  BY DEF CommonPrefix
<1>5. PICK x \in T : x = CommonPrefix(a, b)
  BY <1>3, <1>4
<1> QED BY <1>5

\* A key is its prefix and the rest of it.
LEMMA KeySplit ==
  ASSUME NEW k \in Chars, NEW n \in Nat, n <= Len(k)
  PROVE  /\ SubSeq(k, n + 1, Len(k)) \in Chars
         /\ SubSeq(k, 1, n) \o SubSeq(k, n + 1, Len(k)) = k
<1>1. k \in Seq(Nat) /\ Len(k) \in Nat
  BY DEF Chars
<1>2. n \in 1 - 1 .. Len(k) /\ Len(k) \in n .. Len(k) /\ 1 \in 1 .. Len(k) + 1
  BY <1>1
<1>3. SubSeq(k, 1, n) \o SubSeq(k, n + 1, Len(k)) = SubSeq(k, 1, Len(k))
  BY <1>1, <1>2, ConcatAdjacentSubSeq
<1>4. SubSeq(k, 1, Len(k)) = k
  BY <1>1, SubSeqFull
<1>5. SubSeq(k, n + 1, Len(k)) \in Seq(Nat)
  BY <1>1
<1> QED BY <1>3, <1>4, <1>5 DEF Chars

\* Blockbuilder begins with a block of no entries.
LEMMA EmptyBuilding == Building(EmptyBlock, <<>>)
<1>1. <<>> \in Seq(Chars \X Nat) /\ Len(<<>>) = 0 /\ <<>> \in Seq(Stored) /\ 1 .. 0 = {}
  OBVIOUS
<1>2. <<0>> \in Seq(Nat) /\ Len(<<0>>) = 1 /\ <<0>>[1] = 0
  OBVIOUS
<1>3. \A j, k \in 1 .. Len(<<0>>) : ~(j < k)
  BY <1>2
<1>4. EmptyBlock \in BlockRecord
  BY DEF EmptyBlock, BlockRecord, Chars, Stored
<1> QED BY <1>1, <1>2, <1>3, <1>4 DEF Building, Holds, Placed, Spells, Restarting, EmptyBlock

\* What BlockAdd appends.
Added(b, c, list, key, val, shared, suffix, end, restart) ==
  /\ end > b.size
  /\ shared = 0 => suffix = key
  /\ shared # 0 => /\ list # <<>> /\ shared <= Len(list[Len(list)][1])
                   /\ key = SubSeq(list[Len(list)][1], 1, shared) \o suffix
  /\ restart => shared = 0 /\ list # <<>>
  /\ c.entries = Append(b.entries, [off |-> b.size, end |-> end, shared |-> shared,
                                    suffix |-> suffix, val |-> val])
  /\ c.size = end
  /\ c.restarts = IF restart THEN Append(b.restarts, b.size) ELSE b.restarts
  /\ c.entrynum \in Nat
  /\ c.last_key = key

\* What Blockbuilder::Add does to the block, case by case.
LEMMA BlockAddFields ==
  ASSUME NEW b, NEW list, Building(b, list), NEW key \in Chars, NEW val \in Nat, NEW vlen \in Nat,
         NEW c, c = BlockAdd(b, key, val, vlen)
  PROVE  \E shared \in Nat, suffix \in Chars, end \in Nat, restart \in BOOLEAN :
           Added(b, c, list, key, val, shared, suffix, end, restart)
<1>1. /\ list \in Seq(Chars \X Nat) /\ b.size \in Nat /\ b.entrynum \in Nat
      /\ b.entrynum = 0 \/ list # <<>>
      /\ b.last_key = IF list = <<>> THEN <<>> ELSE list[Len(list)][1]
  BY DEF Building, Holds, Placed
<1>2. b.last_key \in Chars
  <2>1. list # <<>> => Len(list) \in 1 .. Len(list) /\ list[Len(list)] \in Chars \X Nat
    BY <1>1
  <2>2. <<>> \in Chars
    BY DEF Chars
  <2> QED BY <1>1, <2>1, <2>2
<1> DEFINE restart == b.entrynum >= RestartInterval
           shared == IF restart THEN 0 ELSE CommonPrefix(b.last_key, key)
           suffix == SubSeq(key, shared + 1, Len(key))
           end == b.size + 1 + Len(suffix) + vlen
<1>3. /\ shared \in Nat /\ shared <= Len(b.last_key) /\ shared <= Len(key)
      /\ SubSeq(b.last_key, 1, shared) = SubSeq(key, 1, shared)
  <2>1. Len(b.last_key) \in Nat /\ Len(key) \in Nat
    BY <1>2 DEF Chars
  <2>2. SubSeq(b.last_key, 1, 0) = <<>> /\ SubSeq(key, 1, 0) = <<>>
    BY <1>2 DEF Chars
  <2>3. CASE restart
    <3>1. shared = 0
      BY <2>3
    <3> HIDE DEF shared
    <3> QED BY <2>1, <2>2, <3>1
  <2>4. CASE ~restart
    <3>1. shared = CommonPrefix(b.last_key, key)
      BY <2>4
    <3> HIDE DEF shared
    <3> QED BY <1>2, <3>1, PrefixShared
  <2> QED BY <2>3, <2>4
<1>4. /\ c.entries = Append(b.entries, [off |-> b.size, end |-> end, shared |-> shared,
                                        suffix |-> suffix, val |-> val])
      /\ c.size = end /\ c.restarts = (IF restart THEN Append(b.restarts, b.size) ELSE b.restarts)
      /\ c.entrynum = (IF restart THEN 1 ELSE b.entrynum + 1)
      /\ c.last_key = SubSeq(b.last_key, 1, shared) \o suffix
  BY DEF BlockAdd
<1>5. restart \in BOOLEAN /\ (restart => shared = 0 /\ list # <<>>)
  <2>1. restart => b.entrynum # 0
    BY <1>1, RestartAssumption
  <2> QED BY <1>1, <2>1
<1> HIDE DEF restart, shared
<1>6. suffix \in Chars /\ SubSeq(key, 1, shared) \o suffix = key
  BY <1>3, KeySplit
<1>7. SubSeq(b.last_key, 1, shared) \o suffix = key
  BY <1>3, <1>6, Zenon
<1>8. shared = 0 => suffix = key
  BY SubSeqFull DEF Chars
<1> HIDE DEF suffix
<1>9. end \in Nat /\ end > b.size
  <2>1. Len(suffix) \in Nat
    BY <1>6 DEF Chars
  <2> QED BY <1>1, <2>1
<1>10. shared # 0 => /\ list # <<>> /\ shared <= Len(list[Len(list)][1])
                     /\ key = SubSeq(list[Len(list)][1], 1, shared) \o suffix
  <2>1. list = <<>> => shared = 0
    <3>1. Len(<<>>) = 0
      OBVIOUS
    <3> QED BY <1>1, <1>3, <3>1
  <2> QED BY <1>1, <1>3, <1>7, <2>1
<1>11. c.entrynum \in Nat
  BY <1>1, <1>4
<1> HIDE DEF end
<1>12. Added(b, c, list, key, val, shared, suffix, end, restart)
  BY <1>4, <1>5, <1>7, <1>8, <1>9, <1>10, <1>11 DEF Added
<1> QED BY <1>3, <1>5, <1>6, <1>9, <1>12

\* Blockbuilder::Add makes the block one of a longer list.
LEMMA BlockAddBuilding ==
  ASSUME NEW b, NEW list, Building(b, list), NEW key \in Chars, NEW val \in Nat, NEW vlen \in Nat
  PROVE  Building(BlockAdd(b, key, val, vlen), Append(list, <<key, val>>))
<1>1. PICK c, new : c = BlockAdd(b, key, val, vlen) /\ new = Append(list, <<key, val>>)
  OBVIOUS
<1>0. PICK shared \in Nat, suffix \in Chars, end \in Nat, restart \in BOOLEAN :
        Added(b, c, list, key, val, shared, suffix, end, restart)
  BY <1>1, BlockAddFields
<1>2. /\ end > b.size
      /\ shared = 0 => suffix = key
      /\ shared # 0 => /\ list # <<>> /\ shared <= Len(list[Len(list)][1])
                       /\ key = SubSeq(list[Len(list)][1], 1, shared) \o suffix
      /\ restart => shared = 0 /\ list # <<>>
      /\ c.entries = Append(b.entries, [off |-> b.size, end |-> end, shared |-> shared,
                                        suffix |-> suffix, val |-> val])
      /\ c.size = end
      /\ c.restarts = IF restart THEN Append(b.restarts, b.size) ELSE b.restarts
      /\ c.entrynum \in Nat
      /\ c.last_key = key
  BY <1>0, Zenon DEF Added
<1>3. PICK e \in Stored : e = [off |-> b.size, end |-> end, shared |-> shared, suffix |-> suffix, val |-> val]
  <2>1. b.size \in Nat
    BY DEF Building, Holds, Placed
  <2> QED BY <2>1 DEF Stored
<1>4. PICK n \in Nat : n = Len(list)
  BY DEF Building, Holds
<1>5. /\ list \in Seq(Chars \X Nat) /\ Placed(b, n) /\ Spells(b, list) /\ Restarting(b, n)
  BY <1>4 DEF Building, Holds
<1>6. /\ new \in Seq(Chars \X Nat) /\ Len(new) = n + 1 /\ new[n + 1] = <<key, val>>
      /\ \A i \in 1 .. n : new[i] = list[i]
  BY <1>1, <1>4, <1>5
<1>7. /\ c.entries \in Seq(Stored) /\ Len(c.entries) = n + 1 /\ c.entries[n + 1] = e
      /\ \A i \in 1 .. n : c.entries[i] = b.entries[i]
  <2>1. b.entries \in Seq(Stored) /\ Len(b.entries) = n
    BY <1>5 DEF Placed
  <2>2. c.entries = Append(b.entries, e)
    BY <1>2, <1>3
  <2> QED BY <2>1, <2>2
<1>8. e.off = b.size /\ e.end = end /\ e.shared = shared /\ e.suffix = suffix /\ e.val = val
  BY <1>3
<1>9. /\ b.size \in Nat /\ \A i \in 1 .. n : b.entries[i] \in Stored
      /\ c.size = end /\ end > b.size
  BY <1>2, <1>5 DEF Placed
<1>10. Placed(c, n + 1)
  <2>1. \A i \in 1 .. n : /\ b.entries[i].off \in Nat /\ b.entries[i].end \in Nat
                          /\ b.entries[i].off < b.entries[i].end /\ b.entries[i].end <= b.size
                          /\ i = 1 => b.entries[i].off = 0
                          /\ i = n => b.entries[i].end = b.size
                          /\ i < n => b.entries[i + 1].off = b.entries[i].end
    BY <1>5, <1>9 DEF Placed, Stored
  <2>2. ASSUME NEW i \in 1 .. n + 1
        PROVE  /\ c.entries[i].off < c.entries[i].end /\ c.entries[i].end <= c.size
               /\ i = 1 => c.entries[i].off = 0
               /\ i = n + 1 => c.entries[i].end = c.size
               /\ i < n + 1 => c.entries[i + 1].off = c.entries[i].end
    <3>1. CASE i = n + 1
      <4>1. n = 0 => b.size = 0
        BY <1>5 DEF Placed
      <4> QED BY <1>2, <1>7, <1>8, <1>9, <3>1, <4>1
    <3>2. CASE i # n + 1
      <4>1. i \in 1 .. n /\ c.entries[i] = b.entries[i]
        BY <1>7, <3>2
      <4>2. c.entries[i].end <= c.size
        BY <1>9, <2>1, <4>1
      <4>3. CASE i = n
        BY <1>7, <1>8, <2>1, <4>1, <4>2, <4>3
      <4>4. CASE i # n
        <5>1. i + 1 \in 1 .. n /\ c.entries[i + 1] = b.entries[i + 1] /\ i < n
          BY <1>7, <4>1, <4>4
        <5> QED BY <2>1, <3>2, <4>1, <4>2, <5>1
      <4> QED BY <4>3, <4>4
    <3> QED BY <3>1, <3>2
  <2>3. ASSUME NEW i \in 1 .. n + 1, NEW j \in 1 .. n + 1, i < j
        PROVE  c.entries[i].end <= c.entries[j].off
    <3>1. i \in 1 .. n /\ c.entries[i] = b.entries[i]
      BY <1>7, <2>3
    <3>2. CASE j = n + 1
      BY <1>7, <1>8, <2>1, <3>1, <3>2
    <3>3. CASE j # n + 1
      <4>1. j \in 1 .. n /\ c.entries[j] = b.entries[j]
        BY <1>7, <3>3
      <4> QED BY <1>5, <2>3, <3>1, <4>1 DEF Placed
    <3> QED BY <3>2, <3>3
  <2> QED BY <1>2, <1>7, <2>2, <2>3 DEF Placed
<1>11. Spells(c, new)
  <2> SUFFICES ASSUME NEW i \in 1 .. n + 1
               PROVE  /\ new[i][2] = c.entries[i].val
                      /\ c.entries[i].shared = 0 => new[i][1] = c.entries[i].suffix
                      /\ c.entries[i].shared # 0 =>
                           /\ i > 1 /\ c.entries[i].shared <= Len(new[i - 1][1])
                           /\ new[i][1] = SubSeq(new[i - 1][1], 1, c.entries[i].shared) \o c.entries[i].suffix
    BY <1>6 DEF Spells
  <2>1. CASE i = n + 1
    <3>1. new[i][1] = key /\ new[i][2] = val /\ c.entries[i] = e
      BY <1>6, <1>7, <2>1
    <3>2. shared # 0 => n # 0 /\ i - 1 = n /\ i > 1 /\ new[i - 1] = list[n]
      BY <1>2, <1>4, <1>5, <1>6, <2>1
    <3> QED BY <1>2, <1>4, <1>8, <3>1, <3>2
  <2>2. CASE i # n + 1
    <3>0. i \in 1 .. n /\ (i > 1 => i - 1 \in 1 .. n)
      BY <2>2
    <3>1. c.entries[i] = b.entries[i] /\ new[i] = list[i] /\ (i > 1 => new[i - 1] = list[i - 1])
      BY <1>6, <1>7, <3>0
    <3> QED BY <1>4, <1>5, <3>0, <3>1 DEF Spells
  <2> QED BY <2>1, <2>2
<1>12. Restarting(c, n + 1)
  <2>1. /\ b.restarts \in Seq(Nat) /\ Len(b.restarts) \in Nat /\ Len(b.restarts) >= 1 /\ b.restarts[1] = 0
        /\ \A j, k \in 1 .. Len(b.restarts) : j < k => b.restarts[j] < b.restarts[k]
    BY <1>5 DEF Restarting
  <2>2. \A j \in 1 .. Len(b.restarts) : \E i \in 1 .. n + 1 :
            b.restarts[j] = c.entries[i].off /\ c.entries[i].shared = 0
    <3>1. CASE n = 0
      <4>1. Len(b.restarts) = 1 /\ b.size = 0
        BY <1>5, <3>1 DEF Placed, Restarting
      <4>2. shared = 0
        <5>1. list = <<>>
          BY <1>4, <1>5, <3>1, EmptySeq
        <5> QED BY <1>2, <5>1
      <4>3. n + 1 \in 1 .. n + 1 /\ c.entries[n + 1].off = 0 /\ c.entries[n + 1].shared = 0
        BY <1>7, <1>8, <4>1, <4>2
      <4> QED BY <2>1, <4>1, <4>3
    <3>2. CASE n # 0
      <4> TAKE j \in 1 .. Len(b.restarts)
      <4>1. PICK i \in 1 .. n : b.restarts[j] = b.entries[i].off /\ b.entries[i].shared = 0
        BY <1>5, <3>2 DEF Restarting
      <4>2. i \in 1 .. n + 1 /\ c.entries[i] = b.entries[i]
        BY <1>7
      <4> QED BY <4>1, <4>2
    <3> QED BY <3>1, <3>2
  <2>3. CASE ~restart
    <3>1. c.restarts = b.restarts
      BY <1>2, <2>3
    <3>2. n + 1 # 0
      OBVIOUS
    <3> QED BY <2>1, <2>2, <3>1, <3>2 DEF Restarting
  <2>4. CASE restart
    <3>1. n # 0 /\ shared = 0
      BY <1>2, <1>4, <1>5, <2>4
    <3>2. PICK m \in Nat : m = Len(b.restarts)
      BY <2>1
    <3>3. /\ c.restarts \in Seq(Nat) /\ Len(c.restarts) = m + 1 /\ c.restarts[m + 1] = b.size
          /\ \A j \in 1 .. m : c.restarts[j] = b.restarts[j]
      BY <1>2, <1>9, <2>1, <2>4, <3>2
    <3>4. \A j \in 1 .. m : b.restarts[j] < b.size
      <4> TAKE j \in 1 .. m
      <4>1. PICK i \in 1 .. n : b.restarts[j] = b.entries[i].off
        BY <1>5, <3>1, <3>2 DEF Restarting
      <4>2. b.entries[i].off < b.entries[i].end /\ b.entries[i].end <= b.size
        BY <1>5 DEF Placed
      <4>3. b.entries[i].off \in Nat /\ b.entries[i].end \in Nat
        BY <1>9 DEF Stored
      <4> QED BY <1>9, <4>1, <4>2, <4>3
    <3>5. \A j, k \in 1 .. m + 1 : j < k => c.restarts[j] < c.restarts[k]
      <4> TAKE j \in 1 .. m + 1, k \in 1 .. m + 1
      <4>1. CASE k = m + 1
        BY <3>3, <3>4, <4>1
      <4>2. CASE k # m + 1
        <5>1. j < k => j \in 1 .. m /\ k \in 1 .. m
          BY <4>2
        <5> QED BY <2>1, <3>2, <3>3, <5>1
      <4> QED BY <4>1, <4>2
    <3>6. ASSUME NEW j \in 1 .. m + 1
          PROVE  \E i \in 1 .. n + 1 : c.restarts[j] = c.entries[i].off /\ c.entries[i].shared = 0
      <4>1. CASE j = m + 1
        <5>1. n + 1 \in 1 .. n + 1
          OBVIOUS
        <5> QED BY <1>7, <1>8, <3>1, <3>3, <4>1, <5>1
      <4>2. CASE j # m + 1
        <5>1. j \in 1 .. m
          BY <4>2
        <5> QED BY <2>2, <3>2, <3>3, <5>1
      <4> QED BY <4>1, <4>2
    <3>7. c.restarts[1] = 0 /\ m + 1 >= 1 /\ n + 1 # 0
      BY <2>1, <3>2, <3>3
    <3> QED BY <3>2, <3>3, <3>5, <3>6, <3>7 DEF Restarting
  <2> QED BY <2>3, <2>4
<1>13. new # <<>>
  BY <1>6
<1>14. Holds(c, new)
  BY <1>6, <1>10, <1>11, <1>12 DEF Holds
<1>15. c.last_key = new[Len(new)][1]
  BY <1>2, <1>6
<1>16. c \in BlockRecord
  <2>1. c = [entries |-> c.entries, size |-> c.size, restarts |-> c.restarts,
             entrynum |-> c.entrynum, last_key |-> c.last_key]
    BY <1>1 DEF BlockAdd
  <2>2. c.entries \in Seq(Stored) /\ c.size \in Nat /\ c.restarts \in Seq(Nat) /\ c.last_key \in Chars
    BY <1>2, <1>7, <1>12 DEF Restarting
  <2> QED BY <1>2, <2>1, <2>2 DEF BlockRecord
<1>17. Building(c, new)
  BY <1>2, <1>13, <1>14, <1>15, <1>16 DEF Building
<1> QED BY <1>1, <1>17
-----------------------------------------------------------------------------
(***************************************************************************)
(* Block::Iter.  It stands at the i-th entry, or at none; it is ready for  *)
(* the i-th entry when ParseNextKey goes there.                            *)
(***************************************************************************)
Iters == [current : Nat, restart_index : Nat, key : Chars, value : Nat, next : Nat, ok : BOOLEAN]

AtEntry(b, list, it, i) ==
  /\ it \in Iters /\ it.ok
  /\ it.current = b.entries[i].off /\ it.next = b.entries[i].end
  /\ it.key = list[i][1] /\ it.value = list[i][2]
  /\ it.restart_index < NumRestarts(b) /\ GetRestartPoint(b, it.restart_index) <= it.current
  /\ \A j \in 0 .. NumRestarts(b) - 1 : GetRestartPoint(b, j) < it.current => j <= it.restart_index

AtNone(b, it) == it \in Iters /\ it.current = b.size

ReadyFor(b, list, it, i) ==
  /\ it \in Iters /\ it.restart_index < NumRestarts(b)
  /\ i <= Len(list) =>
       /\ it.next = b.entries[i].off
       /\ b.entries[i].shared # 0 => i > 1 /\ it.key = list[i - 1][1]
       /\ GetRestartPoint(b, it.restart_index) <= it.next
  /\ i > Len(list) => it.next >= b.size

\* What Holds says of an entry.
LEMMA EntryFacts ==
  ASSUME NEW b, NEW list, Holds(b, list), NEW i \in 1 .. Len(list)
  PROVE  /\ Len(list) \in Nat /\ b.size \in Nat /\ b.entries[i] \in Stored /\ list[i] \in Chars \X Nat
         /\ b.entries[i].off \in Nat /\ b.entries[i].end \in Nat /\ b.entries[i].shared \in Nat
         /\ b.entries[i].suffix \in Chars /\ list[i][1] \in Chars /\ list[i][2] \in Nat
         /\ b.entries[i].off < b.entries[i].end /\ b.entries[i].end <= b.size
         /\ i = 1 => b.entries[i].off = 0
         /\ i = Len(list) => b.entries[i].end = b.size
         /\ i < Len(list) => b.entries[i + 1].off = b.entries[i].end
         /\ \A j \in 1 .. Len(list) : i < j => b.entries[i].end <= b.entries[j].off
<1>1. /\ list \in Seq(Chars \X Nat) /\ b.entries \in Seq(Stored) /\ Len(b.entries) = Len(list) /\ b.size \in Nat
  BY DEF Holds, Placed
<1>2. b.entries[i] \in Stored /\ list[i] \in Chars \X Nat /\ Len(list) \in Nat
  BY <1>1
<1>3. /\ b.entries[i].off < b.entries[i].end /\ b.entries[i].end <= b.size
      /\ i = 1 => b.entries[i].off = 0
      /\ i = Len(list) => b.entries[i].end = b.size
      /\ i < Len(list) => b.entries[i + 1].off = b.entries[i].end
      /\ \A j \in 1 .. Len(list) : i < j => b.entries[i].end <= b.entries[j].off
  BY DEF Holds, Placed
<1> QED BY <1>1, <1>2, <1>3 DEF Stored

\* An entry is found at its offset.
LEMMA EntryFound ==
  ASSUME NEW b, NEW list, Holds(b, list), NEW i \in 1 .. Len(list)
  PROVE  EntryAt(b, b.entries[i].off) = b.entries[i]
<1>1. Len(b.entries) = Len(list)
  BY DEF Holds, Placed
<1>2. \A j \in 1 .. Len(list) : b.entries[j].off = b.entries[i].off => j = i
  <2> SUFFICES ASSUME NEW j \in 1 .. Len(list), b.entries[j].off = b.entries[i].off, j # i PROVE FALSE
    OBVIOUS
  <2>1. /\ Len(list) \in Nat /\ b.entries[i].off \in Nat /\ b.entries[i].end \in Nat
        /\ b.entries[i].off < b.entries[i].end /\ (i < j => b.entries[i].end <= b.entries[j].off)
    BY EntryFacts
  <2>2. /\ b.entries[j].end \in Nat
        /\ b.entries[j].off < b.entries[j].end /\ (j < i => b.entries[j].end <= b.entries[i].off)
    BY EntryFacts
  <2> QED BY <2>1, <2>2
<1>3. (CHOOSE j \in 1 .. Len(list) : b.entries[j].off = b.entries[i].off) = i
  BY <1>2
<1> QED BY <1>1, <1>3 DEF EntryAt

\* Restart points ascend from 0, and each is the place of an entry with its whole key.
LEMMA RestartFacts ==
  ASSUME NEW b, NEW list, Holds(b, list)
  PROVE  /\ NumRestarts(b) \in Nat \ {0}
         /\ \A j \in 0 .. NumRestarts(b) - 1 : GetRestartPoint(b, j) \in Nat
         /\ GetRestartPoint(b, 0) = 0
         /\ \A j, k \in 0 .. NumRestarts(b) - 1 : j < k => GetRestartPoint(b, j) < GetRestartPoint(b, k)
         /\ list # <<>> => \A j \in 0 .. NumRestarts(b) - 1 : \E i \in 1 .. Len(list) :
               GetRestartPoint(b, j) = b.entries[i].off /\ b.entries[i].shared = 0
<1>1. Restarting(b, Len(list)) /\ list \in Seq(Chars \X Nat)
  BY DEF Holds
<1>2. /\ b.restarts \in Seq(Nat) /\ Len(b.restarts) >= 1 /\ b.restarts[1] = 0 /\ Len(b.restarts) \in Nat
      /\ \A j, k \in 1 .. Len(b.restarts) : j < k => b.restarts[j] < b.restarts[k]
      /\ Len(list) # 0 => \A j \in 1 .. Len(b.restarts) : \E i \in 1 .. Len(list) :
                b.restarts[j] = b.entries[i].off /\ b.entries[i].shared = 0
  <2>1. /\ b.restarts \in Seq(Nat) /\ Len(b.restarts) >= 1 /\ b.restarts[1] = 0
        /\ \A j, k \in 1 .. Len(b.restarts) : j < k => b.restarts[j] < b.restarts[k]
        /\ Len(list) # 0 => \A j \in 1 .. Len(b.restarts) : \E i \in 1 .. Len(list) :
                  b.restarts[j] = b.entries[i].off /\ b.entries[i].shared = 0
    BY <1>1, Zenon DEF Restarting
  <2>2. Len(b.restarts) \in Nat
    BY <2>1
  <2> QED BY <2>1, <2>2, Zenon
<1>3. \A j \in 0 .. Len(b.restarts) - 1 : j + 1 \in 1 .. Len(b.restarts)
  BY <1>2
<1>4. list # <<>> => Len(list) # 0
  BY <1>1
<1>5. \A j \in 0 .. Len(b.restarts) - 1 : b.restarts[j + 1] \in Nat
  BY <1>2, <1>3
<1>6. \A j, k \in 0 .. Len(b.restarts) - 1 : j < k => b.restarts[j + 1] < b.restarts[k + 1]
  <2> TAKE j \in 0 .. Len(b.restarts) - 1, k \in 0 .. Len(b.restarts) - 1
  <2>1. j < k => j + 1 < k + 1
    OBVIOUS
  <2> QED BY <1>2, <1>3, <2>1
<1>7. list # <<>> => \A j \in 0 .. Len(b.restarts) - 1 : \E i \in 1 .. Len(list) :
               b.restarts[j + 1] = b.entries[i].off /\ b.entries[i].shared = 0
  BY <1>2, <1>3, <1>4
<1> QED BY <1>2, <1>5, <1>6, <1>7 DEF NumRestarts, GetRestartPoint

\* ParseNextKey goes to the entry that the iterator is ready for.
LEMMA ParseAt ==
  ASSUME NEW b, NEW list, Holds(b, list), NEW it, NEW i \in 1 .. Len(list), ReadyFor(b, list, it, i)
  PROVE  AtEntry(b, list, ParseNextKey(b, it), i)
<1>0. PICK r \in Nat : r = NumRestarts(b)
  BY RestartFacts
<1>1. /\ it \in Iters /\ it.next = b.entries[i].off /\ it.restart_index \in 0 .. r - 1
      /\ b.entries[i].shared # 0 => i > 1 /\ it.key = list[i - 1][1]
      /\ GetRestartPoint(b, it.restart_index) <= it.next
      /\ it.key \in Chars /\ Len(list) \in Nat
  <2>1. it \in Iters /\ it.restart_index < NumRestarts(b) /\ Len(list) \in Nat
    BY EntryFacts DEF ReadyFor
  <2>2. it.restart_index \in Nat /\ it.key \in Chars
    BY <2>1 DEF Iters
  <2>3. it.restart_index \in 0 .. r - 1
    BY <1>0, <2>1, <2>2
  <2>4. i <= Len(list)
    BY <2>1
  <2> QED BY <2>1, <2>2, <2>3, <2>4 DEF ReadyFor
<1>2. PICK e \in Stored : e = b.entries[i]
  BY EntryFacts
<1>3. EntryAt(b, it.next) = e /\ e.off = it.next
  BY <1>1, <1>2, EntryFound
<1>4. /\ e.off \in Nat /\ e.end \in Nat /\ e.shared \in Nat /\ e.suffix \in Chars /\ e.val \in Nat
      /\ e.off < e.end /\ e.end <= b.size /\ b.size \in Nat
  BY <1>2, EntryFacts DEF Stored
<1>5. ~(it.next >= b.size)
  BY <1>3, <1>4
<1>6. /\ ~(Len(it.key) < e.shared)
      /\ SubSeq(it.key, 1, e.shared) \o e.suffix = list[i][1]
  <2>1. /\ e.shared = 0 => list[i][1] = e.suffix
        /\ e.shared # 0 => /\ i > 1 /\ e.shared <= Len(list[i - 1][1])
                           /\ list[i][1] = SubSeq(list[i - 1][1], 1, e.shared) \o e.suffix
    BY <1>2 DEF Holds, Spells
  <2>2. CASE e.shared = 0
    <3>1. SubSeq(it.key, 1, 0) = <<>> /\ Len(it.key) \in Nat
      BY <1>1 DEF Chars
    <3>2. <<>> \o e.suffix = e.suffix
      BY <1>4, ConcatEmptySeq DEF Chars
    <3>3. SubSeq(it.key, 1, e.shared) \o e.suffix = list[i][1]
      BY <2>1, <2>2, <3>1, <3>2, Zenon
    <3>4. ~(Len(it.key) < e.shared)
      BY <2>2, <3>1
    <3> QED BY <3>3, <3>4
  <2>3. CASE e.shared # 0
    <3>1. Len(it.key) \in Nat
      BY <1>1 DEF Chars
    <3>2. it.key = list[i - 1][1]
      BY <1>1, <1>2, <2>3
    <3>3. SubSeq(it.key, 1, e.shared) \o e.suffix = list[i][1]
      BY <2>1, <2>3, <3>2, Zenon
    <3>4. ~(Len(it.key) < e.shared)
      BY <1>4, <2>1, <2>3, <3>1, <3>2
    <3> QED BY <3>3, <3>4
  <2> QED BY <2>2, <2>3
<1> DEFINE passed == {j \in it.restart_index + 1 .. NumRestarts(b) - 1 : GetRestartPoint(b, j) < e.off}
           T == passed \union {it.restart_index}
           p == [current |-> e.off, restart_index |-> Max(T),
                 key |-> SubSeq(it.key, 1, e.shared) \o e.suffix,
                 value |-> e.val, next |-> e.end, ok |-> TRUE]
<1>7. ParseNextKey(b, it) = p
  BY <1>3, <1>5, <1>6 DEF ParseNextKey
<1>8. /\ Max(T) \in T /\ \A y \in T : y <= Max(T)
      /\ T \subseteq 0 .. r - 1
  <2>1. T \subseteq 0 .. r - 1 /\ T # {}
    BY <1>0, <1>1
  <2>2. T \subseteq Nat /\ \A y \in T : y <= r
    BY <1>0, <2>1
  <2> HIDE DEF T
  <2> QED BY <1>0, <2>1, <2>2, MaxOf
<1>9. PICK m \in T : m = Max(T)
  BY <1>8
<1>10. m \in Nat /\ m < r /\ \A y \in T : y <= m
  <2> HIDE DEF T
  <2>1. m \in 0 .. r - 1 /\ \A y \in T : y <= m
    BY <1>8, <1>9
  <2> QED BY <1>0, <2>1
<1>11. GetRestartPoint(b, m) <= e.off
  <2>1. CASE m = it.restart_index
    BY <1>1, <1>3, <2>1
  <2>2. CASE m # it.restart_index
    <3>1. m \in 0 .. r - 1 /\ GetRestartPoint(b, m) < e.off
      BY <1>8, <2>2
    <3>2. GetRestartPoint(b, m) \in Nat
      BY <1>0, <3>1, RestartFacts
    <3> QED BY <1>4, <3>1, <3>2
  <2> QED BY <2>1, <2>2
<1>12. \A j \in 0 .. r - 1 : GetRestartPoint(b, j) < e.off => j <= m
  <2> SUFFICES ASSUME NEW j \in 0 .. r - 1, GetRestartPoint(b, j) < e.off PROVE j <= m
    OBVIOUS
  <2>1. CASE j <= it.restart_index
    <3>1. it.restart_index <= m
      BY <1>10
    <3> HIDE DEF T
    <3> QED BY <1>1, <1>10, <2>1, <3>1
  <2>2. CASE j > it.restart_index
    <3>1. j \in T
      BY <1>0, <1>1, <2>2
    <3> QED BY <1>10, <3>1
  <2> QED BY <1>1, <2>1, <2>2
<1>13. PICK q : q = ParseNextKey(b, it)
  OBVIOUS
<1>14. q = [current |-> e.off, restart_index |-> m, key |-> list[i][1], value |-> e.val,
            next |-> e.end, ok |-> TRUE]
  BY <1>6, <1>7, <1>9, <1>13
<1>15. q \in Iters
  <2>1. list[i][1] \in Chars
    BY EntryFacts
  <2> QED BY <1>4, <1>10, <1>14, <2>1 DEF Iters
<1>16. list[i][2] = e.val
  BY <1>2 DEF Holds, Spells
<1>17. /\ q.ok /\ q.current = b.entries[i].off /\ q.next = b.entries[i].end
       /\ q.key = list[i][1] /\ q.value = list[i][2] /\ q.restart_index = m /\ q.current = e.off
  BY <1>2, <1>14, <1>16
<1>18. AtEntry(b, list, q, i)
  BY <1>0, <1>10, <1>11, <1>12, <1>15, <1>17 DEF AtEntry
<1> QED BY <1>13, <1>18

\* ... or to the end.
LEMMA ParseEnd ==
  ASSUME NEW b, NEW list, Holds(b, list), NEW it, NEW i \in Nat, i > Len(list), ReadyFor(b, list, it, i)
  PROVE  AtNone(b, ParseNextKey(b, it)) /\ ~ParseNextKey(b, it).ok
<1>1. it \in Iters /\ it.next >= b.size /\ b.size \in Nat /\ NumRestarts(b) \in Nat
  BY RestartFacts DEF ReadyFor, Holds, Placed
<1>2. ParseNextKey(b, it) = [it EXCEPT !.current = b.size, !.restart_index = NumRestarts(b), !.ok = FALSE]
  BY <1>1 DEF ParseNextKey
<1>3. [it EXCEPT !.current = b.size, !.restart_index = NumRestarts(b), !.ok = FALSE] \in Iters
  BY <1>1 DEF Iters
<1> QED BY <1>1, <1>2, <1>3 DEF AtNone, Iters

\* At an entry, the iterator is ready for the next one,
LEMMA AtReady ==
  ASSUME NEW b, NEW list, Holds(b, list), NEW it, NEW i \in 1 .. Len(list), AtEntry(b, list, it, i)
  PROVE  ReadyFor(b, list, it, i + 1)
<1>1. /\ it \in Iters /\ it.current = b.entries[i].off /\ it.next = b.entries[i].end
      /\ it.key = list[i][1] /\ it.restart_index < NumRestarts(b)
      /\ GetRestartPoint(b, it.restart_index) <= it.current
  BY DEF AtEntry
<1>2. /\ Len(list) \in Nat /\ b.entries[i].off \in Nat /\ b.entries[i].end \in Nat
      /\ b.entries[i].off < b.entries[i].end
      /\ i = Len(list) => b.entries[i].end = b.size
      /\ i < Len(list) => b.entries[i + 1].off = b.entries[i].end
      /\ b.size \in Nat
  BY EntryFacts
<1>3. it.restart_index \in 0 .. NumRestarts(b) - 1 /\ GetRestartPoint(b, it.restart_index) \in Nat
  <2>1. it.restart_index \in Nat
    BY <1>1 DEF Iters
  <2>2. NumRestarts(b) \in Nat
    BY RestartFacts
  <2>3. it.restart_index \in 0 .. NumRestarts(b) - 1
    BY <1>1, <2>1, <2>2
  <2> QED BY <2>3, RestartFacts
<1>4. i + 1 <= Len(list) => i < Len(list) /\ i + 1 > 1 /\ (i + 1) - 1 = i
  BY <1>2
<1>5. i + 1 > Len(list) => i = Len(list)
  BY <1>2
<1>6. GetRestartPoint(b, it.restart_index) <= it.next
  BY <1>1, <1>2, <1>3
<1>7. i + 1 > Len(list) => it.next >= b.size
  BY <1>1, <1>2, <1>5
<1> QED BY <1>1, <1>2, <1>4, <1>6, <1>7 DEF ReadyFor

\* ... and from a restart point for the entry that lies there.
LEMMA RestartReady ==
  ASSUME NEW b, NEW list, Holds(b, list), NEW it \in Iters, NEW j \in 0 .. NumRestarts(b) - 1,
         NEW i \in 1 .. Len(list), GetRestartPoint(b, j) = b.entries[i].off, b.entries[i].shared = 0
  PROVE  ReadyFor(b, list, SeekToRestartPoint(b, it, j), i)
<1>1. PICK p : p = SeekToRestartPoint(b, it, j)
  OBVIOUS
<1>2. p = [it EXCEPT !.key = <<>>, !.restart_index = j, !.next = GetRestartPoint(b, j)]
  BY <1>1 DEF SeekToRestartPoint
<1>3. /\ NumRestarts(b) \in Nat /\ GetRestartPoint(b, j) \in Nat /\ Len(list) \in Nat /\ j \in Nat
      /\ j < NumRestarts(b)
  BY RestartFacts, EntryFacts
<1>4. <<>> \in Chars
  BY DEF Chars
<1>5. p \in Iters /\ p.restart_index = j /\ p.next = GetRestartPoint(b, j)
  BY <1>2, <1>3, <1>4 DEF Iters
<1>6. p.next <= p.next /\ ~(i > Len(list))
  BY <1>3, <1>5
<1> QED BY <1>1, <1>3, <1>5, <1>6 DEF ReadyFor
-----------------------------------------------------------------------------
(* The loops of Block::Iter. *)

Runs(b, n, it, Going, f) ==
  /\ f[0] = ParseNextKey(b, it)
  /\ \A i \in 1 .. n :
       f[i] = IF f[i - 1].ok /\ f[i - 1] \in Going THEN ParseNextKey(b, f[i - 1]) ELSE f[i - 1]

\* Parsing goes on from the r-th entry on while the iterator is in Going, and so it
\* ends at the t-th, the first one at which it is not; or at none.
LEMMA LoopStops ==
  ASSUME NEW b, NEW list, Holds(b, list), NEW it, NEW r \in 1 .. Len(list), ReadyFor(b, list, it, r),
         NEW Going, NEW t \in r .. Len(list) + 1,
         \A i \in r .. Len(list) : \A p : AtEntry(b, list, p, i) /\ i <= t => (p \in Going <=> i < t)
  PROVE  \E f \in [0 .. Len(list) -> Iters] :
           /\ Runs(b, Len(list), it, Going, f)
           /\ t <= Len(list) => AtEntry(b, list, f[Len(list)], t)
           /\ t > Len(list) => AtNone(b, f[Len(list)])
<1> DEFINE S == {p \in Iters : p.ok => \E i \in 1 .. Len(list) : AtEntry(b, list, p, i)}
           Step(p) == IF p.ok /\ p \in Going THEN ParseNextKey(b, p) ELSE p
           a == ParseNextKey(b, it)
           g == [x \in Nat \X S |-> Step(x[2])]
<1>0. PICK n \in Nat : n = Len(list)
  BY EntryFacts
<1>1. a \in S /\ AtEntry(b, list, a, r)
  <2>1. AtEntry(b, list, a, r)
    BY ParseAt
  <2> HIDE DEF a
  <2> QED BY <2>1 DEF AtEntry
<1>2. ASSUME NEW p, NEW i \in 1 .. n, AtEntry(b, list, p, i)
      PROVE  /\ i < n => AtEntry(b, list, ParseNextKey(b, p), i + 1)
             /\ i = n => AtNone(b, ParseNextKey(b, p)) /\ ~ParseNextKey(b, p).ok
  <2>1. ReadyFor(b, list, p, i + 1)
    BY <1>0, <1>2, AtReady
  <2>2. i < n => i + 1 \in 1 .. Len(list)
    BY <1>0
  <2>3. i = n => i + 1 \in Nat /\ i + 1 > Len(list)
    BY <1>0
  <2> QED BY <2>1, <2>2, <2>3, ParseAt, ParseEnd
<1>3. \A p \in S : Step(p) \in S
  <2> SUFFICES ASSUME NEW p \in S, p.ok PROVE ParseNextKey(b, p) \in S
    OBVIOUS
  <2>1. PICK i \in 1 .. n : AtEntry(b, list, p, i)
    BY <1>0
  <2>2. CASE i < n
    <3>1. i + 1 \in 1 .. n /\ AtEntry(b, list, ParseNextKey(b, p), i + 1)
      BY <1>2, <2>1, <2>2
    <3> QED BY <1>0, <3>1 DEF AtEntry
  <2>3. CASE i = n
    BY <1>2, <2>1, <2>3 DEF AtNone
  <2> QED BY <2>2, <2>3
<1> HIDE DEF S, Step, a
<1>4. g \in [Nat \X S -> S] /\ \A i \in Nat : \A p \in S : g[<<i, p>>] = Step(p)
  BY <1>3
<1> HIDE DEF g
<1>5. PICK f \in [0 .. n -> S] : CountsTo(f, n, a, g)
  BY <1>1, <1>4, RecursionUp
<1>6. f[0] = a /\ \A i \in 1 .. n : f[i] = Step(f[i - 1])
  <2>1. f = [i \in 0 .. n |-> IF i = 0 THEN a ELSE g[<<i, f[i - 1]>>]]
    BY <1>5 DEF CountsTo
  <2>2. \A i \in 0 .. n : f[i] = IF i = 0 THEN a ELSE g[<<i, f[i - 1]>>]
    BY <2>1, Zenon
  <2>3. f[0] = a
    <3>1. 0 \in 0 .. n
      OBVIOUS
    <3> QED BY <2>2, <3>1
  <2>4. ASSUME NEW i \in 1 .. n PROVE f[i] = Step(f[i - 1])
    <3>1. i \in 0 .. n /\ i # 0 /\ i - 1 \in 0 .. n /\ i \in Nat
      OBVIOUS
    <3>2. f[i] = g[<<i, f[i - 1]>>] /\ f[i - 1] \in S
      BY <1>5, <2>2, <3>1
    <3> QED BY <1>4, <3>1, <3>2
  <2> QED BY <2>3, <2>4
<1> DEFINE Q == {i \in 0 .. n : /\ r + i < t => AtEntry(b, list, f[i], r + i)
                                /\ r + i >= t /\ t <= n => AtEntry(b, list, f[i], t)
                                /\ r + i >= t /\ t > n => AtNone(b, f[i]) /\ ~f[i].ok}
<1>7. r \in Nat /\ t \in Nat /\ r <= t /\ r >= 1 /\ r <= n /\ t <= n + 1
  BY <1>0
<1>8. 0 \in Q
  <2>1. r + 0 >= t => t = r /\ t <= n
    BY <1>7
  <2>2. r + 0 = r /\ 0 \in 0 .. n
    BY <1>7
  <2> QED BY <1>1, <1>6, <2>1, <2>2
<1>9. ASSUME NEW i \in 1 .. n, i - 1 \in Q PROVE i \in Q
  <2>0. i \in 0 .. n /\ i - 1 \in 0 .. n /\ r + i = (r + (i - 1)) + 1
    BY <1>7
  <2>1. CASE r + (i - 1) < t
    <3>1. PICK k \in Nat : k = r + (i - 1)
      BY <1>7
    <3>2. AtEntry(b, list, f[i - 1], k) /\ k \in r .. n /\ k \in 1 .. n /\ k < t
      BY <1>7, <1>9, <2>1, <3>1
    <3>3. f[i - 1].ok /\ f[i - 1] \in Going
      BY <1>0, <3>2 DEF AtEntry
    <3>4. f[i] = ParseNextKey(b, f[i - 1])
      BY <1>6, <3>3 DEF Step
    <3>5. CASE k < n
      <4>1. AtEntry(b, list, f[i], k + 1)
        BY <1>2, <3>2, <3>4, <3>5
      <4>2. k + 1 = r + i /\ (r + i >= t => t = r + i) /\ (r + i >= t => t <= n)
        BY <1>7, <3>1, <3>2, <3>5
      <4> QED BY <2>0, <4>1, <4>2
    <3>6. CASE k = n
      <4>1. AtNone(b, f[i]) /\ ~f[i].ok
        BY <1>2, <3>2, <3>4, <3>6
      <4>2. t = n + 1 /\ r + i = n + 1
        BY <1>7, <3>1, <3>2, <3>6
      <4>3. t > n /\ ~(t <= n) /\ ~(r + i < t)
        BY <1>7, <4>2
      <4> QED BY <2>0, <4>1, <4>3
    <3> QED BY <3>2, <3>5, <3>6
  <2>2. CASE ~(r + (i - 1) < t)
    <3>1. r + (i - 1) >= t /\ ~(r + i < t)
      BY <1>7, <2>2
    <3>2. CASE t <= n
      <4>1. AtEntry(b, list, f[i - 1], t) /\ t \in r .. n
        BY <1>7, <1>9, <3>1, <3>2
      <4>2. ~(f[i - 1] \in Going)
        BY <1>0, <1>7, <4>1
      <4>3. f[i] = f[i - 1]
        BY <1>6, <4>2 DEF Step
      <4> QED BY <1>7, <2>0, <3>1, <3>2, <4>1, <4>3
    <3>3. CASE t > n
      <4>1. AtNone(b, f[i - 1]) /\ ~f[i - 1].ok
        BY <1>9, <3>1, <3>3
      <4>2. f[i] = f[i - 1]
        BY <1>6, <4>1 DEF Step
      <4>3. ~(t <= n)
        BY <1>7, <3>3
      <4> QED BY <2>0, <3>1, <4>1, <4>2, <4>3
    <3> QED BY <1>7, <3>2, <3>3
  <2> QED BY <2>1, <2>2
<1>10. n \in Q
  <2> HIDE DEF Q
  <2>1. \A i \in 0 .. n : i \in Q
    BY <1>8, <1>9, CountUp
  <2> QED BY <2>1
<1>11. r + n >= t
  BY <1>7
<1>12. f \in [0 .. n -> Iters]
  BY <1>5 DEF S
<1>13. Runs(b, n, it, Going, f)
  BY <1>6 DEF Step, Runs, a
<1>14. (t <= n => AtEntry(b, list, f[n], t)) /\ (t > n => AtNone(b, f[n]))
  BY <1>10, <1>11
<1> HIDE DEF Q
<1> QED BY <1>0, <1>12, <1>13, <1>14

\* Parsing up to an offset ends at the entry that reaches it.
LEMMA ParseToStops ==
  ASSUME NEW b, NEW list, Holds(b, list), NEW it, NEW r \in 1 .. Len(list), ReadyFor(b, list, it, r),
         NEW limit, NEW t \in r .. Len(list),
         \A i \in r .. t : b.entries[i].end < limit <=> i < t
  PROVE  AtEntry(b, list, ParseTo(b, it, limit), t)
<1> DEFINE Going == {p \in Iters : p.next < limit}
           n == Len(list)
           Step(p) == IF p.ok /\ p.next < limit THEN ParseNextKey(b, p) ELSE p
           step == CHOOSE f : f = [i \in 0 .. n |-> IF i = 0 THEN ParseNextKey(b, it) ELSE Step(f[i - 1])]
<1>1. n \in Nat /\ Len(b.entries) = n /\ t \in r .. Len(list) + 1
  BY EntryFacts DEF Holds, Placed
<1>2. ParseTo(b, it, limit) = step[n]
  BY <1>1 DEF ParseTo
<1>3. \A i \in r .. Len(list) : \A p : AtEntry(b, list, p, i) /\ i <= t => (p \in Going <=> i < t)
  <2> SUFFICES ASSUME NEW i \in r .. Len(list), NEW p, AtEntry(b, list, p, i), i <= t
               PROVE  p \in Going <=> i < t
    OBVIOUS
  <2>1. i \in r .. t
    BY <1>1
  <2>2. p \in Iters /\ p.next = b.entries[i].end
    BY DEF AtEntry
  <2> QED BY <2>1, <2>2
<1> HIDE DEF Going
<1>4. PICK f \in [0 .. n -> Iters] : Runs(b, n, it, Going, f) /\ (t <= n => AtEntry(b, list, f[n], t))
  BY <1>1, <1>3, LoopStops
<1> HIDE DEF n
<1>5. \A i \in 1 .. n : f[i] = Step(f[i - 1])
  <2> TAKE i \in 1 .. n
  <2>1. i - 1 \in 0 .. n
    BY <1>1
  <2>2. f[i - 1] \in Iters
    BY <2>1
  <2>3. f[i - 1] \in Going <=> f[i - 1].next < limit
    BY <2>2 DEF Going
  <2> QED BY <1>4, <2>3 DEF Runs
<1> HIDE DEF Step
<1>6. f = [i \in 0 .. n |-> IF i = 0 THEN ParseNextKey(b, it) ELSE Step(f[i - 1])]
  <2>1. f = [i \in 0 .. n |-> f[i]]
    BY <1>4
  <2>2. \A i \in 0 .. n : f[i] = IF i = 0 THEN ParseNextKey(b, it) ELSE Step(f[i - 1])
    <3> TAKE i \in 0 .. n
    <3>1. i = 0 \/ i \in 1 .. n
      BY <1>1
    <3> QED BY <1>4, <1>5, <3>1 DEF Runs
  <2> QED BY <2>1, <2>2
<1>7. step = [i \in 0 .. n |-> IF i = 0 THEN ParseNextKey(b, it) ELSE Step(step[i - 1])]
  BY <1>6, Zenon
<1> HIDE DEF step
<1>8. \A i \in 0 .. n : step[i] = IF i = 0 THEN ParseNextKey(b, it) ELSE Step(step[i - 1])
  BY <1>7, Zenon
<1> DEFINE Q == {i \in 0 .. n : step[i] = f[i]}
<1>9. 0 \in Q
  BY <1>1, <1>4, <1>8 DEF Runs
<1>10. \A i \in 1 .. n : i - 1 \in Q => i \in Q
  BY <1>1, <1>5, <1>8
<1> HIDE DEF Q
<1>11. \A i \in 0 .. n : i \in Q
  BY <1>1, <1>9, <1>10, CountUp
<1>12. step[n] = f[n]
  BY <1>1, <1>11 DEF Q
<1>13. t <= n
  BY <1>1 DEF n
<1> QED BY <1>2, <1>4, <1>12, <1>13

\* Parsing up to a key ends at the first entry that is not before it.
LEMMA ParseToKeyStops ==
  ASSUME NEW b, NEW list, Holds(b, list), NEW it, NEW r \in 1 .. Len(list), ReadyFor(b, list, it, r),
         NEW target, NEW t \in r .. Len(list) + 1,
         \A i \in r .. Len(list) : i <= t => (KeyBefore(list[i][1], target) <=> i < t)
  PROVE  /\ t <= Len(list) => AtEntry(b, list, ParseToKey(b, it, target), t)
         /\ t > Len(list) => AtNone(b, ParseToKey(b, it, target))
<1> DEFINE Going == {p \in Iters : KeyBefore(p.key, target)}
           n == Len(list)
           Step(p) == IF p.ok /\ KeyBefore(p.key, target) THEN ParseNextKey(b, p) ELSE p
           step == CHOOSE f : f = [i \in 0 .. n |-> IF i = 0 THEN ParseNextKey(b, it) ELSE Step(f[i - 1])]
<1>1. n \in Nat /\ Len(b.entries) = n
  BY EntryFacts DEF Holds, Placed
<1>2. ParseToKey(b, it, target) = step[n]
  BY <1>1 DEF ParseToKey
<1>3. \A i \in r .. Len(list) : \A p : AtEntry(b, list, p, i) /\ i <= t => (p \in Going <=> i < t)
  <2> SUFFICES ASSUME NEW i \in r .. Len(list), NEW p, AtEntry(b, list, p, i), i <= t
               PROVE  p \in Going <=> i < t
    OBVIOUS
  <2>1. p \in Iters /\ p.key = list[i][1]
    BY DEF AtEntry
  <2> QED BY <2>1
<1> HIDE DEF Going
<1>4. PICK f \in [0 .. n -> Iters] : 
           /\ Runs(b, n, it, Going, f)
           /\ t <= n => AtEntry(b, list, f[n], t)
           /\ t > n => AtNone(b, f[n])
  BY <1>1, <1>3, LoopStops
<1> HIDE DEF n
<1>5. \A i \in 1 .. n : f[i] = Step(f[i - 1])
  <2> TAKE i \in 1 .. n
  <2>1. i - 1 \in 0 .. n
    BY <1>1
  <2>2. f[i - 1] \in Iters
    BY <2>1
  <2>3. f[i - 1] \in Going <=> KeyBefore(f[i - 1].key, target)
    BY <2>2 DEF Going
  <2> QED BY <1>4, <2>3 DEF Runs
<1> HIDE DEF Step
<1>6. f = [i \in 0 .. n |-> IF i = 0 THEN ParseNextKey(b, it) ELSE Step(f[i - 1])]
  <2>1. f = [i \in 0 .. n |-> f[i]]
    BY <1>4
  <2>2. \A i \in 0 .. n : f[i] = IF i = 0 THEN ParseNextKey(b, it) ELSE Step(f[i - 1])
    <3> TAKE i \in 0 .. n
    <3>1. i = 0 \/ i \in 1 .. n
      BY <1>1
    <3> QED BY <1>4, <1>5, <3>1 DEF Runs
  <2> QED BY <2>1, <2>2
<1>7. step = [i \in 0 .. n |-> IF i = 0 THEN ParseNextKey(b, it) ELSE Step(step[i - 1])]
  BY <1>6, Zenon
<1> HIDE DEF step
<1>8. \A i \in 0 .. n : step[i] = IF i = 0 THEN ParseNextKey(b, it) ELSE Step(step[i - 1])
  BY <1>7, Zenon
<1> DEFINE Q == {i \in 0 .. n : step[i] = f[i]}
<1>9. 0 \in Q
  BY <1>1, <1>4, <1>8 DEF Runs
<1>10. \A i \in 1 .. n : i - 1 \in Q => i \in Q
  BY <1>1, <1>5, <1>8
<1> HIDE DEF Q
<1>11. \A i \in 0 .. n : i \in Q
  BY <1>1, <1>9, <1>10, CountUp
<1>12. step[n] = f[n]
  BY <1>1, <1>11 DEF Q
<1> QED BY <1>2, <1>4, <1>12 DEF n

\* Where the operations of Block::Iter go.
LEMMA SeekToFirstAt ==
  ASSUME NEW b, NEW list, Holds(b, list), list # <<>>, NEW it \in Iters
  PROVE  AtEntry(b, list, IterSeekToFirst(b, it), 1)
<1>1. 1 \in 1 .. Len(list)
  BY DEF Holds
<1>2. 0 \in 0 .. NumRestarts(b) - 1 /\ GetRestartPoint(b, 0) = 0
  <2>1. NumRestarts(b) \in Nat \ {0} /\ GetRestartPoint(b, 0) = 0
    BY RestartFacts
  <2> QED BY <2>1
<1>3. PICK i \in 1 .. Len(list) : GetRestartPoint(b, 0) = b.entries[i].off /\ b.entries[i].shared = 0
  BY <1>2, RestartFacts
<1>4. i = 1
  <2> SUFFICES ASSUME i # 1 PROVE FALSE
    OBVIOUS
  <2>1. /\ Len(list) \in Nat /\ b.entries[1].off \in Nat /\ b.entries[1].end \in Nat
        /\ b.entries[1].off < b.entries[1].end /\ (1 < i => b.entries[1].end <= b.entries[i].off)
    BY <1>1, EntryFacts
  <2> QED BY <1>2, <1>3, <2>1
<1>5. ReadyFor(b, list, SeekToRestartPoint(b, it, 0), 1)
  BY <1>1, <1>2, <1>3, <1>4, RestartReady
<1> QED BY <1>1, <1>5, ParseAt DEF IterSeekToFirst

\* Block::Iter::SeekToLast.
LEMMA SeekToLastAt ==
  ASSUME NEW b, NEW list, Holds(b, list), list # <<>>, NEW it \in Iters
  PROVE  AtEntry(b, list, IterSeekToLast(b, it), Len(list))
<1>1. PICK n \in Nat : n = Len(list) /\ n # 0
  BY DEF Holds
<1>2. NumRestarts(b) - 1 \in 0 .. NumRestarts(b) - 1
  <2>1. NumRestarts(b) \in Nat \ {0}
    BY RestartFacts
  <2> QED BY <2>1
<1>3. PICK r \in 1 .. n : GetRestartPoint(b, NumRestarts(b) - 1) = b.entries[r].off /\ b.entries[r].shared = 0
  BY <1>1, <1>2, RestartFacts
<1>4. ReadyFor(b, list, SeekToRestartPoint(b, it, NumRestarts(b) - 1), r)
  BY <1>1, <1>2, <1>3, RestartReady
<1>5. \A i \in r .. n : b.entries[i].end < b.size <=> i < n
  <2> TAKE i \in r .. n
  <2>1. i \in 1 .. n /\ n \in 1 .. n
    BY <1>1
  <2>2. /\ b.entries[i].end \in Nat /\ b.size \in Nat /\ (i = n => b.entries[i].end = b.size)
        /\ (i < n => b.entries[i].end <= b.entries[n].off)
    BY <1>1, <2>1, EntryFacts
  <2>3. b.entries[n].off \in Nat /\ b.entries[n].end \in Nat
        /\ b.entries[n].off < b.entries[n].end /\ b.entries[n].end = b.size
    BY <1>1, <2>1, EntryFacts
  <2> QED BY <2>1, <2>2, <2>3
<1>6. n \in r .. n
  BY <1>1
<1> QED BY <1>1, <1>3, <1>4, <1>5, <1>6, ParseToStops DEF IterSeekToLast

\* Block::Iter::Next.
LEMMA NextAt ==
  ASSUME NEW b, NEW list, Holds(b, list), NEW it, NEW i \in 1 .. Len(list), AtEntry(b, list, it, i)
  PROVE  /\ i < Len(list) => AtEntry(b, list, IterNext(b, it), i + 1)
         /\ i = Len(list) => AtNone(b, IterNext(b, it))
<1>1. ReadyFor(b, list, it, i + 1) /\ Len(list) \in Nat
  BY AtReady, EntryFacts
<1>2. i < Len(list) => i + 1 \in 1 .. Len(list)
  BY <1>1
<1>3. i = Len(list) => i + 1 \in Nat /\ i + 1 > Len(list)
  BY <1>1
<1> QED BY <1>1, <1>2, <1>3, ParseAt, ParseEnd DEF IterNext

\* Block::Iter::Prev, whether or not the entry before is in another restart interval.
LEMMA PrevAt ==
  ASSUME NEW b, NEW list, Holds(b, list), NEW it, NEW i \in 1 .. Len(list), AtEntry(b, list, it, i)
  PROVE  /\ i > 1 => AtEntry(b, list, IterPrev(b, it), i - 1)
         /\ i = 1 => AtNone(b, IterPrev(b, it))
<1> DEFINE before == {j \in 0 .. it.restart_index : GetRestartPoint(b, j) < it.current}
<1>1. /\ it \in Iters /\ it.current = b.entries[i].off /\ it.restart_index < NumRestarts(b)
      /\ it.restart_index \in Nat
      /\ \A j \in 0 .. NumRestarts(b) - 1 : GetRestartPoint(b, j) < it.current => j <= it.restart_index
  BY DEF AtEntry, Iters
<1>2. PICK m \in Nat : m = NumRestarts(b) /\ m # 0
  BY RestartFacts
<1>3. /\ Len(list) \in Nat /\ b.entries[i].off \in Nat /\ b.size \in Nat /\ (i = 1 => b.entries[i].off = 0)
      /\ list # <<>>
  BY EntryFacts
<1>4. /\ GetRestartPoint(b, 0) = 0
      /\ \A j \in 0 .. m - 1 : GetRestartPoint(b, j) \in Nat
      /\ \A j, k \in 0 .. m - 1 : j < k => GetRestartPoint(b, j) < GetRestartPoint(b, k)
      /\ \A j \in 0 .. m - 1 : \E k \in 1 .. Len(list) :
               GetRestartPoint(b, j) = b.entries[k].off /\ b.entries[k].shared = 0
  BY <1>2, <1>3, RestartFacts
<1>5. before \subseteq 0 .. m - 1
  BY <1>1, <1>2
<1>6. CASE i = 1
  <2>1. before = {}
    BY <1>1, <1>3, <1>4, <1>5, <1>6
  <2>2. IterPrev(b, it) = [it EXCEPT !.current = b.size, !.restart_index = NumRestarts(b)]
    BY <2>1 DEF IterPrev
  <2>3. AtNone(b, IterPrev(b, it))
    BY <1>1, <1>2, <1>3, <2>2 DEF AtNone, Iters
  <2> QED BY <1>6, <2>3
<1>7. CASE i > 1
  <2>1. PICK h \in 1 .. Len(list) : h = i - 1
    BY <1>3, <1>7
  <2>2. h < i /\ h + 1 = i /\ h < Len(list) /\ h \in Nat
    BY <1>3, <1>7, <2>1
  <2>3. /\ b.entries[h].off \in Nat /\ b.entries[h].end \in Nat
        /\ b.entries[h].off < b.entries[h].end /\ b.entries[h].end = b.entries[i].off
    BY <2>2, EntryFacts
  <2>4. 0 \in before
    BY <1>1, <1>3, <1>4, <2>3
  <2>5. before \subseteq Nat /\ \A y \in before : y <= m
    <3> HIDE DEF before
    <3> QED BY <1>2, <1>5
  <2>6. Max(before) \in before /\ \A y \in before : y <= Max(before)
    <3> HIDE DEF before
    <3> QED BY <2>4, <2>5, MaxOf
  <2>7. PICK x \in before : x = Max(before)
    BY <2>6
  <2>8. x \in 0 .. m - 1 /\ GetRestartPoint(b, x) < it.current /\ \A y \in before : y <= x
    BY <1>5, <2>6, <2>7
  <2>9. PICK r \in 1 .. Len(list) : GetRestartPoint(b, x) = b.entries[r].off /\ b.entries[r].shared = 0
    BY <1>4, <2>8
  <2>10. r <= h
    <3> SUFFICES ASSUME r > h PROVE FALSE
      BY <2>2
    <3>1. r # i
      BY <1>1, <1>3, <2>8, <2>9
    <3>2. i < r
      BY <2>2, <3>1
    <3>3. /\ b.entries[i].end \in Nat /\ b.entries[i].off < b.entries[i].end
          /\ b.entries[i].end <= b.entries[r].off
      BY <3>2, EntryFacts
    <3>4. b.entries[r].off \in Nat /\ b.entries[r].off < b.entries[i].off
      BY <1>1, <2>8, <2>9, EntryFacts
    <3> QED BY <1>3, <3>3, <3>4
  <2>11. ReadyFor(b, list, SeekToRestartPoint(b, it, x), r)
    BY <1>1, <1>2, <2>8, <2>9, RestartReady
  <2>12. \A k \in r .. h : b.entries[k].end < it.current <=> k < h
    <3> TAKE k \in r .. h
    <3>1. k \in 1 .. Len(list)
      BY <1>3, <2>10
    <3>2. b.entries[k].end \in Nat /\ (k < h => b.entries[k].end <= b.entries[h].off)
      BY <3>1, EntryFacts
    <3> QED BY <1>1, <1>3, <2>2, <2>3, <3>1, <3>2
  <2>13. h \in r .. Len(list)
    BY <1>3, <2>10
  <2>14. AtEntry(b, list, ParseTo(b, SeekToRestartPoint(b, it, x), it.current), h)
    BY <2>11, <2>12, <2>13, ParseToStops
  <2>15. IterPrev(b, it) = ParseTo(b, SeekToRestartPoint(b, it, Max(before)), it.current)
    BY <2>4 DEF IterPrev
  <2>16. AtEntry(b, list, IterPrev(b, it), h)
    BY <2>7, <2>14, <2>15, Zenon
  <2> QED BY <1>7, <2>1, <2>16
<1> QED BY <1>3, <1>6, <1>7

\* Bisection ends at the first restart point, or at one whose key is before the target.
Searching(b, target) ==
  {s \in [left : 0 .. NumRestarts(b) - 1, right : 0 .. NumRestarts(b) - 1, ok : {TRUE}] :
     /\ s.left <= s.right
     /\ s.left = 0 \/ KeyBefore(EntryAt(b, GetRestartPoint(b, s.left)).suffix, target)}

\* The key at a restart point, as the bisection of Seek reads it.
LEMMA RestartEntry ==
  ASSUME NEW b, NEW list, Holds(b, list), list # <<>>, NEW j \in 0 .. NumRestarts(b) - 1
  PROVE  \E i \in 1 .. Len(list) :
           /\ GetRestartPoint(b, j) = b.entries[i].off /\ b.entries[i].shared = 0
           /\ EntryAt(b, GetRestartPoint(b, j)) = b.entries[i] /\ b.entries[i].suffix = list[i][1]
           /\ j = 0 => i = 1
<1>1. PICK i \in 1 .. Len(list) : GetRestartPoint(b, j) = b.entries[i].off /\ b.entries[i].shared = 0
  BY RestartFacts
<1>2. EntryAt(b, GetRestartPoint(b, j)) = b.entries[i]
  BY <1>1, EntryFound
<1>3. list[i][1] = b.entries[i].suffix
  BY <1>1 DEF Holds, Spells
<1>4. j = 0 => i = 1
  <2> SUFFICES ASSUME j = 0, i # 1 PROVE FALSE
    OBVIOUS
  <2>1. 1 \in 1 .. Len(list) /\ GetRestartPoint(b, j) = 0 /\ 1 < i
    BY RestartFacts DEF Holds
  <2>2. /\ b.entries[1].off \in Nat /\ b.entries[1].end \in Nat
        /\ b.entries[1].off < b.entries[1].end /\ b.entries[1].end <= b.entries[i].off
    BY <2>1, EntryFacts
  <2> QED BY <1>1, <2>1, <2>2
<1> QED BY <1>1, <1>2, <1>3, <1>4

\* A step of the bisection keeps what it searches.
LEMMA HalveKeeps ==
  ASSUME NEW b, NEW list, Holds(b, list), list # <<>>, NEW target, NEW s \in Searching(b, target)
  PROVE  Halve(b, target, s) \in Searching(b, target)
<1>1. PICK m \in Nat : m = NumRestarts(b)
  BY RestartFacts
<1>2. /\ s \in [left : 0 .. m - 1, right : 0 .. m - 1, ok : {TRUE}] /\ s.left <= s.right
      /\ s.left = 0 \/ KeyBefore(EntryAt(b, GetRestartPoint(b, s.left)).suffix, target)
  BY <1>1 DEF Searching
<1>3. s.left \in 0 .. m - 1 /\ s.right \in 0 .. m - 1 /\ s.ok
  BY <1>2
<1>4. CASE s.left >= s.right
  BY <1>4 DEF Halve
<1>5. CASE ~(s.left >= s.right)
  <2>1. PICK mid \in Nat : mid = (s.left + s.right + 1) \div 2
    BY <1>3
  <2>2. s.left < mid /\ mid <= s.right
    BY <1>3, <1>5, <2>1
  <2>3. mid \in 0 .. m - 1 /\ mid - 1 \in 0 .. m - 1 /\ s.left <= mid - 1
    BY <1>3, <2>2
  <2>4. PICK e : e = EntryAt(b, GetRestartPoint(b, mid))
    OBVIOUS
  <2>5. e.shared = 0
    BY <1>1, <2>3, <2>4, RestartEntry
  <2>6. Halve(b, target, s) = IF KeyBefore(e.suffix, target) THEN [s EXCEPT !.left = mid]
                              ELSE [s EXCEPT !.right = mid - 1]
    BY <1>3, <1>5, <2>1, <2>4, <2>5 DEF Halve
  <2>7. CASE KeyBefore(e.suffix, target)
    <3>1. PICK t : t = [s EXCEPT !.left = mid]
      OBVIOUS
    <3>2. /\ t \in [left : 0 .. m - 1, right : 0 .. m - 1, ok : {TRUE}]
          /\ t.left = mid /\ t.right = s.right
      BY <1>2, <2>3, <3>1
    <3>3. t \in Searching(b, target)
      BY <1>1, <2>2, <2>4, <2>7, <3>2 DEF Searching
    <3> QED BY <2>6, <2>7, <3>1, <3>3
  <2>8. CASE ~KeyBefore(e.suffix, target)
    <3>1. PICK t : t = [s EXCEPT !.right = mid - 1]
      OBVIOUS
    <3>2. /\ t \in [left : 0 .. m - 1, right : 0 .. m - 1, ok : {TRUE}]
          /\ t.left = s.left /\ t.right = mid - 1
      BY <1>2, <2>3, <3>1
    <3>3. t \in Searching(b, target)
      BY <1>1, <1>2, <2>3, <3>2 DEF Searching
    <3> QED BY <2>6, <2>8, <3>1, <3>3
  <2> QED BY <2>7, <2>8
<1> QED BY <1>4, <1>5

\* ... and so does the whole of it.
LEMMA BisectEnds ==
  ASSUME NEW b, NEW list, Holds(b, list), list # <<>>, NEW target
  PROVE  Bisect(b, target) \in Searching(b, target)
<1>1. PICK m \in Nat : m = NumRestarts(b) /\ m # 0
  BY RestartFacts
<1> DEFINE S == Searching(b, target)
           a == [left |-> 0, right |-> NumRestarts(b) - 1, ok |-> TRUE]
           g == [x \in Nat \X S |-> Halve(b, target, x[2])]
           search == CHOOSE f : f = [i \in 0 .. m |-> IF i = 0 THEN a ELSE Halve(b, target, f[i - 1])]
<1>2. a \in S
  BY <1>1 DEF Searching
<1>3. Bisect(b, target) = search[m]
  BY <1>1 DEF Bisect
<1> HIDE DEF a
<1>4. \A s \in S : Halve(b, target, s) \in S
  BY HalveKeeps
<1> HIDE DEF S
<1>5. g \in [Nat \X S -> S] /\ \A i \in Nat : \A s \in S : g[<<i, s>>] = Halve(b, target, s)
  BY <1>4
<1> HIDE DEF g
<1>6. PICK f \in [0 .. m -> S] : CountsTo(f, m, a, g)
  BY <1>2, <1>5, RecursionUp
<1>7. \A i \in 0 .. m : f[i] = IF i = 0 THEN a ELSE Halve(b, target, f[i - 1])
  <2> TAKE i \in 0 .. m
  <2>1. f = [k \in 0 .. m |-> IF k = 0 THEN a ELSE g[<<k, f[k - 1]>>]]
    BY <1>6 DEF CountsTo
  <2>2. f[i] = IF i = 0 THEN a ELSE g[<<i, f[i - 1]>>]
    BY <2>1, Zenon
  <2>3. i # 0 => i \in Nat /\ i - 1 \in 0 .. m
    OBVIOUS
  <2>4. i # 0 => f[i - 1] \in S
    BY <1>6, <2>3
  <2> QED BY <1>5, <2>2, <2>3, <2>4
<1>8. f = [i \in 0 .. m |-> IF i = 0 THEN a ELSE Halve(b, target, f[i - 1])]
  BY <1>6, <1>7
<1>9. search = [i \in 0 .. m |-> IF i = 0 THEN a ELSE Halve(b, target, search[i - 1])]
  BY <1>8, Zenon
<1> HIDE DEF search
<1>10. \A i \in 0 .. m : search[i] = IF i = 0 THEN a ELSE Halve(b, target, search[i - 1])
  BY <1>9, Zenon
<1> DEFINE Q == {i \in 0 .. m : search[i] \in S}
<1>11. 0 \in Q
  BY <1>2, <1>10
<1>12. \A i \in 1 .. m : i - 1 \in Q => i \in Q
  BY <1>4, <1>10
<1> HIDE DEF Q
<1>13. \A i \in 0 .. m : i \in Q
  BY <1>11, <1>12, CountUp
<1>14. search[m] \in S
  BY <1>13 DEF Q
<1> QED BY <1>3, <1>14 DEF S

\* Seek goes to the t-th entry, if those before it are the ones before the target.
LEMMA SeekAt ==
  ASSUME NEW b, NEW list, Holds(b, list), list # <<>>, NEW it \in Iters, NEW target,
         NEW t \in 1 .. Len(list) + 1,
         \A i \in 1 .. Len(list) : KeyBefore(list[i][1], target) <=> i < t
  PROVE  /\ t <= Len(list) => AtEntry(b, list, IterSeek(b, it, target), t)
         /\ t > Len(list) => AtNone(b, IterSeek(b, it, target))
<1>1. PICK s \in Searching(b, target) : s = Bisect(b, target)
  BY BisectEnds
<1>2. /\ s.left \in 0 .. NumRestarts(b) - 1 /\ s.ok
      /\ s.left = 0 \/ KeyBefore(EntryAt(b, GetRestartPoint(b, s.left)).suffix, target)
  BY DEF Searching
<1>3. PICK r \in 1 .. Len(list) :
        /\ GetRestartPoint(b, s.left) = b.entries[r].off /\ b.entries[r].shared = 0
        /\ EntryAt(b, GetRestartPoint(b, s.left)) = b.entries[r] /\ b.entries[r].suffix = list[r][1]
        /\ s.left = 0 => r = 1
  BY <1>2, RestartEntry
<1>4. Len(list) \in Nat
  BY EntryFacts
<1>5. t \in r .. Len(list) + 1
  <2>1. r = 1 \/ r < t
    BY <1>2, <1>3
  <2> QED BY <1>4, <2>1
<1>6. ReadyFor(b, list, SeekToRestartPoint(b, it, s.left), r)
  BY <1>2, <1>3, RestartReady
<1>7. \A i \in r .. Len(list) : i <= t => (KeyBefore(list[i][1], target) <=> i < t)
  <2> TAKE i \in r .. Len(list)
  <2>1. i \in 1 .. Len(list)
    BY <1>4
  <2> QED BY <2>1
<1>8. IterSeek(b, it, target) = ParseToKey(b, SeekToRestartPoint(b, it, s.left), target)
  BY <1>1, <1>2 DEF IterSeek
<1>9. /\ t <= Len(list) => AtEntry(b, list, ParseToKey(b, SeekToRestartPoint(b, it, s.left), target), t)
      /\ t > Len(list) => AtNone(b, ParseToKey(b, SeekToRestartPoint(b, it, s.left), target))
  BY <1>5, <1>6, <1>7, ParseToKeyStops
<1> QED BY <1>8, <1>9, Zenon
-----------------------------------------------------------------------------
(***************************************************************************)
(* The order of the nodes.                                                 *)
(***************************************************************************)
NodeSet == [key : Keys, tag : Nat, val : Nat]
Unlike(nodes) == \A a, b \in nodes : a.key = b.key /\ a.tag = b.tag => a = b
Ascending(s) == \A i, j \in 1 .. Len(s) : i < j => Before(s[i], s[j])

\* The comparison of the skiplist orders nodes by key and tag.
LEMMA BeforeOrders ==
  ASSUME NEW a \in NodeSet, NEW b \in NodeSet, NEW c \in NodeSet
  PROVE  /\ ~Before(a, a) /\ ~(Before(a, b) /\ Before(b, a))
         /\ Before(a, b) /\ Before(b, c) => Before(a, c)
         /\ Before(a, b) \/ Before(b, a) \/ (a.key = b.key /\ a.tag = b.tag)
<1>1. a.key \in Nat /\ b.key \in Nat /\ c.key \in Nat /\ a.tag \in Nat /\ b.tag \in Nat /\ c.tag \in Nat
  BY EntryAssumption DEF NodeSet
<1> QED BY <1>1 DEF Before

Rank(nodes, n) == Cardinality({m \in nodes : Before(m, n)}) + 1

\* The ranks of unlike nodes are 1, 2, ... in their order.
LEMMA RankOrders ==
  ASSUME NEW T, T \subseteq NodeSet, IsFiniteSet(T), Unlike(T)
  PROVE  /\ \A n \in T : Rank(T, n) \in 1 .. Cardinality(T)
         /\ \A m, n \in T : Rank(T, m) < Rank(T, n) <=> Before(m, n)
         /\ \A m, n \in T : Rank(T, m) = Rank(T, n) => m = n
<1> DEFINE L(n) == {m \in T : Before(m, n)}
<1>1. \A n \in T : L(n) \in SUBSET T /\ IsFiniteSet(L(n)) /\ Cardinality(L(n)) \in Nat
  <2> TAKE n \in T
  <2>1. L(n) \in SUBSET T
    OBVIOUS
  <2> HIDE DEF L
  <2>2. IsFiniteSet(L(n))
    BY <2>1, FS_Subset
  <2> QED BY <2>1, <2>2, FS_CardinalityType
<1>2. ASSUME NEW n \in T PROVE Rank(T, n) \in 1 .. Cardinality(T)
  <2>1. n \notin L(n)
    BY BeforeOrders
  <2>2. Cardinality(T) \in Nat /\ Cardinality(L(n)) <= Cardinality(T)
        /\ (Cardinality(T) = Cardinality(L(n)) => T = L(n))
    <3> HIDE DEF L
    <3> QED BY <1>1, FS_Subset, FS_CardinalityType
  <2>3. Cardinality(T) # Cardinality(L(n))
    BY <2>1, <2>2
  <2>4. Rank(T, n) = Cardinality(L(n)) + 1
    BY DEF Rank
  <2> HIDE DEF L
  <2> QED BY <1>1, <2>2, <2>3, <2>4
<1>3. ASSUME NEW m \in T, NEW n \in T, Before(m, n) PROVE Rank(T, m) < Rank(T, n)
  <2>1. L(m) \in SUBSET L(n)
    <3> SUFFICES ASSUME NEW k \in L(m) PROVE k \in L(n)
      OBVIOUS
    <3> QED BY <1>3, BeforeOrders
  <2>2. m \in L(n) /\ m \notin L(m)
    BY <1>3, BeforeOrders
  <2>3. Cardinality(L(m)) <= Cardinality(L(n)) /\ (Cardinality(L(n)) = Cardinality(L(m)) => L(n) = L(m))
    <3> HIDE DEF L
    <3> QED BY <1>1, <2>1, FS_Subset
  <2>4. Rank(T, m) = Cardinality(L(m)) + 1 /\ Rank(T, n) = Cardinality(L(n)) + 1
    BY DEF Rank
  <2> HIDE DEF L
  <2> QED BY <1>1, <2>2, <2>3, <2>4
<1>4. \A m, n \in T : m = n \/ Before(m, n) \/ Before(n, m)
  BY BeforeOrders DEF Unlike
<1>5. \A n \in T : Rank(T, n) \in Nat
  <2> TAKE n \in T
  <2>1. Rank(T, n) \in 1 .. Cardinality(T)
    BY <1>2
  <2> QED BY <2>1
<1>6. \A m, n \in T : Rank(T, m) < Rank(T, n) => Before(m, n)
  <2> SUFFICES ASSUME NEW m \in T, NEW n \in T, Rank(T, m) < Rank(T, n), ~Before(m, n) PROVE FALSE
    OBVIOUS
  <2>1. m = n \/ Before(n, m)
    BY <1>4
  <2>2. m # n
    BY <1>5
  <2> QED BY <1>3, <1>5, <2>1, <2>2
<1>7. \A m, n \in T : Rank(T, m) = Rank(T, n) => m = n
  BY <1>3, <1>4, <1>5
<1> QED BY <1>2, <1>3, <1>6, <1>7

\* InOrder lists the nodes, each one once and in order.
LEMMA InOrderLists ==
  ASSUME NEW T, T \subseteq NodeSet, IsFiniteSet(T), Unlike(T)
  PROVE  /\ InOrder(T) \in Seq(NodeSet) /\ Len(InOrder(T)) = Cardinality(T)
         /\ \A i \in 1 .. Len(InOrder(T)) : InOrder(T)[i] \in T
         /\ \A n \in T : \E i \in 1 .. Len(InOrder(T)) : InOrder(T)[i] = n
         /\ Ascending(InOrder(T))
<1>1. PICK k \in Nat : k = Cardinality(T)
  BY FS_CardinalityType
<1> DEFINE s == [i \in 1 .. k |-> CHOOSE n \in T : Rank(T, n) = i]
           f == [n \in T |-> Rank(T, n)]
<1>2. InOrder(T) = s
  BY <1>1 DEF InOrder, Rank
<1>3. f \in Surjection(T, 1 .. k)
  <2>1. f \in [T -> 1 .. k]
    BY <1>1, RankOrders
  <2>2. \A a, b \in T : f[a] = f[b] => a = b
    BY RankOrders
  <2> HIDE DEF f
  <2>3. f \in Injection(T, 1 .. k)
    BY <2>1, <2>2 DEF Injection, IsInjective
  <2>4. IsFiniteSet(1 .. k) /\ Cardinality(1 .. k) = k
    <3>1. 1 \in Int /\ k \in Int /\ (1 > k => k = 0)
      OBVIOUS
    <3> QED BY <3>1, FS_Interval
  <2> QED BY <1>1, <2>3, <2>4, FS_Injection
<1>4. \A i \in 1 .. k : \E n \in T : Rank(T, n) = i
  <2>1. \A i \in 1 .. k : \E n \in T : f[n] = i
    <3> HIDE DEF f
    <3> QED BY <1>3 DEF Surjection
  <2> QED BY <2>1
<1>5. \A i \in 1 .. k : s[i] \in T /\ Rank(T, s[i]) = i
  BY <1>4
<1>6. s \in Seq(NodeSet) /\ Len(s) = k
  <2>1. \A i \in 1 .. k : s[i] \in NodeSet
    BY <1>5
  <2>2. s = [i \in 1 .. k |-> s[i]]
    OBVIOUS
  <2> HIDE DEF s
  <2> QED BY <2>1, <2>2
<1> HIDE DEF s
<1>7. \A n \in T : \E i \in 1 .. k : s[i] = n
  <2> TAKE n \in T
  <2>1. Rank(T, n) \in 1 .. k
    BY <1>1, RankOrders
  <2>2. s[Rank(T, n)] = n
    BY <1>5, <2>1, RankOrders
  <2> QED BY <2>1, <2>2
<1>8. Ascending(s)
  <2> SUFFICES ASSUME NEW i \in 1 .. k, NEW j \in 1 .. k, i < j PROVE Before(s[i], s[j])
    BY <1>6 DEF Ascending
  <2> QED BY <1>5, RankOrders
<1> QED BY <1>1, <1>2, <1>5, <1>6, <1>7, <1>8

\* Internal keys are compared as their nodes are.
LEMMA InternalKeys ==
  ASSUME NEW a \in NodeSet, NEW b \in NodeSet
  PROVE  /\ InternalKey(a) \in Chars
         /\ KeyBefore(InternalKey(a), InternalKey(b)) <=> Before(a, b)
         /\ InternalKey(a) = InternalKey(b) => a.key = b.key /\ a.tag = b.tag
<1>1. \A n \in NodeSet : /\ InternalKey(n) \in Chars
                         /\ UserKeyOf(InternalKey(n)) = UserKey[n.key] /\ TagOf(InternalKey(n)) = n.tag
  <2> TAKE n \in NodeSet
  <2>1. UserKey[n.key] \in Seq(Nat) /\ n.tag \in Nat /\ <<n.tag>> \in Seq(Nat) /\ Len(<<n.tag>>) = 1
    BY UserKeyAssumption DEF NodeSet
  <2>2. PICK u \in Seq(Nat) : u = UserKey[n.key]
    BY <2>1
  <2>3. PICK w : w = u \o <<n.tag>>
    OBVIOUS
  <2>4. /\ w \in Seq(Nat) /\ Len(w) = Len(u) + 1 /\ Len(u) \in Nat
        /\ \A i \in 1 .. Len(u) : w[i] = u[i]
        /\ w[Len(u) + 1] = n.tag
    BY <2>1, <2>3
  <2>5. SubSeq(w, 1, Len(w) - 1) = u
    <3>1. Len(w) - 1 = Len(u)
      BY <2>4
    <3>2. /\ SubSeq(w, 1, Len(u)) \in Seq(Nat) /\ Len(SubSeq(w, 1, Len(u))) = Len(u)
          /\ \A i \in 1 .. Len(u) : SubSeq(w, 1, Len(u))[i] = u[i]
      BY <2>4
    <3>3. SubSeq(w, 1, Len(u)) = u
      BY <3>2, SeqEqual
    <3> QED BY <3>1, <3>3
  <2>6. InternalKey(n) = w
    BY <2>2, <2>3 DEF InternalKey
  <2> QED BY <2>2, <2>4, <2>5, <2>6 DEF Chars, UserKeyOf, TagOf
<1>2. a.key \in Keys /\ b.key \in Keys /\ a.key \in Nat /\ b.key \in Nat
  BY EntryAssumption DEF NodeSet
<1>3. /\ a.key < b.key <=> LexBefore(UserKey[a.key], UserKey[b.key])
      /\ b.key < a.key <=> LexBefore(UserKey[b.key], UserKey[a.key])
  BY <1>2, UserKeyAssumption
<1>4. UserKey[a.key] = UserKey[b.key] => a.key = b.key
  <2>1. UserKey[a.key] = UserKey[b.key] =>
          (LexBefore(UserKey[a.key], UserKey[b.key]) <=> LexBefore(UserKey[b.key], UserKey[a.key]))
    BY Zenon
  <2> QED BY <1>2, <1>3, <2>1
<1>5. KeyBefore(InternalKey(a), InternalKey(b)) <=>
        \/ LexBefore(UserKey[a.key], UserKey[b.key])
        \/ UserKey[a.key] = UserKey[b.key] /\ a.tag > b.tag
  BY <1>1 DEF KeyBefore
<1>6. InternalKey(a) = InternalKey(b) => UserKey[a.key] = UserKey[b.key] /\ a.tag = b.tag
  BY <1>1
<1> QED BY <1>1, <1>3, <1>4, <1>5, <1>6 DEF Before
-----------------------------------------------------------------------------
(* The block of a list of nodes. *)
EntryOf(n) == <<InternalKey(n), n.val>>
ListOf(s) == [i \in 1 .. Len(s) |-> EntryOf(s[i])]

\* A list of nodes as a list of entries.
LEMMA ListOfType ==
  ASSUME NEW s \in Seq(NodeSet)
  PROVE  /\ ListOf(s) \in Seq(Chars \X Nat) /\ Len(ListOf(s)) = Len(s) /\ Len(s) \in Nat
         /\ \A i \in 1 .. Len(s) : ListOf(s)[i] = EntryOf(s[i])
<1>1. \A i \in 1 .. Len(s) : EntryOf(s[i]) \in Chars \X Nat
  <2> TAKE i \in 1 .. Len(s)
  <2>1. s[i] \in NodeSet
    OBVIOUS
  <2>2. InternalKey(s[i]) \in Chars /\ s[i].val \in Nat
    BY <2>1, InternalKeys DEF NodeSet
  <2> QED BY <2>2 DEF EntryOf
<1> QED BY <1>1 DEF ListOf

\* Append, element by element.
LEMMA AppendFacts ==
  ASSUME NEW S, NEW u \in Seq(S), NEW e \in S
  PROVE  /\ Append(u, e) \in Seq(S) /\ Len(Append(u, e)) = Len(u) + 1 /\ Len(u) \in Nat
         /\ \A k \in 1 .. Len(u) + 1 : Append(u, e)[k] = IF k = Len(u) + 1 THEN e ELSE u[k]
OBVIOUS

\* Flushlevel0fromskip writes a block of the nodes.
LEMMA BlockOfHolds ==
  ASSUME NEW s \in Seq(NodeSet)
  PROVE  Building(BlockOf(s), ListOf(s))
<1>1. PICK n \in Nat : n = Len(s)
  OBVIOUS
<1> DEFINE S == {b \in BlockRecord : \E list : Building(b, list)}
           Add1(b, i) == BlockAdd(b, InternalKey(s[i]), s[i].val, s[i].val)
           g == [x \in Nat \X S |-> IF x[1] \in 1 .. n THEN Add1(x[2], x[1]) ELSE x[2]]
           P(i) == [k \in 1 .. i |-> EntryOf(s[k])]
           block == CHOOSE f : f = [i \in 0 .. n |-> IF i = 0 THEN EmptyBlock ELSE Add1(f[i - 1], i)]
<1>2. BlockOf(s) = block[n]
  BY <1>1 DEF BlockOf
<1>3. \A i \in 1 .. n : InternalKey(s[i]) \in Chars /\ s[i].val \in Nat
  <2> TAKE i \in 1 .. n
  <2>1. s[i] \in NodeSet
    BY <1>1
  <2> QED BY <2>1, InternalKeys DEF NodeSet
<1>4. \A i \in 1 .. n : \A b, list : Building(b, list) => Building(Add1(b, i), Append(list, EntryOf(s[i])))
  BY <1>3, BlockAddBuilding DEF EntryOf
<1>5. EmptyBlock \in S
  BY EmptyBuilding DEF Building
<1> HIDE DEF Add1
<1>6. \A i \in 1 .. n : \A b \in S : Add1(b, i) \in S
  BY <1>4 DEF Building
<1> HIDE DEF S
<1>7. g \in [Nat \X S -> S] /\ \A i \in 1 .. n : \A b \in S : g[<<i, b>>] = Add1(b, i)
  BY <1>6
<1> HIDE DEF g
<1>8. PICK f \in [0 .. n -> S] : CountsTo(f, n, EmptyBlock, g)
  BY <1>5, <1>7, RecursionUp
<1>9. \A i \in 0 .. n : f[i] = IF i = 0 THEN EmptyBlock ELSE Add1(f[i - 1], i)
  <2> TAKE i \in 0 .. n
  <2>1. f = [k \in 0 .. n |-> IF k = 0 THEN EmptyBlock ELSE g[<<k, f[k - 1]>>]]
    BY <1>8 DEF CountsTo
  <2>2. f[i] = IF i = 0 THEN EmptyBlock ELSE g[<<i, f[i - 1]>>]
    BY <2>1, Zenon
  <2>3. i # 0 => i \in 1 .. n /\ i - 1 \in 0 .. n
    OBVIOUS
  <2>4. i # 0 => f[i - 1] \in S
    BY <1>8, <2>3
  <2> QED BY <1>7, <2>2, <2>3, <2>4
<1>10. f = [i \in 0 .. n |-> IF i = 0 THEN EmptyBlock ELSE Add1(f[i - 1], i)]
  BY <1>8, <1>9
<1>11. block = [i \in 0 .. n |-> IF i = 0 THEN EmptyBlock ELSE Add1(block[i - 1], i)]
  BY <1>10, Zenon
<1> HIDE DEF block
<1>12. \A i \in 0 .. n : block[i] = IF i = 0 THEN EmptyBlock ELSE Add1(block[i - 1], i)
  BY <1>11, Zenon
<1> DEFINE Q == {i \in 0 .. n : Building(block[i], P(i))}
<1>13. P(0) = <<>>
  OBVIOUS
<1>14. ASSUME NEW i \in 1 .. n PROVE P(i) = Append(P(i - 1), EntryOf(s[i]))
  <2>1. PICK e \in Chars \X Nat : e = EntryOf(s[i])
    BY <1>3 DEF EntryOf
  <2>2. P(i) \in Seq(Chars \X Nat) /\ Len(P(i)) = i /\ P(i - 1) \in Seq(Chars \X Nat) /\ Len(P(i - 1)) = i - 1
    <3>1. \A k \in 1 .. i : EntryOf(s[k]) \in Chars \X Nat
      BY <1>3 DEF EntryOf
    <3>2. i - 1 \in Nat /\ i \in Nat /\ \A k \in 1 .. i - 1 : k \in 1 .. i
      OBVIOUS
    <3> QED BY <3>1, <3>2
  <2>3. \A k \in 1 .. i : P(i)[k] = EntryOf(s[k])
    OBVIOUS
  <2>4. \A k \in 1 .. i - 1 : P(i - 1)[k] = EntryOf(s[k])
    OBVIOUS
  <2>7. PICK v : v = P(i) /\ v \in Seq(Chars \X Nat) /\ Len(v) = i /\ \A k \in 1 .. i : v[k] = EntryOf(s[k])
    BY <2>2, <2>3
  <2>8. PICK u : u = P(i - 1) /\ u \in Seq(Chars \X Nat) /\ Len(u) = i - 1 /\ \A k \in 1 .. i - 1 : u[k] = EntryOf(s[k])
    BY <2>2, <2>4
  <2> HIDE DEF P
  <2>5. PICK w : /\ w = Append(u, e) /\ w \in Seq(Chars \X Nat) /\ Len(w) = i
                 /\ \A k \in 1 .. i : w[k] = IF k = i THEN e ELSE u[k]
    <3>1. Len(u) + 1 = i
      BY <2>8
    <3>0. PICK D : D = Chars \X Nat
      OBVIOUS
    <3>2. u \in Seq(D) /\ e \in D
      BY <2>1, <2>8, <3>0
    <3>3. /\ Append(u, e) \in Seq(D) /\ Len(Append(u, e)) = Len(u) + 1
          /\ \A k \in 1 .. Len(u) + 1 : Append(u, e)[k] = IF k = Len(u) + 1 THEN e ELSE u[k]
      BY <3>2, AppendFacts
    <3>4. PICK w : w = Append(u, e)
      OBVIOUS
    <3>5. /\ w = Append(u, e) /\ w \in Seq(Chars \X Nat) /\ Len(w) = i
          /\ \A k \in 1 .. i : w[k] = IF k = i THEN e ELSE u[k]
      BY <3>0, <3>1, <3>3, <3>4, Zenon
    <3> QED BY <3>5, Zenon
  <2>6. \A k \in 1 .. i : w[k] = v[k]
    <3> TAKE k \in 1 .. i
    <3>1. k = i \/ k \in 1 .. i - 1
      OBVIOUS
    <3> QED BY <2>1, <2>7, <2>8, <2>5, <3>1
  <2>9. v = w
    BY <2>5, <2>6, <2>7, SeqEqual
  <2> QED BY <2>1, <2>5, <2>7, <2>8, <2>9
<1>15. 0 \in Q
  BY <1>12, <1>13, EmptyBuilding
<1>16. ASSUME NEW i \in 1 .. n, i - 1 \in Q PROVE i \in Q
  <2>1. Building(block[i - 1], P(i - 1)) /\ block[i] = Add1(block[i - 1], i) /\ i \in 0 .. n
    BY <1>12, <1>16
  <2> HIDE DEF P
  <2>2. Building(Add1(block[i - 1], i), Append(P(i - 1), EntryOf(s[i])))
    BY <1>4, <2>1
  <2> QED BY <1>14, <2>1, <2>2
<1> HIDE DEF Q
<1>17. \A i \in 0 .. n : i \in Q
  BY <1>15, <1>16, CountUp
<1>18. Building(block[n], P(n))
  BY <1>17 DEF Q
<1>19. P(n) = ListOf(s)
  BY <1>1 DEF ListOf
<1> QED BY <1>2, <1>18, <1>19
-----------------------------------------------------------------------------
(***************************************************************************)
(* The merge.  `list' is what a client is to see; it is dealt out to the   *)
(* blocks: P[c] are the places in the list of the entries of block c.      *)
(***************************************************************************)
KeysSorted(list) ==
  /\ list \in Seq(Chars \X Nat)
  /\ \A j, k \in 1 .. Len(list) : KeyBefore(list[j][1], list[k][1]) <=> j < k

\* The entries whose keys are before the target come first.
Splits(list, target) ==
  \A j, k \in 1 .. Len(list) : j < k /\ KeyBefore(list[k][1], target) => KeyBefore(list[j][1], target)

Part(list, p) == [i \in 1 .. Len(p) |-> list[p[i]]]

Hand(list, b, p) ==
  /\ p \in Seq(1 .. Len(list)) /\ Len(p) # 0
  /\ \A i, j \in 1 .. Len(p) : i < j => p[i] < p[j]
  /\ Holds(b, Part(list, p))

Dealt(list, bs, P) ==
  /\ Len(bs) \in Nat /\ Len(bs) # 0
  /\ \A c \in 1 .. Len(bs) : Hand(list, bs[c], P[c])
  /\ \A c, d \in 1 .. Len(bs) : \A i \in 1 .. Len(P[c]), j \in 1 .. Len(P[d]) : P[c][i] = P[d][j] => c = d
  /\ \A k \in 1 .. Len(list) : \E c \in 1 .. Len(bs) : \E i \in 1 .. Len(P[c]) : P[c][i] = k

Wrapper == [it : Iters, valid : BOOLEAN, key : Chars]

\* A child is at the x-th entry of its block; at none when x is 0.
Stands(list, b, p, w, x) ==
  /\ w \in Wrapper /\ x \in 0 .. Len(p)
  /\ x = 0 => ~w.valid /\ AtNone(b, w.it)
  /\ x # 0 => w.valid /\ w.key = list[p[x]][1] /\ AtEntry(b, Part(list, p), w.it, x)

\* The first entry of the block from k on, and the last one up to k.
FirstFrom(p, x, k) ==
  /\ x = 0 => \A i \in 1 .. Len(p) : p[i] < k
  /\ x # 0 => p[x] >= k /\ \A i \in 1 .. Len(p) : i < x => p[i] < k
LastTo(p, x, k) ==
  /\ x = 0 => \A i \in 1 .. Len(p) : p[i] > k
  /\ x # 0 => p[x] <= k /\ \A i \in 1 .. Len(p) : i > x => p[i] > k

\* No key is twice in a sorted list.
LEMMA KeyPlaces ==
  ASSUME NEW list, KeysSorted(list), NEW j \in 1 .. Len(list), NEW k \in 1 .. Len(list),
         list[j][1] = list[k][1]
  PROVE  j = k
<1>1. /\ KeyBefore(list[j][1], list[k][1]) <=> j < k
      /\ KeyBefore(list[k][1], list[j][1]) <=> k < j
  BY DEF KeysSorted
<1>2. KeyBefore(list[j][1], list[k][1]) <=> KeyBefore(list[k][1], list[j][1])
  BY Zenon
<1> QED BY <1>1, <1>2

\* What a block has of the list.
LEMMA HandFacts ==
  ASSUME NEW list, KeysSorted(list), NEW b, NEW p, Hand(list, b, p)
  PROVE  /\ Len(list) \in Nat /\ Len(p) \in Nat /\ Len(p) # 0 /\ p \in Seq(1 .. Len(list))
         /\ \A i \in 1 .. Len(p) : p[i] \in 1 .. Len(list) /\ p[i] \in Nat /\ list[p[i]][1] \in Chars
         /\ \A i, j \in 1 .. Len(p) : i < j => p[i] < p[j]
         /\ Holds(b, Part(list, p)) /\ Part(list, p) # <<>> /\ Len(Part(list, p)) = Len(p)
         /\ \A i \in 1 .. Len(p) : Part(list, p)[i] = list[p[i]]
<1>1. Len(list) \in Nat /\ Len(p) \in Nat /\ Len(p) # 0 /\ p \in Seq(1 .. Len(list))
  BY DEF KeysSorted, Hand
<1>2. \A i \in 1 .. Len(p) : p[i] \in 1 .. Len(list) /\ p[i] \in Nat
  BY <1>1
<1>3. \A i \in 1 .. Len(list) : list[i] \in Chars \X Nat /\ list[i][1] \in Chars
  BY DEF KeysSorted
<1>4. Part(list, p) \in Seq(Chars \X Nat) /\ Len(Part(list, p)) = Len(p)
      /\ \A i \in 1 .. Len(p) : Part(list, p)[i] = list[p[i]]
  <2>1. \A i \in 1 .. Len(p) : list[p[i]] \in Chars \X Nat
    BY <1>2, <1>3
  <2> QED BY <1>1, <2>1 DEF Part
<1>5. Part(list, p) # <<>>
  BY <1>1, <1>4
<1> QED BY <1>1, <1>2, <1>3, <1>4, <1>5 DEF Hand

\* What the wrapper remembers.
LEMMA UpdateStands ==
  ASSUME NEW list, KeysSorted(list), NEW c \in 1 .. Len(blocks), NEW p, Hand(list, blocks[c], p),
         NEW it, NEW old \in Chars
  PROVE  /\ AtNone(blocks[c], it) => Stands(list, blocks[c], p, Update(c, it, old), 0)
         /\ \A x \in 1 .. Len(p) : AtEntry(blocks[c], Part(list, p), it, x) =>
              Stands(list, blocks[c], p, Update(c, it, old), x)
<1> DEFINE b == blocks[c]
           w == Update(c, it, old)
<1>1. w.it = it /\ w.valid = IterValid(b, it) /\ w.key = (IF IterValid(b, it) THEN it.key ELSE old)
      /\ w = [it |-> w.it, valid |-> w.valid, key |-> w.key]
  BY DEF Update
<1>2. b.size \in Nat
  BY DEF Hand, Holds, Placed
<1>3. IterValid(b, it) <=> it.current < b.size
  BY DEF IterValid
<1>4. IterValid(b, it) \in BOOLEAN
  BY DEF IterValid
<1> HIDE DEF w, b
<1>5. ASSUME it \in Iters PROVE w \in Wrapper
  <2>1. it.key \in Chars
    BY <1>5 DEF Iters
  <2> QED BY <1>1, <1>4, <1>5, <2>1 DEF Wrapper
<1>6. ASSUME AtNone(b, it) PROVE Stands(list, b, p, w, 0)
  <2>1. it \in Iters /\ it.current = b.size
    BY <1>6 DEF AtNone
  <2>2. ~w.valid
    BY <1>1, <1>2, <1>3, <2>1
  <2>3. 0 \in 0 .. Len(p)
    BY DEF Hand
  <2> QED BY <1>1, <1>5, <1>6, <2>1, <2>2, <2>3 DEF Stands
<1>7. ASSUME NEW x \in 1 .. Len(p), AtEntry(b, Part(list, p), it, x) PROVE Stands(list, b, p, w, x)
  <2>1. Holds(b, Part(list, p)) /\ Len(Part(list, p)) = Len(p) /\ Part(list, p)[x] = list[p[x]]
    BY HandFacts DEF b
  <2>2. it \in Iters /\ it.current = b.entries[x].off /\ it.key = list[p[x]][1]
    BY <1>7, <2>1 DEF AtEntry
  <2>3. x \in 1 .. Len(Part(list, p))
    BY <2>1
  <2>4. b.entries[x].off \in Nat /\ b.entries[x].end \in Nat /\ b.entries[x].off < b.entries[x].end /\ b.entries[x].end <= b.size
    BY <2>1, <2>3, EntryFacts
  <2>5. IterValid(b, it)
    BY <1>2, <1>3, <2>2, <2>4
  <2>6. x # 0 /\ x \in 0 .. Len(p)
    OBVIOUS
  <2> QED BY <1>1, <1>5, <1>7, <2>2, <2>5, <2>6 DEF Stands
<1> QED BY <1>6, <1>7 DEF w, b
-----------------------------------------------------------------------------
(***************************************************************************)
(* A child moves.                                                          *)
(***************************************************************************)
\* IteratorWrapper::SeekToFirst.
LEMMA ChildSeekToFirst ==
  ASSUME NEW list, KeysSorted(list), NEW c \in 1 .. Len(blocks), NEW p, Hand(list, blocks[c], p),
         NEW w \in Wrapper
  PROVE  \E x \in 0 .. Len(p) : Stands(list, blocks[c], p, WrapperSeekToFirst(w, c), x) /\ FirstFrom(p, x, 1)
<1>1. w.it \in Iters /\ w.key \in Chars
  BY DEF Wrapper
<1>2. Holds(blocks[c], Part(list, p)) /\ Part(list, p) # <<>> /\ 1 \in 1 .. Len(p) /\ p[1] >= 1
  BY HandFacts
<1>3. AtEntry(blocks[c], Part(list, p), IterSeekToFirst(blocks[c], w.it), 1)
  BY <1>1, <1>2, SeekToFirstAt
<1>4. Stands(list, blocks[c], p, WrapperSeekToFirst(w, c), 1)
  BY <1>1, <1>2, <1>3, UpdateStands DEF WrapperSeekToFirst
<1>5. FirstFrom(p, 1, 1)
  BY <1>2 DEF FirstFrom
<1> QED BY <1>2, <1>4, <1>5

\* IteratorWrapper::SeekToLast.
LEMMA ChildSeekToLast ==
  ASSUME NEW list, KeysSorted(list), NEW c \in 1 .. Len(blocks), NEW p, Hand(list, blocks[c], p),
         NEW w \in Wrapper, NEW k \in Int, \A i \in 1 .. Len(p) : p[i] <= k
  PROVE  \E x \in 0 .. Len(p) : Stands(list, blocks[c], p, WrapperSeekToLast(w, c), x) /\ LastTo(p, x, k)
<1>1. w.it \in Iters /\ w.key \in Chars
  BY DEF Wrapper
<1>2. Holds(blocks[c], Part(list, p)) /\ Part(list, p) # <<>> /\ Len(p) \in 1 .. Len(p)
      /\ Len(Part(list, p)) = Len(p) /\ Len(p) \in Nat
  BY HandFacts
<1>3. AtEntry(blocks[c], Part(list, p), IterSeekToLast(blocks[c], w.it), Len(p))
  <2>1. AtEntry(blocks[c], Part(list, p), IterSeekToLast(blocks[c], w.it), Len(Part(list, p)))
    BY <1>1, <1>2, SeekToLastAt
  <2> QED BY <1>2, <2>1
<1>4. Stands(list, blocks[c], p, WrapperSeekToLast(w, c), Len(p))
  BY <1>1, <1>2, <1>3, UpdateStands DEF WrapperSeekToLast
<1>5. LastTo(p, Len(p), k)
  BY <1>2 DEF LastTo
<1> QED BY <1>2, <1>4, <1>5

\* A bound in the list, seen from a block.
LEMMA CutOf ==
  ASSUME NEW list, KeysSorted(list), NEW b, NEW p, Hand(list, b, p), NEW k \in 1 .. Len(list) + 1
  PROVE  \E t \in 1 .. Len(p) + 1 : \A i \in 1 .. Len(p) : p[i] < k <=> i < t
<1>1. /\ Len(p) \in Nat /\ Len(list) \in Nat
      /\ \A i \in 1 .. Len(p) : p[i] \in Nat
      /\ \A i, j \in 1 .. Len(p) : i < j => p[i] < p[j]
  BY HandFacts
<1> DEFINE T == {i \in 1 .. Len(p) + 1 : i \in 1 .. Len(p) => ~(p[i] < k)}
<1>2. Len(p) + 1 \in T /\ T \subseteq Nat
  BY <1>1
<1>3. PICK t \in T : \A y \in T : t <= y
  BY <1>2, LeastNat
<1>4. t \in 1 .. Len(p) + 1 /\ (t \in 1 .. Len(p) => ~(p[t] < k))
  BY <1>3
<1>5. ASSUME NEW i \in 1 .. Len(p) PROVE p[i] < k <=> i < t
  <2>1. CASE i < t
    <3>1. i \notin T /\ i \in 1 .. Len(p) + 1
      BY <1>1, <1>3, <1>4, <2>1
    <3> QED BY <2>1, <3>1
  <2>2. CASE ~(i < t)
    <3>1. t \in 1 .. Len(p) /\ (t = i \/ t < i)
      BY <1>1, <1>4, <2>2
    <3>2. p[t] \in Nat /\ p[i] \in Nat /\ p[t] <= p[i] /\ k \in Nat /\ ~(p[t] < k)
      BY <1>1, <1>4, <3>1
    <3> QED BY <2>2, <3>2
  <2> QED BY <2>1, <2>2
<1> QED BY <1>4, <1>5

\* IteratorWrapper::Seek.
LEMMA ChildSeek ==
  ASSUME NEW list, KeysSorted(list), NEW c \in 1 .. Len(blocks), NEW p, Hand(list, blocks[c], p),
         NEW w \in Wrapper, NEW target, NEW k \in 1 .. Len(list) + 1,
         \A i \in 1 .. Len(list) : KeyBefore(list[i][1], target) <=> i < k
  PROVE  \E x \in 0 .. Len(p) : Stands(list, blocks[c], p, WrapperSeek(w, c, target), x) /\ FirstFrom(p, x, k)
<1>1. w.it \in Iters /\ w.key \in Chars
  BY DEF Wrapper
<1>2. /\ Holds(blocks[c], Part(list, p)) /\ Part(list, p) # <<>> /\ Len(p) \in Nat /\ Len(list) \in Nat
      /\ Len(Part(list, p)) = Len(p)
      /\ \A i \in 1 .. Len(p) : Part(list, p)[i] = list[p[i]] /\ p[i] \in 1 .. Len(list) /\ p[i] \in Nat
  BY HandFacts
<1>3. PICK t \in 1 .. Len(p) + 1 : \A i \in 1 .. Len(p) : p[i] < k <=> i < t
  BY CutOf
<1>4. \A i \in 1 .. Len(Part(list, p)) : KeyBefore(Part(list, p)[i][1], target) <=> i < t
  BY <1>2, <1>3
<1>5. t \in 1 .. Len(Part(list, p)) + 1
  BY <1>2
<1>6. /\ t <= Len(p) => AtEntry(blocks[c], Part(list, p), IterSeek(blocks[c], w.it, target), t)
      /\ t > Len(p) => AtNone(blocks[c], IterSeek(blocks[c], w.it, target))
  <2>1. /\ t <= Len(Part(list, p)) => AtEntry(blocks[c], Part(list, p), IterSeek(blocks[c], w.it, target), t)
        /\ t > Len(Part(list, p)) => AtNone(blocks[c], IterSeek(blocks[c], w.it, target))
    BY <1>1, <1>2, <1>4, <1>5, SeekAt
  <2> QED BY <1>2, <2>1
<1>7. CASE t <= Len(p)
  <2>1. t \in 1 .. Len(p) /\ t \in 0 .. Len(p) /\ t # 0
    BY <1>2, <1>7
  <2>2. Stands(list, blocks[c], p, WrapperSeek(w, c, target), t)
    BY <1>1, <1>6, <1>7, <2>1, UpdateStands DEF WrapperSeek
  <2>3. p[t] \in Nat /\ ~(p[t] < k) /\ k \in Nat
    BY <1>2, <1>3, <2>1
  <2>4. FirstFrom(p, t, k)
    BY <1>3, <2>1, <2>3 DEF FirstFrom
  <2> QED BY <2>1, <2>2, <2>4
<1>8. CASE t > Len(p)
  <2>1. Stands(list, blocks[c], p, WrapperSeek(w, c, target), 0)
    BY <1>1, <1>6, <1>8, UpdateStands DEF WrapperSeek
  <2>2. FirstFrom(p, 0, k)
    BY <1>2, <1>3, <1>8 DEF FirstFrom
  <2>3. 0 \in 0 .. Len(p)
    BY <1>2
  <2> QED BY <2>1, <2>2, <2>3
<1> QED BY <1>2, <1>7, <1>8

\* IteratorWrapper::Next.
LEMMA ChildNext ==
  ASSUME NEW list, KeysSorted(list), NEW c \in 1 .. Len(blocks), NEW p, Hand(list, blocks[c], p),
         NEW w, NEW x \in 1 .. Len(p), Stands(list, blocks[c], p, w, x)
  PROVE  \E y \in 0 .. Len(p) : Stands(list, blocks[c], p, WrapperNext(w, c), y) /\ FirstFrom(p, y, p[x] + 1)
<1>1. w.it \in Iters /\ w.key \in Chars /\ AtEntry(blocks[c], Part(list, p), w.it, x)
  BY DEF Stands, Wrapper
<1>2. /\ Holds(blocks[c], Part(list, p)) /\ Len(p) \in Nat /\ Len(Part(list, p)) = Len(p)
      /\ \A i \in 1 .. Len(p) : p[i] \in Nat
      /\ \A i, j \in 1 .. Len(p) : i < j => p[i] < p[j]
  BY HandFacts
<1>3. /\ x < Len(p) => AtEntry(blocks[c], Part(list, p), IterNext(blocks[c], w.it), x + 1)
      /\ x = Len(p) => AtNone(blocks[c], IterNext(blocks[c], w.it))
  <2>1. x \in 1 .. Len(Part(list, p))
    BY <1>2
  <2>2. /\ x < Len(Part(list, p)) => AtEntry(blocks[c], Part(list, p), IterNext(blocks[c], w.it), x + 1)
        /\ x = Len(Part(list, p)) => AtNone(blocks[c], IterNext(blocks[c], w.it))
    BY <1>1, <1>2, <2>1, NextAt
  <2> QED BY <1>2, <2>2
<1>4. CASE x < Len(p)
  <2>1. x + 1 \in 1 .. Len(p) /\ x + 1 \in 0 .. Len(p) /\ x + 1 # 0 /\ x < x + 1
    BY <1>2, <1>4
  <2>2. Stands(list, blocks[c], p, WrapperNext(w, c), x + 1)
    BY <1>1, <1>3, <1>4, <2>1, UpdateStands DEF WrapperNext
  <2>3. p[x] < p[x + 1] /\ p[x] \in Nat /\ p[x + 1] \in Nat
    BY <1>2, <2>1
  <2>4. \A i \in 1 .. Len(p) : i < x + 1 => p[i] < p[x] + 1
    <3> TAKE i \in 1 .. Len(p)
    <3>1. i < x + 1 => i < x \/ i = x
      OBVIOUS
    <3>2. p[i] \in Nat /\ p[x] \in Nat /\ (i < x => p[i] < p[x])
      BY <1>2
    <3> QED BY <3>1, <3>2
  <2>5. FirstFrom(p, x + 1, p[x] + 1)
    BY <2>1, <2>3, <2>4 DEF FirstFrom
  <2> QED BY <2>1, <2>2, <2>5
<1>5. CASE x = Len(p)
  <2>1. Stands(list, blocks[c], p, WrapperNext(w, c), 0)
    BY <1>1, <1>3, <1>5, UpdateStands DEF WrapperNext
  <2>2. \A i \in 1 .. Len(p) : p[i] < p[x] + 1
    <3> TAKE i \in 1 .. Len(p)
    <3>1. i < x \/ i = x
      BY <1>2, <1>5
    <3>2. p[i] \in Nat /\ p[x] \in Nat /\ (i < x => p[i] < p[x])
      BY <1>2
    <3> QED BY <3>1, <3>2
  <2>3. FirstFrom(p, 0, p[x] + 1)
    BY <2>2 DEF FirstFrom
  <2>4. 0 \in 0 .. Len(p)
    BY <1>2
  <2> QED BY <2>1, <2>3, <2>4
<1>6. x < Len(p) \/ x = Len(p)
  BY <1>2
<1> QED BY <1>4, <1>5, <1>6

\* The child was at the first entry from k on, or at the k-th itself.
LEMMA ChildPrev ==
  ASSUME NEW list, KeysSorted(list), NEW c \in 1 .. Len(blocks), NEW p, Hand(list, blocks[c], p),
         NEW w, NEW x \in 1 .. Len(p), Stands(list, blocks[c], p, w, x),
         NEW k \in Nat, FirstFrom(p, x, k)
  PROVE  \E y \in 0 .. Len(p) : Stands(list, blocks[c], p, WrapperPrev(w, c), y) /\ LastTo(p, y, k - 1)
<1>1. w.it \in Iters /\ w.key \in Chars /\ AtEntry(blocks[c], Part(list, p), w.it, x)
  BY DEF Stands, Wrapper
<1>2. /\ Holds(blocks[c], Part(list, p)) /\ Len(p) \in Nat /\ Len(Part(list, p)) = Len(p)
      /\ \A i \in 1 .. Len(p) : p[i] \in Nat
      /\ \A i, j \in 1 .. Len(p) : i < j => p[i] < p[j]
  BY HandFacts
<1>3. /\ x > 1 => AtEntry(blocks[c], Part(list, p), IterPrev(blocks[c], w.it), x - 1)
      /\ x = 1 => AtNone(blocks[c], IterPrev(blocks[c], w.it))
  <2>1. x \in 1 .. Len(Part(list, p))
    BY <1>2
  <2> QED BY <1>1, <1>2, <2>1, PrevAt
<1>4. p[x] >= k /\ \A i \in 1 .. Len(p) : i < x => p[i] < k
  BY DEF FirstFrom
<1>5. \A i \in 1 .. Len(p) : i >= x => p[i] > k - 1
  <2> TAKE i \in 1 .. Len(p)
  <2>1. i >= x => x < i \/ i = x
    OBVIOUS
  <2>2. p[i] \in Nat /\ p[x] \in Nat /\ (x < i => p[x] < p[i])
    BY <1>2
  <2> QED BY <1>4, <2>1, <2>2
<1>6. CASE x > 1
  <2>1. x - 1 \in 1 .. Len(p) /\ x - 1 \in 0 .. Len(p) /\ x - 1 # 0 /\ x - 1 < x
    BY <1>2, <1>6
  <2>2. Stands(list, blocks[c], p, WrapperPrev(w, c), x - 1)
    BY <1>1, <1>3, <1>6, <2>1, UpdateStands DEF WrapperPrev
  <2>3. p[x - 1] < k /\ p[x - 1] \in Nat
    BY <1>2, <1>4, <2>1
  <2>4. \A i \in 1 .. Len(p) : i > x - 1 => p[i] > k - 1
    BY <1>5
  <2>5. LastTo(p, x - 1, k - 1)
    BY <2>1, <2>3, <2>4 DEF LastTo
  <2> QED BY <2>1, <2>2, <2>5
<1>7. CASE x = 1
  <2>1. Stands(list, blocks[c], p, WrapperPrev(w, c), 0)
    BY <1>1, <1>3, <1>7, UpdateStands DEF WrapperPrev
  <2>2. LastTo(p, 0, k - 1)
    BY <1>5, <1>7 DEF LastTo
  <2>3. 0 \in 0 .. Len(p)
    BY <1>2
  <2> QED BY <2>1, <2>2, <2>3
<1> QED BY <1>6, <1>7
-----------------------------------------------------------------------------
(***************************************************************************)
(* The merge chooses a child.                                              *)
(***************************************************************************)
Faces(list, b, p, w, k, forward) ==
  \E x \in 0 .. Len(p) : /\ Stands(list, b, p, w, x)
                         /\ IF forward THEN FirstFrom(p, x, k) ELSE LastTo(p, x, k)

Facing(list, bs, P, cs, k, forward) ==
  /\ cs \in Seq(Wrapper) /\ Len(cs) = Len(bs)
  /\ \A c \in 1 .. Len(bs) : Faces(list, bs[c], P[c], cs[c], k, forward)

Shows(list, b, p, w, k) == \E x \in 1 .. Len(p) : Stands(list, b, p, w, x) /\ p[x] = k

\* A child that faces k shows it, or one of the list beyond it, or is at none.
LEMMA FacesShows ==
  ASSUME NEW list, KeysSorted(list), NEW b, NEW p, Hand(list, b, p), NEW w, NEW k \in Int,
         NEW forward \in BOOLEAN, Faces(list, b, p, w, k, forward)
  PROVE  /\ w \in Wrapper /\ (~w.valid => AtNone(b, w.it))
         /\ w.valid => \E m \in 1 .. Len(list) : /\ w.key = list[m][1] /\ Shows(list, b, p, w, m)
                                                 /\ IF forward THEN m >= k ELSE m <= k
         /\ (\E i \in 1 .. Len(p) : p[i] = k) => w.valid /\ Shows(list, b, p, w, k) /\ w.key = list[k][1]
         /\ (\A i \in 1 .. Len(p) : p[i] # k) => Faces(list, b, p, w, IF forward THEN k + 1 ELSE k - 1, forward)
<1>1. PICK x \in 0 .. Len(p) : /\ Stands(list, b, p, w, x)
                               /\ IF forward THEN FirstFrom(p, x, k) ELSE LastTo(p, x, k)
  BY DEF Faces
<1>2. /\ Len(p) \in Nat /\ Len(list) \in Nat
      /\ \A i \in 1 .. Len(p) : p[i] \in 1 .. Len(list) /\ p[i] \in Nat
      /\ \A i, j \in 1 .. Len(p) : i < j => p[i] < p[j]
  BY HandFacts
<1>3. w \in Wrapper /\ (w.valid => x # 0) /\ (~w.valid => x = 0)
      /\ (x = 0 => AtNone(b, w.it)) /\ (x # 0 => w.key = list[p[x]][1])
  BY <1>1 DEF Stands
<1>4. x # 0 => x \in 1 .. Len(p)
  BY <1>2
<1>5. x # 0 => IF forward THEN p[x] >= k ELSE p[x] <= k
  BY <1>1 DEF FirstFrom, LastTo
<1>6. ASSUME w.valid
      PROVE  \E m \in 1 .. Len(list) : /\ w.key = list[m][1] /\ Shows(list, b, p, w, m)
                                       /\ IF forward THEN m >= k ELSE m <= k
  <2>1. x \in 1 .. Len(p) /\ p[x] \in 1 .. Len(list)
    BY <1>2, <1>3, <1>4, <1>6
  <2>2. Shows(list, b, p, w, p[x])
    BY <1>1, <2>1 DEF Shows
  <2> QED BY <1>3, <1>5, <1>6, <2>1, <2>2
<1>7. ASSUME NEW i \in 1 .. Len(p), p[i] = k
      PROVE  w.valid /\ Shows(list, b, p, w, k) /\ w.key = list[k][1]
  <2>1. x # 0
    BY <1>1, <1>2, <1>7 DEF FirstFrom, LastTo
  <2>2. x \in 1 .. Len(p) /\ p[x] \in Nat /\ p[i] \in Nat
    BY <1>2, <1>4, <2>1
  <2>3. x = i
    <3>1. CASE x < i
      <4>1. p[x] < p[i]
        BY <1>2, <2>2, <3>1
      <4>2. CASE forward
        BY <1>5, <1>7, <2>1, <2>2, <4>1, <4>2
      <4>3. CASE ~forward
        BY <1>1, <1>7, <2>1, <2>2, <3>1, <4>3 DEF LastTo
      <4> QED BY <4>2, <4>3
    <3>2. CASE i < x
      <4>1. p[i] < p[x]
        BY <1>2, <2>2, <3>2
      <4>2. CASE ~forward
        BY <1>5, <1>7, <2>1, <2>2, <4>1, <4>2
      <4>3. CASE forward
        BY <1>1, <1>7, <2>1, <2>2, <3>2, <4>3 DEF FirstFrom
      <4> QED BY <4>2, <4>3
    <3> QED BY <2>2, <3>1, <3>2
  <2>4. Shows(list, b, p, w, k)
    BY <1>1, <1>7, <2>2, <2>3 DEF Shows
  <2> QED BY <1>3, <1>7, <2>1, <2>3, <2>4
<1>8. ASSUME \A i \in 1 .. Len(p) : p[i] # k
      PROVE  Faces(list, b, p, w, IF forward THEN k + 1 ELSE k - 1, forward)
  <2>1. CASE forward
    <3>1. FirstFrom(p, x, k + 1)
      BY <1>1, <1>2, <1>4, <1>8, <2>1 DEF FirstFrom
    <3> QED BY <1>1, <2>1, <3>1 DEF Faces
  <2>2. CASE ~forward
    <3>1. LastTo(p, x, k - 1)
      BY <1>1, <1>2, <1>4, <1>8, <2>2 DEF LastTo
    <3> QED BY <1>1, <2>2, <3>1 DEF Faces
  <2> QED BY <2>1, <2>2
<1> QED BY <1>3, <1>6, <1>7, <1>8

Chosen(cs, forward) == IF forward THEN FindSmallest(cs) ELSE FindLargest(cs)

\* All children face k: the chosen one shows it.
LEMMA ChoiceShows ==
  ASSUME NEW list, KeysSorted(list), NEW bs, NEW P, Dealt(list, bs, P), NEW cs, NEW k \in 1 .. Len(list),
         NEW forward \in BOOLEAN, Facing(list, bs, P, cs, k, forward)
  PROVE  \E c \in 1 .. Len(bs) :
           /\ Shows(list, bs[c], P[c], cs[c], k) /\ Chosen(cs, forward) = c
           /\ \A d \in 1 .. Len(bs) \ {c} :
                Faces(list, bs[d], P[d], cs[d], IF forward THEN k + 1 ELSE k - 1, forward)
<1>1. PICK c \in 1 .. Len(bs) : \E i \in 1 .. Len(P[c]) : P[c][i] = k
  BY DEF Dealt
<1>2. \A d \in 1 .. Len(bs) : Hand(list, bs[d], P[d]) /\ Faces(list, bs[d], P[d], cs[d], k, forward)
  BY DEF Dealt, Facing
<1>3. k \in Int /\ Len(bs) \in Nat /\ Len(cs) = Len(bs)
  BY DEF Dealt, Facing
<1>4. cs[c].valid /\ Shows(list, bs[c], P[c], cs[c], k) /\ cs[c].key = list[k][1]
  BY <1>1, <1>2, <1>3, FacesShows
<1>5. \A d \in 1 .. Len(bs) : \A i \in 1 .. Len(P[d]) : P[d][i] = k => d = c
  BY <1>1 DEF Dealt
<1>6. \A d \in 1 .. Len(bs) \ {c} :
        Faces(list, bs[d], P[d], cs[d], IF forward THEN k + 1 ELSE k - 1, forward)
  <2> TAKE d \in 1 .. Len(bs) \ {c}
  <2>1. \A i \in 1 .. Len(P[d]) : P[d][i] # k
    BY <1>5
  <2> QED BY <1>2, <1>3, <2>1, FacesShows
<1>7. \A j \in ValidOf(cs) : j \in 1 .. Len(bs) /\ cs[j].valid
  BY <1>3 DEF ValidOf
<1>8. c \in ValidOf(cs)
  BY <1>3, <1>4 DEF ValidOf
<1>9. ASSUME NEW j \in ValidOf(cs)
      PROVE  \E m \in 1 .. Len(list) : /\ cs[j].key = list[m][1] /\ (m = k => j = c)
                                       /\ IF forward THEN m >= k ELSE m <= k
  <2>1. j \in 1 .. Len(bs) /\ cs[j].valid
    BY <1>7
  <2>2. PICK m \in 1 .. Len(list) : /\ cs[j].key = list[m][1] /\ Shows(list, bs[j], P[j], cs[j], m)
                                    /\ IF forward THEN m >= k ELSE m <= k
    <3>1. Hand(list, bs[j], P[j]) /\ Faces(list, bs[j], P[j], cs[j], k, forward)
      BY <1>2, <2>1
    <3>2. cs[j].valid =>
            \E m \in 1 .. Len(list) : /\ cs[j].key = list[m][1] /\ Shows(list, bs[j], P[j], cs[j], m)
                                      /\ IF forward THEN m >= k ELSE m <= k
      BY <1>3, <3>1, FacesShows
    <3> QED BY <2>1, <3>2
  <2>3. m = k => j = c
    BY <1>5, <2>1, <2>2 DEF Shows
  <2> QED BY <2>2, <2>3
<1>10. \A m \in 1 .. Len(list) : /\ KeyBefore(list[m][1], list[k][1]) <=> m < k
                                 /\ KeyBefore(list[k][1], list[m][1]) <=> k < m
                                 /\ list[m][1] = list[k][1] => m = k
  <2> TAKE m \in 1 .. Len(list)
  <2>1. /\ KeyBefore(list[m][1], list[k][1]) <=> m < k
        /\ KeyBefore(list[k][1], list[m][1]) <=> k < m
    BY DEF KeysSorted
  <2>2. list[m][1] = list[k][1] => m = k
    BY KeyPlaces
  <2> QED BY <2>1, <2>2
<1>11. CASE forward
  <2> DEFINE Best(i) == \A j \in ValidOf(cs) :
               KeyBefore(cs[i].key, cs[j].key) \/ (cs[i].key = cs[j].key /\ i <= j)
  <2>1. Best(c)
    <3> TAKE j \in ValidOf(cs)
    <3>1. PICK m \in 1 .. Len(list) : cs[j].key = list[m][1] /\ (m = k => j = c) /\ m >= k
      BY <1>9, <1>11
    <3>2. CASE m = k
      BY <1>1, <3>1, <3>2
    <3>3. CASE m # k
      <4>2. k < m
        BY <3>1, <3>3
      <4>1. KeyBefore(list[k][1], list[m][1])
        BY <1>10, <4>2, Zenon
      <4> QED BY <1>4, <3>1, <4>1
    <3> QED BY <3>2, <3>3
  <2>2. ASSUME NEW i \in ValidOf(cs), Best(i) PROVE i = c
    <3>1. KeyBefore(cs[i].key, cs[c].key) \/ cs[i].key = cs[c].key
      BY <1>8, <2>2
    <3>2. PICK m \in 1 .. Len(list) : cs[i].key = list[m][1] /\ (m = k => i = c) /\ m >= k
      BY <1>9, <1>11
    <3>3. KeyBefore(list[m][1], list[k][1]) \/ list[m][1] = list[k][1]
      BY <1>4, <3>1, <3>2
    <3>4. m < k \/ m = k
      BY <1>10, <3>3, Zenon
    <3> QED BY <3>2, <3>4
  <2>3. FindSmallest(cs) = CHOOSE i \in ValidOf(cs) : Best(i)
    BY <1>8 DEF FindSmallest
  <2> HIDE DEF Best
  <2>4. FindSmallest(cs) = c
    BY <1>8, <2>1, <2>2, <2>3
  <2> QED BY <1>4, <1>6, <1>11, <2>4 DEF Chosen
<1>12. CASE ~forward
  <2> DEFINE Best(i) == \A j \in ValidOf(cs) :
               KeyBefore(cs[j].key, cs[i].key) \/ (cs[i].key = cs[j].key /\ j <= i)
  <2>1. Best(c)
    <3> TAKE j \in ValidOf(cs)
    <3>1. PICK m \in 1 .. Len(list) : cs[j].key = list[m][1] /\ (m = k => j = c) /\ m <= k
      BY <1>9, <1>12
    <3>2. CASE m = k
      BY <1>1, <3>1, <3>2
    <3>3. CASE m # k
      <4>2. m < k
        BY <3>1, <3>3
      <4>1. KeyBefore(list[m][1], list[k][1])
        BY <1>10, <4>2, Zenon
      <4> QED BY <1>4, <3>1, <4>1
    <3> QED BY <3>2, <3>3
  <2>2. ASSUME NEW i \in ValidOf(cs), Best(i) PROVE i = c
    <3>1. KeyBefore(cs[c].key, cs[i].key) \/ cs[i].key = cs[c].key
      BY <1>8, <2>2
    <3>2. PICK m \in 1 .. Len(list) : cs[i].key = list[m][1] /\ (m = k => i = c) /\ m <= k
      BY <1>9, <1>12
    <3>3. KeyBefore(list[k][1], list[m][1]) \/ list[m][1] = list[k][1]
      BY <1>4, <3>1, <3>2
    <3>4. k < m \/ m = k
      BY <1>10, <3>3, Zenon
    <3> QED BY <3>2, <3>4
  <2>3. FindLargest(cs) = CHOOSE i \in ValidOf(cs) : Best(i)
    BY <1>8 DEF FindLargest
  <2> HIDE DEF Best
  <2>4. FindLargest(cs) = c
    BY <1>8, <2>1, <2>2, <2>3
  <2> QED BY <1>4, <1>6, <1>12, <2>4 DEF Chosen
<1> QED BY <1>11, <1>12

\* Or they face the end of the list, and none is chosen.
LEMMA NoChoice ==
  ASSUME NEW list, KeysSorted(list), NEW bs, NEW P, Dealt(list, bs, P), NEW cs, NEW k \in Int,
         NEW forward \in BOOLEAN, Facing(list, bs, P, cs, k, forward),
         IF forward THEN k > Len(list) ELSE k < 1
  PROVE  Chosen(cs, forward) = 0 /\ \A c \in 1 .. Len(bs) : AtNone(bs[c], cs[c].it)
<1>1. \A d \in 1 .. Len(bs) : Hand(list, bs[d], P[d]) /\ Faces(list, bs[d], P[d], cs[d], k, forward)
  BY DEF Dealt, Facing
<1>2. Len(list) \in Nat /\ Len(cs) = Len(bs)
  BY DEF KeysSorted, Facing
<1>3. ASSUME NEW d \in 1 .. Len(bs) PROVE ~cs[d].valid
  <2> SUFFICES ASSUME cs[d].valid PROVE FALSE
    OBVIOUS
  <2>1. PICK m \in 1 .. Len(list) : IF forward THEN m >= k ELSE m <= k
    BY <1>1, FacesShows
  <2> QED BY <1>2, <2>1
<1>4. ValidOf(cs) = {}
  BY <1>2, <1>3 DEF ValidOf
<1>5. Chosen(cs, forward) = 0
  BY <1>4 DEF Chosen, FindSmallest, FindLargest
<1>6. \A c \in 1 .. Len(bs) : AtNone(bs[c], cs[c].it)
  BY <1>1, <1>3, FacesShows
<1> QED BY <1>5, <1>6
-----------------------------------------------------------------------------
(***************************************************************************)
(* The iterator that a client holds is at the k-th entry of the list, or   *)
(* at none when k is 0.  The other children of a merge are behind it or    *)
(* before it, as the direction says.                                       *)
(***************************************************************************)
Current(cs, cur) == IF Len(cs) > 1 THEN cur ELSE 1

Tracking(list, bs, P, cs, cur, dir, k) ==
  /\ cs \in Seq(Wrapper) /\ Len(cs) = Len(bs)
  /\ k = 0 => IF Len(cs) > 1 THEN cur = 0 ELSE AtNone(bs[1], cs[1].it)
  /\ k # 0 => LET at == Current(cs, cur)
              IN  /\ at \in 1 .. Len(bs) /\ Shows(list, bs[at], P[at], cs[at], k)
                  /\ \A d \in 1 .. Len(bs) \ {at} :
                       IF dir = "kForward" THEN Faces(list, bs[d], P[d], cs[d], k + 1, TRUE)
                                           ELSE Faces(list, bs[d], P[d], cs[d], k - 1, FALSE)

\* Where it is when all children face k.
LEMMA Landing ==
  ASSUME NEW list, KeysSorted(list), NEW bs, NEW P, Dealt(list, bs, P), NEW cs, NEW k \in 0 .. Len(list) + 1,
         NEW forward \in BOOLEAN, Facing(list, bs, P, cs, k, forward),
         IF forward THEN k >= 1 ELSE k <= Len(list),
         NEW cur, NEW dir,
         Len(cs) > 1 => cur = Chosen(cs, forward) /\ dir = IF forward THEN "kForward" ELSE "kReverse"
  PROVE  Tracking(list, bs, P, cs, cur, dir, IF k > Len(list) THEN 0 ELSE k)
<1>1. cs \in Seq(Wrapper) /\ Len(cs) = Len(bs) /\ Len(bs) \in Nat /\ Len(bs) # 0 /\ Len(list) \in Nat
  BY DEF Facing, Dealt, KeysSorted
<1>2. CASE k \in 1 .. Len(list)
  <2>1. PICK c \in 1 .. Len(bs) :
           /\ Shows(list, bs[c], P[c], cs[c], k) /\ Chosen(cs, forward) = c
           /\ \A d \in 1 .. Len(bs) \ {c} :
                Faces(list, bs[d], P[d], cs[d], IF forward THEN k + 1 ELSE k - 1, forward)
    BY <1>2, ChoiceShows
  <2>2. Current(cs, cur) = c
    <3>1. CASE Len(cs) > 1
      BY <2>1, <3>1 DEF Current
    <3>2. CASE ~(Len(cs) > 1)
      <4>1. Len(bs) = 1 /\ c = 1
        BY <1>1, <3>2
      <4> QED BY <3>2, <4>1 DEF Current
    <3> QED BY <3>1, <3>2
  <2>3. ASSUME NEW d \in 1 .. Len(bs) \ {c}
        PROVE  IF dir = "kForward" THEN Faces(list, bs[d], P[d], cs[d], k + 1, TRUE)
                                   ELSE Faces(list, bs[d], P[d], cs[d], k - 1, FALSE)
    <3>1. Len(cs) > 1
      BY <1>1, <2>3
    <3>2. dir = IF forward THEN "kForward" ELSE "kReverse"
      BY <3>1
    <3>3. CASE forward
      <4>1. Faces(list, bs[d], P[d], cs[d], k + 1, TRUE)
        BY <2>1, <3>3
      <4> QED BY <3>2, <3>3, <4>1
    <3>4. CASE ~forward
      <4>1. Faces(list, bs[d], P[d], cs[d], k - 1, FALSE)
        BY <2>1, <3>4
      <4> QED BY <3>2, <3>4, <4>1
    <3> QED BY <3>3, <3>4
  <2>4. k # 0 /\ ~(k > Len(list))
    BY <1>1, <1>2
  <2>5. Tracking(list, bs, P, cs, cur, dir, k)
    BY <1>1, <2>1, <2>2, <2>3, <2>4 DEF Tracking
  <2> QED BY <2>4, <2>5
<1>3. CASE ~(k \in 1 .. Len(list))
  <2>1. k \in Int /\ (IF forward THEN k > Len(list) ELSE k < 1) /\ (IF k > Len(list) THEN 0 ELSE k) = 0
    BY <1>1, <1>3
  <2>2. Chosen(cs, forward) = 0 /\ \A c \in 1 .. Len(bs) : AtNone(bs[c], cs[c].it)
    BY <2>1, NoChoice
  <2>3. 1 \in 1 .. Len(bs)
    BY <1>1
  <2>4. Tracking(list, bs, P, cs, cur, dir, 0)
    BY <1>1, <2>2, <2>3 DEF Tracking
  <2> QED BY <2>1, <2>4
<1> QED BY <1>2, <1>3

ValidIn(bs, cs, cur) == IF Len(cs) > 1 THEN cur # 0 ELSE IterValid(bs[1], cs[1].it)
KeyIn(cs, cur) == IF Len(cs) > 1 THEN cs[Current(cs, cur)].key ELSE cs[Current(cs, cur)].it.key
ValueIn(cs, cur) == cs[Current(cs, cur)].it.value
PositionIn(list, bs, cs, cur) ==
  IF ~ValidIn(bs, cs, cur) THEN 0
  ELSE LET at == {i \in 1 .. Len(list) : list[i] = <<KeyIn(cs, cur), ValueIn(cs, cur)>>}
       IN  IF at = {} THEN Len(list) + 1 ELSE CHOOSE i \in at : TRUE

\* key() and value() are those of the k-th entry.
LEMMA TrackingShows ==
  ASSUME NEW list, KeysSorted(list), NEW bs, NEW P, Dealt(list, bs, P), NEW cs, NEW cur, NEW dir,
         NEW k \in 0 .. Len(list), Tracking(list, bs, P, cs, cur, dir, k)
  PROVE  /\ ValidIn(bs, cs, cur) <=> k # 0
         /\ k # 0 => KeyIn(cs, cur) = list[k][1]
         /\ PositionIn(list, bs, cs, cur) = k
<1> DEFINE at == Current(cs, cur)
<1>1. Len(list) \in Nat /\ Len(bs) \in Nat /\ Len(bs) # 0 /\ Len(cs) = Len(bs)
  BY DEF Dealt, KeysSorted, Tracking
<1>2. 1 \in 1 .. Len(bs)
  BY <1>1
<1>3. CASE k = 0
  <2>1. IF Len(cs) > 1 THEN cur = 0 ELSE AtNone(bs[1], cs[1].it)
    BY <1>3 DEF Tracking
  <2>2. bs[1].size \in Nat
    BY <1>2 DEF Dealt, Hand, Holds, Placed
  <2>3. ~ValidIn(bs, cs, cur)
    BY <2>1, <2>2 DEF ValidIn, AtNone, IterValid
  <2> QED BY <1>3, <2>3 DEF PositionIn
<1>4. CASE k # 0
  <2>1. at \in 1 .. Len(bs) /\ Shows(list, bs[at], P[at], cs[at], k)
    BY <1>4 DEF Tracking
  <2> HIDE DEF at
  <2>2. PICK x \in 1 .. Len(P[at]) : Stands(list, bs[at], P[at], cs[at], x) /\ P[at][x] = k
    BY <2>1 DEF Shows
  <2>3. Hand(list, bs[at], P[at])
    BY <2>1 DEF Dealt
  <2>4. /\ Holds(bs[at], Part(list, P[at])) /\ Len(Part(list, P[at])) = Len(P[at])
        /\ Part(list, P[at])[x] = list[k] /\ Len(P[at]) \in Nat
    BY <2>2, <2>3, HandFacts
  <2>5. cs[at].key = list[k][1] /\ AtEntry(bs[at], Part(list, P[at]), cs[at].it, x)
    BY <2>2 DEF Stands
  <2>6. cs[at].it.key = list[k][1] /\ cs[at].it.value = list[k][2] /\ cs[at].it.current = bs[at].entries[x].off
    BY <2>4, <2>5 DEF AtEntry
  <2>7. /\ bs[at].entries[x].off \in Nat /\ bs[at].entries[x].end \in Nat /\ bs[at].size \in Nat
        /\ bs[at].entries[x].off < bs[at].entries[x].end /\ bs[at].entries[x].end <= bs[at].size
    BY <2>4, EntryFacts
  <2>8. IterValid(bs[at], cs[at].it)
    BY <2>6, <2>7 DEF IterValid
  <2>9. ValidIn(bs, cs, cur)
    <3>1. CASE Len(cs) > 1
      BY <2>1, <3>1 DEF at, ValidIn, Current
    <3>2. CASE ~(Len(cs) > 1)
      BY <2>8, <3>2 DEF at, ValidIn, Current
    <3> QED BY <3>1, <3>2
  <2>10. KeyIn(cs, cur) = list[k][1] /\ ValueIn(cs, cur) = list[k][2]
    BY <2>5, <2>6 DEF at, KeyIn, ValueIn
  <2>11. k \in 1 .. Len(list) /\ list[k] \in Chars \X Nat
    BY <1>1, <1>4 DEF KeysSorted
  <2>12. list[k] = <<list[k][1], list[k][2]>>
    BY <2>11
  <2>13. ASSUME NEW i \in 1 .. Len(list), list[i] = <<list[k][1], list[k][2]>> PROVE i = k
    <3>1. list[i][1] = list[k][1]
      BY <2>13
    <3> QED BY <2>11, <3>1, KeyPlaces
  <2>14. {i \in 1 .. Len(list) : list[i] = <<KeyIn(cs, cur), ValueIn(cs, cur)>>} = {k}
    BY <2>10, <2>11, <2>12, <2>13
  <2>15. PositionIn(list, bs, cs, cur) = k
    BY <2>9, <2>14 DEF PositionIn
  <2> QED BY <1>4, <2>9, <2>10, <2>15
<1> QED BY <1>3, <1>4

\* The position of the refinement, in this state and the next.
LEMMA PositionNow ==
  /\ call # <<>> => Position = PositionIn(entries, blocks, children_, current_)
  /\ call' # <<>> => Position' = PositionIn(entries', blocks', children_', current_')
  /\ call # <<>> => (Valid <=> ValidIn(blocks, children_, current_))
  /\ At = Current(children_, current_) /\ Key = KeyIn(children_, current_)
<1>1. At = Current(children_, current_) /\ Key = KeyIn(children_, current_) /\ Value = ValueIn(children_, current_)
  BY DEF At, Key, Value, Current, KeyIn, ValueIn, Merging
<1>2. At' = Current(children_', current_') /\ Key' = KeyIn(children_', current_') /\ Value' = ValueIn(children_', current_')
  BY DEF At, Key, Value, Current, KeyIn, ValueIn, Merging
<1>3. call # <<>> => (Valid <=> ValidIn(blocks, children_, current_))
  BY DEF Valid, ValidIn, Merging
<1>4. call' # <<>> => (Valid' <=> ValidIn(blocks', children_', current_'))
  BY DEF Valid, ValidIn, Merging
<1>5. call # <<>> => Position = PositionIn(entries, blocks, children_, current_)
  BY <1>1, <1>3 DEF Position, PositionIn
<1>6. call' # <<>> => Position' = PositionIn(entries', blocks', children_', current_')
  BY <1>2, <1>4 DEF Position, PositionIn
<1> QED BY <1>1, <1>3, <1>5, <1>6
-----------------------------------------------------------------------------
(***************************************************************************)
(* The operations of the iterator.                                         *)
(***************************************************************************)
\* The children of an operation that moves all of them.
LEMMA FacingAll ==
  ASSUME NEW list, NEW bs, NEW P, NEW cs, NEW k, NEW forward \in BOOLEAN, Len(bs) \in Nat,
         cs = [c \in 1 .. Len(bs) |-> cs[c]],
         \A c \in 1 .. Len(bs) : Faces(list, bs[c], P[c], cs[c], k, forward)
  PROVE  Facing(list, bs, P, cs, k, forward)
<1>1. \A c \in 1 .. Len(bs) : cs[c] \in Wrapper
  BY DEF Faces, Stands
<1>2. cs \in Seq(Wrapper) /\ Len(cs) = Len(bs)
  BY <1>1
<1> QED BY <1>2 DEF Facing

\* An operation after which all children face k is at the k-th entry.
LEMMA MoveLands ==
  ASSUME NEW P, KeysSorted(entries), Dealt(entries, blocks, P), Len(children_) = Len(blocks),
         NEW op, NEW cs, NEW forward \in BOOLEAN, MoveAll(op, cs, forward),
         NEW k \in 0 .. Len(entries) + 1, IF forward THEN k >= 1 ELSE k <= Len(entries),
         cs = [c \in 1 .. Len(blocks) |-> cs[c]],
         \A c \in 1 .. Len(blocks) : Faces(entries, blocks[c], P[c], cs[c], k, forward)
  PROVE  /\ call' = op /\ UNCHANGED <<blocks, entries>>
         /\ Tracking(entries, blocks, P, children_', current_', direction_', IF k > Len(entries) THEN 0 ELSE k)
<1>1. Len(blocks) \in Nat
  BY DEF Dealt
<1>2. Facing(entries, blocks, P, cs, k, forward)
  BY <1>1, FacingAll
<1>3. Len(cs) = Len(children_)
  BY <1>2 DEF Facing
<1>4. /\ call' = op /\ UNCHANGED <<blocks, entries>> /\ children_' = cs
      /\ Len(cs) > 1 => /\ current_' = Chosen(cs, forward)
                        /\ direction_' = IF forward THEN "kForward" ELSE "kReverse"
  BY <1>3 DEF MoveAll, Merging, Chosen
<1>5. Tracking(entries, blocks, P, cs, current_', direction_', IF k > Len(entries) THEN 0 ELSE k)
  BY <1>2, <1>4, Landing
<1> QED BY <1>4, <1>5

\* What the steps start from: the k-th entry.
On(P, k) ==
  /\ call # <<>> /\ KeysSorted(entries) /\ Dealt(entries, blocks, P)
  /\ k \in 0 .. Len(entries)
  /\ Tracking(entries, blocks, P, children_, current_, direction_, k)

\* ... and where they end: the m-th.
To(P, m) ==
  /\ UNCHANGED <<blocks, entries>> /\ m \in 0 .. Len(entries)
  /\ Tracking(entries, blocks, P, children_', current_', direction_', m)

\* The types of the iterator.
LEMMA OnFacts ==
  ASSUME NEW P, NEW k, On(P, k)
  PROVE  /\ Len(entries) \in Nat /\ Len(entries) # 0 /\ Len(blocks) \in Nat /\ Len(blocks) # 0
         /\ k \in Nat /\ Len(children_) = Len(blocks)
         /\ \A c \in 1 .. Len(blocks) : children_[c] \in Wrapper /\ Hand(entries, blocks[c], P[c])
<1>1. /\ Len(entries) \in Nat /\ Len(blocks) \in Nat /\ Len(blocks) # 0 /\ children_ \in Seq(Wrapper)
      /\ Len(children_) = Len(blocks) /\ KeysSorted(entries)
  BY DEF On, KeysSorted, Dealt, Tracking
<1>2. \A c \in 1 .. Len(blocks) : children_[c] \in Wrapper /\ Hand(entries, blocks[c], P[c])
  <2>1. \A c \in 1 .. Len(blocks) : children_[c] \in Wrapper
    BY <1>1
  <2>2. \A c \in 1 .. Len(blocks) : Hand(entries, blocks[c], P[c])
    BY DEF On, Dealt
  <2> QED BY <2>1, <2>2
<1>3. Hand(entries, blocks[1], P[1])
  BY <1>1, <1>2
<1>4. Len(P[1]) \in Nat /\ Len(P[1]) # 0 /\ \A i \in 1 .. Len(P[1]) : P[1][i] \in 1 .. Len(entries)
  BY <1>1, <1>3, HandFacts
<1>5. P[1][1] \in 1 .. Len(entries)
  BY <1>4
<1>6. Len(entries) # 0
  BY <1>1, <1>5
<1>7. k \in Nat
  BY <1>1 DEF On
<1> QED BY <1>1, <1>2, <1>6, <1>7

\* Merageitor::SeekToFirst, or that of the only child.
LEMMA SeekToFirstLands ==
  ASSUME NEW P, NEW k, On(P, k), SeekToFirst
  PROVE  call' = <<"SeekToFirst">> /\ To(P, 1)
<1>1. /\ Len(entries) \in Nat /\ Len(entries) # 0 /\ Len(blocks) \in Nat /\ Len(children_) = Len(blocks)
      /\ \A c \in 1 .. Len(blocks) : children_[c] \in Wrapper /\ Hand(entries, blocks[c], P[c])
  BY OnFacts
<1>2. KeysSorted(entries) /\ Dealt(entries, blocks, P)
  BY DEF On
<1>3. PICK cs : /\ cs = [i \in 1 .. Len(blocks) |-> WrapperSeekToFirst(children_[i], i)]
                /\ MoveAll(<<"SeekToFirst">>, cs, TRUE)
  BY <1>1 DEF SeekToFirst
<1>4. ASSUME NEW c \in 1 .. Len(blocks) PROVE Faces(entries, blocks[c], P[c], cs[c], 1, TRUE)
  <2>1. cs[c] = WrapperSeekToFirst(children_[c], c)
    BY <1>3
  <2>2. \E x \in 0 .. Len(P[c]) : /\ Stands(entries, blocks[c], P[c], WrapperSeekToFirst(children_[c], c), x)
                                  /\ FirstFrom(P[c], x, 1)
    BY <1>1, <1>2, ChildSeekToFirst
  <2> QED BY <2>1, <2>2 DEF Faces
<1>5. cs = [c \in 1 .. Len(blocks) |-> cs[c]]
  BY <1>3
<1>6. 1 \in 0 .. Len(entries) + 1 /\ 1 >= 1 /\ ~(1 > Len(entries)) /\ 1 \in 0 .. Len(entries)
  BY <1>1
<1>7. /\ call' = <<"SeekToFirst">> /\ UNCHANGED <<blocks, entries>>
      /\ Tracking(entries, blocks, P, children_', current_', direction_', IF 1 > Len(entries) THEN 0 ELSE 1)
  BY <1>1, <1>2, <1>3, <1>4, <1>5, <1>6, MoveLands
<1> QED BY <1>6, <1>7 DEF To

\* Merageitor::SeekToLast.
LEMMA SeekToLastLands ==
  ASSUME NEW P, NEW k, On(P, k), SeekToLast
  PROVE  call' = <<"SeekToLast">> /\ To(P, Len(entries))
<1>1. /\ Len(entries) \in Nat /\ Len(entries) # 0 /\ Len(blocks) \in Nat /\ Len(children_) = Len(blocks)
      /\ \A c \in 1 .. Len(blocks) : children_[c] \in Wrapper /\ Hand(entries, blocks[c], P[c])
  BY OnFacts
<1>2. KeysSorted(entries) /\ Dealt(entries, blocks, P)
  BY DEF On
<1>3. PICK cs : /\ cs = [i \in 1 .. Len(blocks) |-> WrapperSeekToLast(children_[i], i)]
                /\ MoveAll(<<"SeekToLast">>, cs, FALSE)
  BY <1>1 DEF SeekToLast
<1>8. PICK n \in Nat : n = Len(entries)
  BY <1>1
<1>4. ASSUME NEW c \in 1 .. Len(blocks) PROVE Faces(entries, blocks[c], P[c], cs[c], n, FALSE)
  <2>1. cs[c] = WrapperSeekToLast(children_[c], c)
    BY <1>3
  <2>2. Hand(entries, blocks[c], P[c]) /\ children_[c] \in Wrapper
    BY <1>1
  <2>3. \A i \in 1 .. Len(P[c]) : P[c][i] <= n
    <3>1. \A i \in 1 .. Len(P[c]) : P[c][i] \in 1 .. Len(entries)
      BY <1>2, <2>2, HandFacts
    <3> QED BY <1>8, <3>1
  <2>4. \E x \in 0 .. Len(P[c]) : /\ Stands(entries, blocks[c], P[c], WrapperSeekToLast(children_[c], c), x)
                                  /\ LastTo(P[c], x, n)
    <3>1. n \in Int
      OBVIOUS
    <3> QED BY <1>2, <2>2, <2>3, <3>1, ChildSeekToLast
  <2> QED BY <2>1, <2>4 DEF Faces
<1>5. cs = [c \in 1 .. Len(blocks) |-> cs[c]]
  BY <1>3
<1>6. n \in 0 .. Len(entries) + 1 /\ n <= Len(entries) /\ ~(n > Len(entries)) /\ n \in 0 .. Len(entries)
  BY <1>8
<1>7. /\ call' = <<"SeekToLast">> /\ UNCHANGED <<blocks, entries>>
      /\ Tracking(entries, blocks, P, children_', current_', direction_', IF n > Len(entries) THEN 0 ELSE n)
  BY <1>1, <1>2, <1>3, <1>4, <1>5, <1>6, MoveLands
<1> QED BY <1>6, <1>7, <1>8 DEF To

\* Merageitor::Seek, to the first entry that is not before the target.
LEMMA SeekLands ==
  ASSUME NEW P, NEW k, On(P, k), NEW target, SeekTarget(target), NEW m \in 1 .. Len(entries) + 1,
         \A i \in 1 .. Len(entries) : KeyBefore(entries[i][1], target) <=> i < m
  PROVE  call' = <<"Seek", target>> /\ To(P, IF m > Len(entries) THEN 0 ELSE m)
<1>1. /\ Len(entries) \in Nat /\ Len(entries) # 0 /\ Len(blocks) \in Nat /\ Len(children_) = Len(blocks)
      /\ \A c \in 1 .. Len(blocks) : children_[c] \in Wrapper /\ Hand(entries, blocks[c], P[c])
  BY OnFacts
<1>2. KeysSorted(entries) /\ Dealt(entries, blocks, P)
  BY DEF On
<1>3. PICK cs : /\ cs = [i \in 1 .. Len(blocks) |-> WrapperSeek(children_[i], i, target)]
                /\ MoveAll(<<"Seek", target>>, cs, TRUE)
  BY <1>1 DEF SeekTarget
<1>4. ASSUME NEW c \in 1 .. Len(blocks) PROVE Faces(entries, blocks[c], P[c], cs[c], m, TRUE)
  <2>1. cs[c] = WrapperSeek(children_[c], c, target)
    BY <1>3
  <2>2. Hand(entries, blocks[c], P[c]) /\ children_[c] \in Wrapper
    BY <1>1
  <2>3. \E x \in 0 .. Len(P[c]) : /\ Stands(entries, blocks[c], P[c], WrapperSeek(children_[c], c, target), x)
                                  /\ FirstFrom(P[c], x, m)
    BY <1>2, <2>2, ChildSeek
  <2> QED BY <2>1, <2>3 DEF Faces
<1>5. cs = [c \in 1 .. Len(blocks) |-> cs[c]]
  BY <1>3
<1>6. m \in 0 .. Len(entries) + 1 /\ m >= 1 /\ (IF m > Len(entries) THEN 0 ELSE m) \in 0 .. Len(entries)
  BY <1>1
<1>7. /\ call' = <<"Seek", target>> /\ UNCHANGED <<blocks, entries>>
      /\ Tracking(entries, blocks, P, children_', current_', direction_', IF m > Len(entries) THEN 0 ELSE m)
  BY <1>1, <1>2, <1>3, <1>4, <1>5, <1>6, MoveLands
<1> QED BY <1>6, <1>7 DEF To

\* The key of the current child, as a target for the others.
LEMMA KeySeek ==
  ASSUME NEW P, NEW k, On(P, k), k # 0, NEW c \in 1 .. Len(blocks)
  PROVE  \E x \in 0 .. Len(P[c]) : /\ Stands(entries, blocks[c], P[c], WrapperSeek(children_[c], c, Key), x)
                                   /\ FirstFrom(P[c], x, k)
<1>1. Len(entries) \in Nat /\ children_[c] \in Wrapper /\ Hand(entries, blocks[c], P[c])
  BY OnFacts
<1>2. KeysSorted(entries) /\ Dealt(entries, blocks, P) /\ k \in 0 .. Len(entries)
      /\ Tracking(entries, blocks, P, children_, current_, direction_, k)
  BY DEF On
<1>3. Key = entries[k][1]
  BY <1>2, TrackingShows, PositionNow
<1>4. k \in 1 .. Len(entries) + 1 /\ k \in 1 .. Len(entries)
  BY <1>1, <1>2
<1>5. \A i \in 1 .. Len(entries) : KeyBefore(entries[i][1], Key) <=> i < k
  BY <1>2, <1>3, <1>4 DEF KeysSorted
<1> QED BY <1>1, <1>2, <1>4, <1>5, ChildSeek

\* Next turns the other children round, so that all are behind the current key,
LEMMA TurnedForward ==
  ASSUME NEW P, NEW k, On(P, k), k # 0, NEW c \in 1 .. Len(blocks), c # At
  PROVE  Faces(entries, blocks[c], P[c], TurnForward[c], k + 1, TRUE)
<1>1. /\ Len(entries) \in Nat /\ children_[c] \in Wrapper /\ Hand(entries, blocks[c], P[c])
      /\ Len(children_) = Len(blocks) /\ k \in Nat
  BY OnFacts
<1>2. KeysSorted(entries) /\ Dealt(entries, blocks, P) /\ k \in 1 .. Len(entries)
      /\ Tracking(entries, blocks, P, children_, current_, direction_, k)
  BY <1>1 DEF On
<1>3. /\ At \in 1 .. Len(blocks) /\ Shows(entries, blocks[At], P[At], children_[At], k)
      /\ direction_ = "kForward" => Faces(entries, blocks[c], P[c], children_[c], k + 1, TRUE)
  BY <1>2, PositionNow DEF Tracking
<1>4. CASE direction_ = "kForward"
  <2>1. TurnForward[c] = children_[c]
    BY <1>1, <1>4 DEF TurnForward
  <2> QED BY <1>3, <1>4, <2>1
<1>5. CASE direction_ # "kForward"
  <2>1. PICK w : w = WrapperSeek(children_[c], c, Key)
    OBVIOUS
  <2>2. TurnForward[c] = IF w.valid /\ w.key = Key THEN WrapperNext(w, c) ELSE w
    BY <1>1, <1>5, <2>1 DEF TurnForward
  <2>3. Faces(entries, blocks[c], P[c], w, k, TRUE)
    BY <2>1, KeySeek DEF Faces
  <2>4. \A i \in 1 .. Len(P[c]) : P[c][i] # k
    <3>1. PICK x \in 1 .. Len(P[At]) : P[At][x] = k
      BY <1>3 DEF Shows
    <3> QED BY <1>2, <1>3, <3>1 DEF Dealt
  <2>5. k \in Int /\ TRUE \in BOOLEAN
    BY <1>1
  <2>6. Faces(entries, blocks[c], P[c], w, IF TRUE THEN k + 1 ELSE k - 1, TRUE)
    BY <1>1, <1>2, <2>3, <2>4, <2>5, FacesShows
  <2>7. ~(w.valid /\ w.key = Key)
    <3> SUFFICES ASSUME w.valid, w.key = Key PROVE FALSE
      OBVIOUS
    <3>1. w.valid => \E m \in 1 .. Len(entries) : /\ w.key = entries[m][1] /\ Shows(entries, blocks[c], P[c], w, m)
                                                  /\ IF TRUE THEN m >= k ELSE m <= k
      BY <1>1, <1>2, <2>3, <2>5, FacesShows
    <3>2. PICK m \in 1 .. Len(entries) : w.key = entries[m][1] /\ Shows(entries, blocks[c], P[c], w, m)
      BY <3>1
    <3>3. Key = entries[k][1]
      BY <1>1, <1>2, TrackingShows, PositionNow
    <3>4. m = k
      BY <1>2, <3>2, <3>3, KeyPlaces
    <3> QED BY <2>4, <3>2, <3>4 DEF Shows
  <2> QED BY <2>2, <2>6, <2>7
<1> QED BY <1>4, <1>5

\* ... and Prev so that all are before it.
LEMMA TurnedBackward ==
  ASSUME NEW P, NEW k, On(P, k), k # 0, NEW c \in 1 .. Len(blocks), c # At
  PROVE  Faces(entries, blocks[c], P[c], TurnBackward[c], k - 1, FALSE)
<1>1. /\ Len(entries) \in Nat /\ children_[c] \in Wrapper /\ Hand(entries, blocks[c], P[c])
      /\ Len(children_) = Len(blocks) /\ k \in Nat
  BY OnFacts
<1>2. KeysSorted(entries) /\ Dealt(entries, blocks, P) /\ k \in 1 .. Len(entries)
      /\ Tracking(entries, blocks, P, children_, current_, direction_, k)
  BY <1>1 DEF On
<1>3. direction_ = "kReverse" => Faces(entries, blocks[c], P[c], children_[c], k - 1, FALSE)
  <2>1. "kReverse" # "kForward"
    OBVIOUS
  <2> QED BY <1>2, <2>1, PositionNow DEF Tracking
<1>4. CASE direction_ = "kReverse"
  <2>1. TurnBackward[c] = children_[c]
    BY <1>1, <1>4 DEF TurnBackward
  <2> QED BY <1>3, <1>4, <2>1
<1>5. CASE direction_ # "kReverse"
  <2>1. PICK w : w = WrapperSeek(children_[c], c, Key)
    OBVIOUS
  <2>2. TurnBackward[c] = IF w.valid THEN WrapperPrev(w, c) ELSE WrapperSeekToLast(w, c)
    BY <1>1, <1>5, <2>1 DEF TurnBackward
  <2>3. PICK x \in 0 .. Len(P[c]) : Stands(entries, blocks[c], P[c], w, x) /\ FirstFrom(P[c], x, k)
    BY <2>1, KeySeek
  <2>4. w \in Wrapper /\ (w.valid => x # 0) /\ (~w.valid => x = 0)
    BY <2>3 DEF Stands
  <2>5. Len(P[c]) \in Nat /\ \A i \in 1 .. Len(P[c]) : P[c][i] \in Nat
    BY <1>1, <1>2, HandFacts
  <2>6. CASE w.valid
    <3>1. x \in 1 .. Len(P[c])
      BY <2>4, <2>5, <2>6
    <3>2. \E y \in 0 .. Len(P[c]) : Stands(entries, blocks[c], P[c], WrapperPrev(w, c), y) /\ LastTo(P[c], y, k - 1)
      BY <1>1, <1>2, <2>3, <3>1, ChildPrev
    <3> QED BY <2>2, <2>6, <3>2 DEF Faces
  <2>7. CASE ~w.valid
    <3>1. \A i \in 1 .. Len(P[c]) : P[c][i] <= k - 1
      BY <1>1, <2>3, <2>4, <2>5, <2>7 DEF FirstFrom
    <3>2. k - 1 \in Int
      BY <1>1
    <3>3. \E y \in 0 .. Len(P[c]) : Stands(entries, blocks[c], P[c], WrapperSeekToLast(w, c), y) /\ LastTo(P[c], y, k - 1)
      BY <1>1, <1>2, <2>4, <3>1, <3>2, ChildSeekToLast
    <3> QED BY <2>2, <2>7, <3>3 DEF Faces
  <2> QED BY <2>6, <2>7
<1> QED BY <1>4, <1>5

\* Merageitor::Next.
LEMMA NextLands ==
  ASSUME NEW P, NEW k, On(P, k), NextEntry
  PROVE  k # 0 /\ call' = <<"Next">> /\ To(P, IF k = Len(entries) THEN 0 ELSE k + 1)
<1>1. /\ Len(entries) \in Nat /\ Len(entries) # 0 /\ Len(blocks) \in Nat /\ Len(children_) = Len(blocks)
      /\ \A c \in 1 .. Len(blocks) : children_[c] \in Wrapper /\ Hand(entries, blocks[c], P[c])
  BY OnFacts
<1>2. KeysSorted(entries) /\ Dealt(entries, blocks, P) /\ call # <<>> /\ k \in 0 .. Len(entries)
      /\ Tracking(entries, blocks, P, children_, current_, direction_, k)
  BY DEF On
<1>3. k # 0
  <2>1. Valid
    BY DEF NextEntry
  <2> QED BY <1>2, <2>1, PositionNow, TrackingShows
<1>4. PICK a \in 1 .. Len(blocks) : a = At /\ Shows(entries, blocks[a], P[a], children_[a], k)
  BY <1>2, <1>3, PositionNow DEF Tracking
<1>5. PICK t : t = TurnForward
  OBVIOUS
<1>6. t[a] = children_[a] /\ DOMAIN t = 1 .. Len(blocks) /\ t = [i \in 1 .. Len(blocks) |-> t[i]]
  BY <1>1, <1>4, <1>5 DEF TurnForward
<1>7. PICK cs : cs = [t EXCEPT ![a] = WrapperNext(@, a)] /\ MoveAll(<<"Next">>, cs, TRUE)
  BY <1>4, <1>5 DEF NextEntry
<1>8. /\ cs = [c \in 1 .. Len(blocks) |-> cs[c]] /\ cs[a] = WrapperNext(children_[a], a)
      /\ \A c \in 1 .. Len(blocks) : c # a => cs[c] = t[c]
  BY <1>4, <1>6, <1>7
<1>9. ASSUME NEW c \in 1 .. Len(blocks) PROVE Faces(entries, blocks[c], P[c], cs[c], k + 1, TRUE)
  <2>1. CASE c = a
    <3>1. PICK x \in 1 .. Len(P[a]) : Stands(entries, blocks[a], P[a], children_[a], x) /\ P[a][x] = k
      BY <1>4 DEF Shows
    <3>2. Hand(entries, blocks[a], P[a])
      BY <1>1
    <3>3. \E y \in 0 .. Len(P[a]) : /\ Stands(entries, blocks[a], P[a], WrapperNext(children_[a], a), y)
                                    /\ FirstFrom(P[a], y, P[a][x] + 1)
      BY <1>2, <3>1, <3>2, ChildNext
    <3> QED BY <1>8, <2>1, <3>1, <3>3 DEF Faces
  <2>2. CASE c # a
    BY <1>3, <1>4, <1>5, <1>8, <2>2, TurnedForward
  <2> QED BY <2>1, <2>2
<1>10. /\ k + 1 \in 0 .. Len(entries) + 1 /\ k + 1 >= 1
       /\ (IF k + 1 > Len(entries) THEN 0 ELSE k + 1) = IF k = Len(entries) THEN 0 ELSE k + 1
       /\ (IF k = Len(entries) THEN 0 ELSE k + 1) \in 0 .. Len(entries)
  BY <1>1, <1>2
<1>11. /\ call' = <<"Next">> /\ UNCHANGED <<blocks, entries>>
       /\ Tracking(entries, blocks, P, children_', current_', direction_', IF k + 1 > Len(entries) THEN 0 ELSE k + 1)
  BY <1>1, <1>2, <1>7, <1>8, <1>9, <1>10, MoveLands
<1> QED BY <1>3, <1>10, <1>11 DEF To

\* Merageitor::Prev.
LEMMA PrevLands ==
  ASSUME NEW P, NEW k, On(P, k), PrevEntry
  PROVE  k # 0 /\ call' = <<"Prev">> /\ To(P, k - 1)
<1>1. /\ Len(entries) \in Nat /\ Len(entries) # 0 /\ Len(blocks) \in Nat /\ Len(children_) = Len(blocks)
      /\ \A c \in 1 .. Len(blocks) : children_[c] \in Wrapper /\ Hand(entries, blocks[c], P[c])
  BY OnFacts
<1>2. KeysSorted(entries) /\ Dealt(entries, blocks, P) /\ call # <<>> /\ k \in 0 .. Len(entries)
      /\ Tracking(entries, blocks, P, children_, current_, direction_, k)
  BY DEF On
<1>3. k # 0
  <2>1. Valid
    BY DEF PrevEntry
  <2> QED BY <1>2, <2>1, PositionNow, TrackingShows
<1>4. PICK a \in 1 .. Len(blocks) : a = At /\ Shows(entries, blocks[a], P[a], children_[a], k)
  BY <1>2, <1>3, PositionNow DEF Tracking
<1>5. PICK t : t = TurnBackward
  OBVIOUS
<1>6. t[a] = children_[a] /\ DOMAIN t = 1 .. Len(blocks) /\ t = [i \in 1 .. Len(blocks) |-> t[i]]
  BY <1>1, <1>4, <1>5 DEF TurnBackward
<1>7. PICK cs : cs = [t EXCEPT ![a] = WrapperPrev(@, a)] /\ MoveAll(<<"Prev">>, cs, FALSE)
  BY <1>4, <1>5 DEF PrevEntry
<1>8. /\ cs = [c \in 1 .. Len(blocks) |-> cs[c]] /\ cs[a] = WrapperPrev(children_[a], a)
      /\ \A c \in 1 .. Len(blocks) : c # a => cs[c] = t[c]
  BY <1>4, <1>6, <1>7
<1>9. ASSUME NEW c \in 1 .. Len(blocks) PROVE Faces(entries, blocks[c], P[c], cs[c], k - 1, FALSE)
  <2>1. CASE c = a
    <3>1. PICK x \in 1 .. Len(P[a]) : Stands(entries, blocks[a], P[a], children_[a], x) /\ P[a][x] = k
      BY <1>4 DEF Shows
    <3>2. Hand(entries, blocks[a], P[a])
      BY <1>1
    <3>3. FirstFrom(P[a], x, k) /\ k \in Nat
      <4>1. /\ Len(P[a]) \in Nat /\ \A i \in 1 .. Len(P[a]) : P[a][i] \in Nat
            /\ \A i, j \in 1 .. Len(P[a]) : i < j => P[a][i] < P[a][j]
        BY <1>2, <3>2, HandFacts
      <4> QED BY <3>1, <4>1 DEF FirstFrom
    <3>4. \E y \in 0 .. Len(P[a]) : /\ Stands(entries, blocks[a], P[a], WrapperPrev(children_[a], a), y)
                                    /\ LastTo(P[a], y, k - 1)
      BY <1>2, <3>1, <3>2, <3>3, ChildPrev
    <3> QED BY <1>8, <2>1, <3>4 DEF Faces
  <2>2. CASE c # a
    BY <1>3, <1>4, <1>5, <1>8, <2>2, TurnedBackward
  <2> QED BY <2>1, <2>2
<1>10. k - 1 \in 0 .. Len(entries) + 1 /\ k - 1 <= Len(entries) /\ ~(k - 1 > Len(entries)) /\ k - 1 \in 0 .. Len(entries)
  BY <1>1, <1>2, <1>3
<1>11. /\ call' = <<"Prev">> /\ UNCHANGED <<blocks, entries>>
       /\ Tracking(entries, blocks, P, children_', current_', direction_', IF k - 1 > Len(entries) THEN 0 ELSE k - 1)
  BY <1>1, <1>2, <1>7, <1>8, <1>9, <1>10, MoveLands
<1> QED BY <1>3, <1>10, <1>11 DEF To
-----------------------------------------------------------------------------
(***************************************************************************)
(* From the memtables to the iterator.  Shelf: block c has the nodes N[c], *)
(* and together the blocks have those of the first n entries of a.         *)
(***************************************************************************)
NodeAt(a, s) == Node(a[s].key, a[s].seq, a[s].type, a[s].val)

Shelf(N, bs, a, n) ==
  /\ \A c \in 1 .. Len(bs) : /\ N[c] \in Seq(NodeSet) /\ Len(N[c]) # 0 /\ Ascending(N[c])
                             /\ Holds(bs[c], ListOf(N[c]))
                             /\ \A i \in 1 .. Len(N[c]) : \E s \in 1 .. n : N[c][i] = NodeAt(a, s)
  /\ \A s \in 1 .. n : \E c \in 1 .. Len(bs) : \E i \in 1 .. Len(N[c]) : N[c][i] = NodeAt(a, s)
  /\ \A c, d \in 1 .. Len(bs) : \A i \in 1 .. Len(N[c]), j \in 1 .. Len(N[d]) : N[c][i] = N[d][j] => c = d

\* The nodes of entries are unlike.
LEMMA NodesUnlike ==
  ASSUME TableType, Numbered, NEW lo \in Nat
  PROVE  /\ \A s \in 1 .. Len(adds) : NodeAt(adds, s) = NodeOf(s) /\ NodeOf(s) \in NodeSet
         /\ \A r, s \in 1 .. Len(adds) : NodeOf(r).key = NodeOf(s).key /\ NodeOf(r).tag = NodeOf(s).tag => r = s
         /\ {NodeOf(s) : s \in lo + 1 .. Len(adds)} \subseteq NodeSet
         /\ IsFiniteSet({NodeOf(s) : s \in lo + 1 .. Len(adds)})
         /\ Unlike({NodeOf(s) : s \in lo + 1 .. Len(adds)})
<1>1. Len(adds) \in Nat
  BY DEF TableType
<1>2. \A s \in 1 .. Len(adds) : NodeOf(s) \in NodeSet
  BY NodeFields DEF NodeSet
<1>3. ASSUME NEW r \in 1 .. Len(adds), NEW s \in 1 .. Len(adds),
             NodeOf(r).key = NodeOf(s).key, NodeOf(r).tag = NodeOf(s).tag
      PROVE  r = s
  <2>1. adds[r].key = adds[s].key /\ TagNo(r) = TagNo(s)
    BY <1>3, NodeFields
  <2>2. adds[r].seq = adds[s].seq /\ adds[r].type = adds[s].type
    BY <2>1, TagSplits
  <2> QED BY <2>1, <2>2 DEF Numbered, Distinct
<1>4. \A s \in lo + 1 .. Len(adds) : s \in 1 .. Len(adds)
  BY <1>1
<1> DEFINE I == lo + 1 .. Len(adds)
           T == {NodeOf(s) : s \in I}
<1>5. T \subseteq NodeSet
  BY <1>2, <1>4
<1>6. Unlike(T)
  <2> SUFFICES ASSUME NEW a \in T, NEW b \in T, a.key = b.key, a.tag = b.tag PROVE a = b
    BY DEF Unlike
  <2>1. PICK r \in I, s \in I : a = NodeOf(r) /\ b = NodeOf(s)
    OBVIOUS
  <2>2. r = s
    BY <1>3, <1>4, <2>1
  <2> QED BY <2>1, <2>2
<1>7. IsFiniteSet(I)
  <2>1. lo + 1 \in Int /\ Len(adds) \in Int
    BY <1>1
  <2> QED BY <2>1, FS_Interval
<1>8. IsFiniteSet(T)
  <2> HIDE DEF I
  <2>1. PICK f : f = [s \in I |-> NodeOf(s)]
    OBVIOUS
  <2>2. f \in Surjection(I, T)
    <3>1. f \in [I -> T]
      BY <2>1
    <3>2. \A n \in T : \E s \in I : f[s] = n
      BY <2>1
    <3> HIDE DEF T
    <3> QED BY <3>1, <3>2 DEF Surjection
  <2> HIDE DEF T
  <2> QED BY <1>7, <2>2, FS_Surjection
<1>9. \A s \in 1 .. Len(adds) : NodeAt(adds, s) = NodeOf(s)
  BY DEF NodeAt, NodeOf
<1> QED BY <1>2, <1>3, <1>5, <1>6, <1>8, <1>9

\* A flush writes one block more.
LEMMA ShelfGrows ==
  ASSUME ReadInv, blocks \in Seq(BlockRecord), NEW N, Shelf(N, blocks, adds, born), table # {}
  PROVE  /\ Append(blocks, BlockOf(InOrder(table))) \in Seq(BlockRecord)
         /\ \E M : Shelf(M, Append(blocks, BlockOf(InOrder(table))), adds, Len(adds))
<1>1. TableType /\ Numbered /\ table = {NodeOf(s) : s \in born + 1 .. Len(adds)}
  BY DEF ReadInv, TableHeld
<1>2. born \in Nat /\ Len(adds) \in Nat /\ born <= Len(adds) /\ Len(blocks) \in Nat
  BY <1>1 DEF TableType
<1>3. table \subseteq NodeSet /\ IsFiniteSet(table) /\ Unlike(table)
  BY <1>1, <1>2, NodesUnlike
<1>4. /\ \A s \in 1 .. Len(adds) : NodeAt(adds, s) = NodeOf(s) /\ NodeOf(s) \in NodeSet
      /\ \A r, s \in 1 .. Len(adds) : NodeOf(r).key = NodeOf(s).key /\ NodeOf(r).tag = NodeOf(s).tag => r = s
  BY <1>1, <1>2, NodesUnlike
<1>5. PICK q : q = InOrder(table)
  OBVIOUS
<1>6. /\ q \in Seq(NodeSet) /\ Ascending(q)
      /\ \A i \in 1 .. Len(q) : q[i] \in table
      /\ \A n \in table : \E i \in 1 .. Len(q) : q[i] = n
  BY <1>3, <1>5, InOrderLists
<1>7. Len(q) \in Nat /\ Len(q) # 0
  <2>1. PICK n \in table : TRUE
    OBVIOUS
  <2>2. PICK i \in 1 .. Len(q) : q[i] = n
    BY <1>6, <2>1
  <2> QED BY <1>6, <2>2
<1>8. PICK b : b = BlockOf(q) /\ b \in BlockRecord /\ Holds(b, ListOf(q))
  BY <1>6, BlockOfHolds DEF Building
<1>9. PICK n \in Nat : n = Len(blocks)
  BY <1>2
<1>10. PICK bs : /\ bs = Append(blocks, b) /\ bs \in Seq(BlockRecord) /\ Len(bs) = n + 1 /\ bs[n + 1] = b
                 /\ \A c \in 1 .. n : bs[c] = blocks[c]
  <2>1. PICK D : D = BlockRecord
    OBVIOUS
  <2>2. /\ Append(blocks, b) \in Seq(D) /\ Len(Append(blocks, b)) = Len(blocks) + 1
        /\ \A c \in 1 .. Len(blocks) + 1 : Append(blocks, b)[c] = IF c = Len(blocks) + 1 THEN b ELSE blocks[c]
    BY <1>8, <2>1, AppendFacts
  <2>3. PICK bs : bs = Append(blocks, b)
    OBVIOUS
  <2>4. bs \in Seq(D) /\ Len(bs) = n + 1 /\ \A c \in 1 .. n + 1 : bs[c] = IF c = n + 1 THEN b ELSE blocks[c]
    BY <1>9, <2>2, <2>3, Zenon
  <2>5. bs[n + 1] = b /\ \A c \in 1 .. n : bs[c] = blocks[c]
    BY <2>4
  <2> QED BY <2>1, <2>3, <2>4, <2>5
<1>11. PICK M : M = [c \in 1 .. n + 1 |-> IF c = n + 1 THEN q ELSE N[c]]
  OBVIOUS
<1>12. M[n + 1] = q /\ (\A c \in 1 .. n : M[c] = N[c]) /\ \A c \in 1 .. n + 1 : c = n + 1 \/ c \in 1 .. n
  BY <1>9, <1>11
<1>13. ASSUME NEW i \in 1 .. Len(q) PROVE \E s \in 1 .. Len(adds) : s > born /\ q[i] = NodeAt(adds, s)
  <2>1. PICK s \in born + 1 .. Len(adds) : q[i] = NodeOf(s)
    BY <1>1, <1>6
  <2>2. s \in 1 .. Len(adds) /\ s > born
    BY <1>2
  <2> QED BY <1>4, <2>1, <2>2
<1>14. ASSUME NEW c \in 1 .. n, NEW i \in 1 .. Len(N[c])
       PROVE  \E s \in 1 .. Len(adds) : s <= born /\ N[c][i] = NodeAt(adds, s)
  <2>1. PICK s \in 1 .. born : N[c][i] = NodeAt(adds, s)
    BY <1>9 DEF Shelf
  <2>2. s \in 1 .. Len(adds) /\ s <= born
    BY <1>2
  <2> QED BY <2>1, <2>2
<1>15. ASSUME NEW c \in 1 .. n, NEW i \in 1 .. Len(N[c]), NEW j \in 1 .. Len(q) PROVE N[c][i] # q[j]
  <2> SUFFICES ASSUME N[c][i] = q[j] PROVE FALSE
    OBVIOUS
  <2>1. PICK r \in 1 .. Len(adds) : r <= born /\ N[c][i] = NodeAt(adds, r)
    BY <1>14
  <2>2. PICK s \in 1 .. Len(adds) : s > born /\ q[j] = NodeAt(adds, s)
    BY <1>13
  <2>3. NodeOf(r) = NodeOf(s)
    BY <1>4, <2>1, <2>2
  <2>4. r = s
    BY <1>4, <2>3
  <2> QED BY <1>2, <2>1, <2>2, <2>4
<1>16. ASSUME NEW c \in 1 .. n + 1
       PROVE  /\ M[c] \in Seq(NodeSet) /\ Len(M[c]) # 0 /\ Ascending(M[c])
              /\ Holds(bs[c], ListOf(M[c]))
              /\ \A i \in 1 .. Len(M[c]) : \E s \in 1 .. Len(adds) : M[c][i] = NodeAt(adds, s)
  <2>1. CASE c = n + 1
    BY <1>6, <1>7, <1>8, <1>10, <1>12, <1>13, <2>1
  <2>2. CASE c \in 1 .. n
    <3>1. M[c] = N[c] /\ bs[c] = blocks[c]
      BY <1>10, <1>12, <2>2
    <3>2. /\ N[c] \in Seq(NodeSet) /\ Len(N[c]) # 0 /\ Ascending(N[c])
          /\ Holds(blocks[c], ListOf(N[c]))
      BY <1>9, <2>2 DEF Shelf
    <3> QED BY <1>14, <2>2, <3>1, <3>2
  <2> QED BY <1>12, <2>1, <2>2
<1>17. ASSUME NEW s \in 1 .. Len(adds)
       PROVE  \E c \in 1 .. n + 1 : \E i \in 1 .. Len(M[c]) : M[c][i] = NodeAt(adds, s)
  <2>1. CASE s <= born
    <3>1. s \in 1 .. born
      BY <1>2, <2>1
    <3>2. PICK c \in 1 .. n : \E i \in 1 .. Len(N[c]) : N[c][i] = NodeAt(adds, s)
      BY <1>9, <3>1 DEF Shelf
    <3>3. c \in 1 .. n + 1 /\ M[c] = N[c]
      BY <1>12
    <3> QED BY <3>2, <3>3
  <2>2. CASE s > born
    <3>1. s \in born + 1 .. Len(adds)
      BY <1>2, <2>2
    <3>2. NodeOf(s) \in table
      BY <1>1, <3>1
    <3>3. PICK i \in 1 .. Len(q) : q[i] = NodeAt(adds, s)
      BY <1>4, <1>6, <3>2
    <3>4. n + 1 \in 1 .. n + 1
      OBVIOUS
    <3> QED BY <1>12, <3>3, <3>4
  <2> QED BY <1>2, <2>1, <2>2
<1>18. ASSUME NEW c \in 1 .. n + 1, NEW d \in 1 .. n + 1, NEW i \in 1 .. Len(M[c]), NEW j \in 1 .. Len(M[d]),
              M[c][i] = M[d][j]
       PROVE  c = d
  <2>1. CASE c \in 1 .. n /\ d \in 1 .. n
    <3>1. M[c] = N[c] /\ M[d] = N[d]
      BY <1>12, <2>1
    <3>2. \A e, f \in 1 .. n : \A x \in 1 .. Len(N[e]), y \in 1 .. Len(N[f]) : N[e][x] = N[f][y] => e = f
      BY <1>9 DEF Shelf
    <3>3. i \in 1 .. Len(N[c]) /\ j \in 1 .. Len(N[d]) /\ N[c][i] = N[d][j]
      BY <1>18, <3>1
    <3> QED BY <2>1, <3>2, <3>3
  <2>2. CASE c \in 1 .. n /\ d = n + 1
    BY <1>12, <1>15, <1>18, <2>2
  <2>3. CASE c = n + 1 /\ d \in 1 .. n
    BY <1>12, <1>15, <1>18, <2>3
  <2> QED BY <1>12, <2>1, <2>2, <2>3
<1>19. Shelf(M, bs, adds, Len(adds))
  BY <1>10, <1>16, <1>17, <1>18 DEF Shelf
<1> QED BY <1>5, <1>8, <1>10, <1>19

\* A list of all nodes in order is sorted, and a target splits it.
LEMMA ListSorted ==
  ASSUME NEW all \in Seq(NodeSet), Ascending(all)
  PROVE  /\ KeysSorted(ListOf(all)) /\ \A t \in SeekTargets : Splits(ListOf(all), t)
         /\ \A j, k \in 1 .. Len(all) : Before(all[j], all[k]) <=> j < k
         /\ \A j, k \in 1 .. Len(all) : all[j] = all[k] => j = k
<1>1. /\ ListOf(all) \in Seq(Chars \X Nat) /\ Len(ListOf(all)) = Len(all) /\ Len(all) \in Nat
      /\ \A i \in 1 .. Len(all) : ListOf(all)[i] = EntryOf(all[i]) /\ all[i] \in NodeSet
  BY ListOfType
<1>2. \A i \in 1 .. Len(all) : ListOf(all)[i][1] = InternalKey(all[i])
  BY <1>1 DEF EntryOf
<1>3. ASSUME NEW j \in 1 .. Len(all), NEW k \in 1 .. Len(all)
      PROVE  (Before(all[j], all[k]) <=> j < k) /\ (all[j] = all[k] => j = k)
  <2>1. /\ j < k => Before(all[j], all[k])
        /\ k < j => Before(all[k], all[j])
    BY DEF Ascending
  <2>2. ~(Before(all[j], all[k]) /\ Before(all[k], all[j])) /\ ~Before(all[j], all[j])
    BY <1>1, BeforeOrders
  <2>3. j < k \/ k < j \/ j = k
    OBVIOUS
  <2>4. all[j] = all[k] => ~Before(all[j], all[k]) /\ ~Before(all[k], all[j])
    BY <2>2, Zenon
  <2>5. j = k => ~Before(all[j], all[k]) /\ ~(j < k)
    BY <2>2
  <2>6. k < j => ~(j < k)
    OBVIOUS
  <2> QED BY <2>1, <2>2, <2>3, <2>4, <2>5, <2>6, Zenon
<1>4. \A j, k \in 1 .. Len(all) : KeyBefore(ListOf(all)[j][1], ListOf(all)[k][1]) <=> j < k
  <2> TAKE j, k \in 1 .. Len(all)
  <2>1. KeyBefore(InternalKey(all[j]), InternalKey(all[k])) <=> Before(all[j], all[k])
    BY <1>1, InternalKeys
  <2> QED BY <1>2, <1>3, <2>1
<1>5. ASSUME NEW t \in SeekTargets PROVE Splits(ListOf(all), t)
  <2>1. PICK u \in Keys, s \in 0 .. MaxAdds : t = UserKey[u] \o <<PackSequenceAndType(s, kTypeValue)>>
    BY DEF SeekTargets
  <2>2. PICK n : n = [key |-> u, tag |-> PackSequenceAndType(s, kTypeValue), val |-> 0]
    OBVIOUS
  <2>3. PackSequenceAndType(s, kTypeValue) \in Nat
    BY EntryAssumption DEF PackSequenceAndType, kTypeValue
  <2>4. n \in NodeSet /\ InternalKey(n) = t
    BY <2>1, <2>2, <2>3 DEF NodeSet, InternalKey
  <2>5. \A i \in 1 .. Len(all) : KeyBefore(ListOf(all)[i][1], t) <=> Before(all[i], n)
    BY <1>1, <1>2, <2>4, InternalKeys
  <2> SUFFICES ASSUME NEW j \in 1 .. Len(all), NEW k \in 1 .. Len(all), j < k, KeyBefore(ListOf(all)[k][1], t)
               PROVE  KeyBefore(ListOf(all)[j][1], t)
    BY <1>1 DEF Splits
  <2>6. Before(all[j], all[k]) /\ Before(all[k], n)
    BY <1>3, <2>5
  <2>7. Before(all[j], n)
    BY <1>1, <2>4, <2>6, BeforeOrders
  <2> QED BY <2>5, <2>7
<1> QED BY <1>1, <1>3, <1>4, <1>5 DEF KeysSorted

\* The list is dealt out to the blocks.
LEMMA ShelfDealt ==
  ASSUME TableType, Numbered, NEW bs, Len(bs) \in Nat, Len(bs) # 0, NEW N, Shelf(N, bs, adds, Len(adds)),
         NEW all, all = InOrder({NodeOf(s) : s \in 1 .. Len(adds)})
  PROVE  all \in Seq(NodeSet) /\ Ascending(all) /\ \E P : Dealt(ListOf(all), bs, P)
<1>1. PICK A : A = {NodeOf(s) : s \in 1 .. Len(adds)}
  OBVIOUS
<1>2. /\ \A s \in 1 .. Len(adds) : NodeAt(adds, s) = NodeOf(s)
      /\ A \subseteq NodeSet /\ IsFiniteSet(A) /\ Unlike(A)
  <2>1. 0 \in Nat /\ 0 + 1 = 1
    OBVIOUS
  <2> QED BY <1>1, <2>1, NodesUnlike
<1>3. /\ all \in Seq(NodeSet) /\ Ascending(all)
      /\ \A i \in 1 .. Len(all) : all[i] \in A
      /\ \A n \in A : \E i \in 1 .. Len(all) : all[i] = n
  BY <1>1, <1>2, InOrderLists
<1>4. /\ Len(ListOf(all)) = Len(all) /\ Len(all) \in Nat
      /\ \A i \in 1 .. Len(all) : ListOf(all)[i] = EntryOf(all[i])
  BY <1>3, ListOfType
<1>5. /\ \A j, k \in 1 .. Len(all) : Before(all[j], all[k]) <=> j < k
      /\ \A j, k \in 1 .. Len(all) : all[j] = all[k] => j = k
  BY <1>3, ListSorted
<1> DEFINE Place(n) == CHOOSE j \in 1 .. Len(all) : all[j] = n
<1>6. \A n \in A : Place(n) \in 1 .. Len(all) /\ all[Place(n)] = n
  BY <1>3
<1> HIDE DEF Place
<1>7. PICK P : P = [c \in 1 .. Len(bs) |-> [i \in 1 .. Len(N[c]) |-> Place(N[c][i])]]
  OBVIOUS
<1>8. ASSUME NEW c \in 1 .. Len(bs)
      PROVE  /\ N[c] \in Seq(NodeSet) /\ Len(N[c]) \in Nat /\ Len(N[c]) # 0 /\ Ascending(N[c])
             /\ Holds(bs[c], ListOf(N[c]))
             /\ \A i \in 1 .. Len(N[c]) : N[c][i] \in A
  <2>1. /\ N[c] \in Seq(NodeSet) /\ Len(N[c]) # 0 /\ Ascending(N[c])
        /\ Holds(bs[c], ListOf(N[c]))
        /\ \A i \in 1 .. Len(N[c]) : \E s \in 1 .. Len(adds) : N[c][i] = NodeAt(adds, s)
    BY DEF Shelf
  <2>2. Len(N[c]) \in Nat
    BY <2>1
  <2> QED BY <1>1, <1>2, <2>1, <2>2
<1>9. ASSUME NEW c \in 1 .. Len(bs)
      PROVE  /\ P[c] \in Seq(1 .. Len(all)) /\ Len(P[c]) = Len(N[c])
             /\ \A i \in 1 .. Len(N[c]) : P[c][i] \in 1 .. Len(all) /\ all[P[c][i]] = N[c][i]
  <2>1. P[c] = [i \in 1 .. Len(N[c]) |-> Place(N[c][i])]
    BY <1>7
  <2>2. \A i \in 1 .. Len(N[c]) : Place(N[c][i]) \in 1 .. Len(all) /\ all[Place(N[c][i])] = N[c][i]
    BY <1>6, <1>8
  <2>3. Len(N[c]) \in Nat
    BY <1>8
  <2>4. PICK l, f, D : l \in Nat /\ l = Len(N[c]) /\ f = P[c] /\ D = 1 .. Len(all)
    BY <2>3
  <2>5. f = [i \in 1 .. l |-> f[i]] /\ \A i \in 1 .. l : f[i] = Place(N[c][i])
    BY <2>1, <2>4
  <2>6. \A i \in 1 .. l : f[i] \in D /\ all[f[i]] = N[c][i]
    BY <2>2, <2>4, <2>5
  <2>7. f \in Seq(D) /\ Len(f) = l
    <3>1. l \in Nat
      BY <2>4
    <3> QED BY <2>5, <2>6, <3>1
  <2> QED BY <2>4, <2>6, <2>7
<1>10. ASSUME NEW c \in 1 .. Len(bs) PROVE Hand(ListOf(all), bs[c], P[c])
  <2>1. \A i, j \in 1 .. Len(P[c]) : i < j => P[c][i] < P[c][j]
    <3> TAKE i, j \in 1 .. Len(P[c])
    <3>1. i < j => Before(N[c][i], N[c][j])
      BY <1>8, <1>9 DEF Ascending
    <3>2. /\ P[c][i] \in 1 .. Len(all) /\ all[P[c][i]] = N[c][i]
          /\ P[c][j] \in 1 .. Len(all) /\ all[P[c][j]] = N[c][j]
      BY <1>9
    <3> QED BY <1>5, <3>1, <3>2
  <2>2. Part(ListOf(all), P[c]) = ListOf(N[c])
    <3>1. \A i \in 1 .. Len(N[c]) : ListOf(all)[P[c][i]] = EntryOf(N[c][i])
      BY <1>4, <1>9
    <3> QED BY <1>9, <3>1 DEF Part, ListOf
  <2>3. P[c] \in Seq(1 .. Len(ListOf(all))) /\ Len(P[c]) # 0
    BY <1>4, <1>8, <1>9
  <2> QED BY <1>8, <2>1, <2>2, <2>3 DEF Hand
<1>11. ASSUME NEW c \in 1 .. Len(bs), NEW d \in 1 .. Len(bs), NEW i \in 1 .. Len(P[c]), NEW j \in 1 .. Len(P[d]),
              P[c][i] = P[d][j]
       PROVE  c = d
  <2>1. i \in 1 .. Len(N[c]) /\ j \in 1 .. Len(N[d])
    BY <1>9
  <2>2. N[c][i] = N[d][j]
    <3>1. all[P[c][i]] = N[c][i]
      BY <1>9, <2>1
    <3>2. all[P[d][j]] = N[d][j]
      BY <1>9, <2>1
    <3> QED BY <1>11, <3>1, <3>2
  <2>3. \A e, f \in 1 .. Len(bs) : \A x \in 1 .. Len(N[e]), y \in 1 .. Len(N[f]) : N[e][x] = N[f][y] => e = f
    BY DEF Shelf
  <2> QED BY <2>1, <2>2, <2>3
<1>12. ASSUME NEW k \in 1 .. Len(ListOf(all))
       PROVE  \E c \in 1 .. Len(bs) : \E i \in 1 .. Len(P[c]) : P[c][i] = k
  <2>1. k \in 1 .. Len(all)
    BY <1>4
  <2>2. PICK s \in 1 .. Len(adds) : all[k] = NodeAt(adds, s)
    <3>1. all[k] \in A
      BY <1>3, <2>1
    <3> QED BY <1>1, <1>2, <3>1
  <2>3. PICK c \in 1 .. Len(bs) : \E i \in 1 .. Len(N[c]) : N[c][i] = NodeAt(adds, s)
    BY DEF Shelf
  <2>4. PICK i \in 1 .. Len(N[c]) : N[c][i] = NodeAt(adds, s)
    BY <2>3
  <2>5. P[c][i] \in 1 .. Len(all) /\ all[P[c][i]] = all[k] /\ i \in 1 .. Len(P[c])
    BY <1>9, <2>2, <2>4
  <2>6. P[c][i] = k
    BY <1>5, <2>1, <2>5
  <2> QED BY <2>5, <2>6
<1>13. Dealt(ListOf(all), bs, P)
  BY <1>10, <1>11, <1>12 DEF Dealt
<1> QED BY <1>3, <1>13

\* A new iterator is at none of them.
LEMMA OpensAtNone ==
  ASSUME NEW list, KeysSorted(list), NEW P, Dealt(list, blocks, P), NEW cs,
         cs = [i \in 1 .. Len(blocks) |-> Update(i, NewIter(blocks[i]), <<>>)],
         NEW dir
  PROVE  Tracking(list, blocks, P, cs, 0, dir, 0)
<1>1. Len(blocks) \in Nat /\ Len(blocks) # 0
  BY DEF Dealt
<1>2. ASSUME NEW c \in 1 .. Len(blocks) PROVE cs[c] \in Wrapper /\ AtNone(blocks[c], cs[c].it)
  <2>1. Hand(list, blocks[c], P[c])
    BY DEF Dealt
  <2>2. blocks[c].size \in Nat /\ NumRestarts(blocks[c]) \in Nat
    BY <2>1 DEF Hand, Holds, Placed, Restarting, NumRestarts
  <2>3. <<>> \in Chars
    BY DEF Chars
  <2>4. AtNone(blocks[c], NewIter(blocks[c]))
    BY <2>2, <2>3 DEF AtNone, NewIter, Iters
  <2>5. Stands(list, blocks[c], P[c], Update(c, NewIter(blocks[c]), <<>>), 0)
    BY <2>1, <2>3, <2>4, UpdateStands
  <2>6. cs[c] = Update(c, NewIter(blocks[c]), <<>>)
    OBVIOUS
  <2> QED BY <2>5, <2>6 DEF Stands
<1>3. cs \in Seq(Wrapper) /\ Len(cs) = Len(blocks)
  BY <1>1, <1>2
<1>4. AtNone(blocks[1], cs[1].it)
  BY <1>1, <1>2
<1> QED BY <1>3, <1>4 DEF Tracking
-----------------------------------------------------------------------------
(***************************************************************************)
(* The iterator is a cursor.                                               *)
(***************************************************************************)
IterInv ==
  /\ call = <<>> => /\ entries = <<>> /\ current_ = 0 /\ blocks \in Seq(BlockRecord)
                    /\ \E N : Shelf(N, blocks, adds, born)
  /\ call # <<>> => /\ \A t \in SeekTargets : Splits(entries, t)
                    /\ \E P, k : On(P, k)

CursorStep == [Abstract!Open \/ Abstract!Move]_<<entries, Position, call>>

\* A memtable that goes on changes nothing that was added before.
LEMMA MemtableGoesOn ==
  ASSUME ReadInv, [Next]_memVars
  PROVE  born' = born /\ \A s \in 1 .. born : adds'[s] = adds[s]
<1>1. adds \in Seq(AddEntry) /\ born \in Nat /\ Len(adds) \in Nat /\ born <= Len(adds)
  BY DEF ReadInv, TableType
<1>2. ASSUME NEW k, NEW t, NEW v, Add(k, t, v) PROVE born' = born /\ \A s \in 1 .. born : adds'[s] = adds[s]
  <2>1. born' = born /\ adds' = Append(adds, [key |-> k, seq |-> last_sequence + 1, type |-> t, val |-> v])
    BY <1>2 DEF Add
  <2>2. \A s \in 1 .. born : s \in 1 .. Len(adds)
    BY <1>1
  <2>3. \A s \in 1 .. Len(adds) : adds'[s] = adds[s]
    BY <1>1, <2>1
  <2> QED BY <2>1, <2>2, <2>3
<1>3. CASE SetLastSequence \/ (\E k \in Keys : GetBegin(k)) \/ GetSeek \/ GetReturn \/ UNCHANGED memVars
  <2>1. born' = born /\ adds' = adds
    BY <1>3 DEF SetLastSequence, GetBegin, GetSeek, GetReturn, memVars, tableVars
  <2> QED BY <2>1
<1> QED BY <1>2, <1>3 DEF Next

\* A step of the memtable, or none.
LEMMA IterIdle ==
  ASSUME ReadInv, IterInv, UNCHANGED iterVars, \/ call = <<>> /\ Next
                                               \/ UNCHANGED memVars
  PROVE  IterInv' /\ CursorStep
<1>1. UNCHANGED <<blocks, children_, current_, direction_, call, entries>>
  BY DEF iterVars
<1>2. Position' = Position
  <2>1. At' = At /\ Valid' = Valid /\ Key' = Key /\ Value' = Value
    BY <1>1 DEF At, Valid, Key, Value, Merging
  <2> QED BY <1>1, <2>1 DEF Position
<1>3. CursorStep
  BY <1>1, <1>2 DEF CursorStep
<1>4. CASE call = <<>>
  <2>1. PICK N : Shelf(N, blocks, adds, born)
    BY <1>4 DEF IterInv
  <2>2. born' = born /\ \A s \in 1 .. born : adds'[s] = adds[s]
    BY MemtableGoesOn
  <2>3. \A s \in 1 .. born : NodeAt(adds', s) = NodeAt(adds, s)
    BY <2>2 DEF NodeAt
  <2>4. Shelf(N, blocks, adds', born)
    <3>1. ASSUME NEW c \in 1 .. Len(blocks)
          PROVE  /\ N[c] \in Seq(NodeSet) /\ Len(N[c]) # 0 /\ Ascending(N[c]) /\ Holds(blocks[c], ListOf(N[c]))
                 /\ \A i \in 1 .. Len(N[c]) : \E s \in 1 .. born : N[c][i] = NodeAt(adds', s)
      <4>1. /\ N[c] \in Seq(NodeSet) /\ Len(N[c]) # 0 /\ Ascending(N[c]) /\ Holds(blocks[c], ListOf(N[c]))
            /\ \A i \in 1 .. Len(N[c]) : \E s \in 1 .. born : N[c][i] = NodeAt(adds, s)
        BY <2>1 DEF Shelf
      <4>2. \A i \in 1 .. Len(N[c]) : \E s \in 1 .. born : N[c][i] = NodeAt(adds', s)
        BY <2>3, <4>1, Zenon
      <4> QED BY <4>1, <4>2
    <3>2. ASSUME NEW s \in 1 .. born
          PROVE  \E c \in 1 .. Len(blocks) : \E i \in 1 .. Len(N[c]) : N[c][i] = NodeAt(adds', s)
      <4>1. \E c \in 1 .. Len(blocks) : \E i \in 1 .. Len(N[c]) : N[c][i] = NodeAt(adds, s)
        BY <2>1 DEF Shelf
      <4> QED BY <2>3, <4>1, Zenon
    <3>3. \A c, d \in 1 .. Len(blocks) : \A i \in 1 .. Len(N[c]), j \in 1 .. Len(N[d]) : N[c][i] = N[d][j] => c = d
      BY <2>1 DEF Shelf
    <3> QED BY <3>1, <3>2, <3>3 DEF Shelf
  <2> QED BY <1>1, <1>3, <1>4, <2>2, <2>4 DEF IterInv
<1>5. CASE call # <<>>
  <2>1. PICK P, k : On(P, k)
    BY <1>5 DEF IterInv
  <2>2. On(P, k)'
    BY <1>1, <2>1 DEF On
  <2>3. \A t \in SeekTargets' : Splits(entries', t)
    BY <1>1, <1>5 DEF IterInv, SeekTargets
  <2> QED BY <1>1, <1>3, <1>5, <2>2, <2>3 DEF IterInv
<1> QED BY <1>4, <1>5

\* A flush is no step of the cursor.
LEMMA IterFlush ==
  ASSUME ReadInv, IterInv, Flushlevel0fromskip
  PROVE  IterInv' /\ CursorStep
<1>1. /\ call = <<>> /\ table # {} /\ blocks' = Append(blocks, BlockOf(InOrder(table)))
      /\ born' = Len(adds) /\ UNCHANGED <<adds, children_, current_, direction_, call, entries>>
  BY DEF Flushlevel0fromskip
<1>2. Position' = Position
  BY <1>1 DEF Position
<1>3. CursorStep
  BY <1>1, <1>2 DEF CursorStep
<1>4. PICK N : Shelf(N, blocks, adds, born)
  BY <1>1 DEF IterInv
<1>5. blocks' \in Seq(BlockRecord) /\ \E M : Shelf(M, blocks', adds, Len(adds))
  BY <1>1, <1>4, ShelfGrows DEF IterInv
<1> QED BY <1>1, <1>3, <1>5 DEF IterInv

\* NewMergingIterator makes the cursor.
LEMMA IterOpen ==
  ASSUME ReadInv, IterInv, NewMergingIterator
  PROVE  IterInv' /\ CursorStep
<1>1. /\ call = <<>> /\ blocks # <<>> /\ table = {}
      /\ children_' = [i \in 1 .. Len(blocks) |-> Update(i, NewIter(blocks[i]), <<>>)]
      /\ call' = <<"Open">> /\ entries' = Sorted
      /\ UNCHANGED <<blocks, current_, direction_>>
  BY DEF NewMergingIterator
<1>2. TableType /\ Numbered /\ table = {NodeOf(s) : s \in born + 1 .. Len(adds)}
  BY DEF ReadInv, TableHeld
<1>3. blocks \in Seq(BlockRecord) /\ current_ = 0
  BY <1>1 DEF IterInv
<1>4. Len(blocks) \in Nat /\ Len(blocks) # 0
  BY <1>1, <1>3
<1>5. born = Len(adds)
  <2>1. born \in Nat /\ Len(adds) \in Nat /\ born <= Len(adds)
    BY <1>2 DEF TableType
  <2>2. born + 1 .. Len(adds) = {}
    BY <1>1, <1>2
  <2>3. Len(adds) \notin born + 1 .. Len(adds)
    BY <2>2
  <2> QED BY <2>1, <2>3
<1>6. PICK N : Shelf(N, blocks, adds, Len(adds))
  BY <1>1, <1>5 DEF IterInv
<1>7. PICK all : all = InOrder({NodeOf(s) : s \in 1 .. Len(adds)})
  OBVIOUS
<1>8. PICK P : all \in Seq(NodeSet) /\ Ascending(all) /\ Dealt(ListOf(all), blocks, P)
  BY <1>2, <1>4, <1>6, <1>7, ShelfDealt
<1>9. entries' = ListOf(all)
  BY <1>1, <1>7 DEF Sorted, NodeOf, ListOf, EntryOf
<1>10. KeysSorted(entries') /\ Dealt(entries', blocks, P) /\ \A t \in SeekTargets : Splits(entries', t)
  BY <1>8, <1>9, ListSorted
<1>11. Tracking(entries', blocks, P, children_', 0, direction_', 0)
  BY <1>1, <1>10, OpensAtNone
<1>12. 0 \in 0 .. Len(entries')
  BY <1>10 DEF KeysSorted
<1>13. call' # <<>> /\ blocks' = blocks /\ current_' = 0
  BY <1>1, <1>3
<1>14. On(P, 0)'
  BY <1>10, <1>11, <1>12, <1>13 DEF On
<1>15. Position' = 0
  <2>1. PositionIn(entries', blocks, children_', 0) = 0
    BY <1>10, <1>11, <1>12, TrackingShows
  <2> QED BY <1>13, <2>1, PositionNow
<1>16. CursorStep
  BY <1>1, <1>15 DEF CursorStep, Abstract!Open
<1> QED BY <1>10, <1>13, <1>14, <1>16 DEF IterInv, SeekTargets

\* A step of the iterator, as the cursor takes it.
LEMMA Moved ==
  ASSUME NEW P, NEW k, NEW m, On(P, k), To(P, m), call' # <<>>, \A t \in SeekTargets : Splits(entries, t)
  PROVE  IterInv' /\ entries' = entries /\ Position = k /\ Position' = m
<1>1. /\ KeysSorted(entries) /\ Dealt(entries, blocks, P) /\ k \in 0 .. Len(entries) /\ call # <<>>
      /\ Tracking(entries, blocks, P, children_, current_, direction_, k)
  BY DEF On
<1>2. /\ blocks' = blocks /\ entries' = entries /\ m \in 0 .. Len(entries)
      /\ Tracking(entries, blocks, P, children_', current_', direction_', m)
  BY DEF To
<1>3. PositionIn(entries, blocks, children_, current_) = k
  BY <1>1, TrackingShows
<1>4. PositionIn(entries, blocks, children_', current_') = m
  BY <1>1, <1>2, TrackingShows
<1>5. Position = k
  BY <1>1, <1>3, PositionNow
<1>6. Position' = m
  BY <1>2, <1>4, PositionNow
<1>7. On(P, m)'
  BY <1>1, <1>2 DEF On
<1>8. \A t \in SeekTargets' : Splits(entries', t)
  BY <1>2 DEF SeekTargets
<1> QED BY <1>2, <1>5, <1>6, <1>7, <1>8 DEF IterInv

\* The first entry that is not before a target.
LEMMA TargetCut ==
  ASSUME NEW list, Len(list) \in Nat, NEW t, Splits(list, t)
  PROVE  \E m \in 1 .. Len(list) + 1 : \A i \in 1 .. Len(list) : KeyBefore(list[i][1], t) <=> i < m
<1> DEFINE T == {i \in 1 .. Len(list) + 1 : i \in 1 .. Len(list) => ~KeyBefore(list[i][1], t)}
<1>1. Len(list) + 1 \in T /\ T \subseteq Nat
  OBVIOUS
<1>2. PICK m \in T : \A y \in T : m <= y
  BY <1>1, LeastNat
<1>3. m \in 1 .. Len(list) + 1 /\ (m \in 1 .. Len(list) => ~KeyBefore(list[m][1], t))
  BY <1>2
<1>4. ASSUME NEW i \in 1 .. Len(list) PROVE KeyBefore(list[i][1], t) <=> i < m
  <2>1. CASE i < m
    <3>1. i \notin T /\ i \in 1 .. Len(list) + 1
      BY <1>2, <1>3, <2>1
    <3> QED BY <2>1, <3>1
  <2>2. CASE ~(i < m)
    <3>1. m \in 1 .. Len(list) /\ (m = i \/ m < i)
      BY <1>3, <2>2
    <3>2. ~KeyBefore(list[m][1], t)
      BY <1>3, <3>1
    <3>3. m < i => ~KeyBefore(list[i][1], t)
      BY <3>1, <3>2 DEF Splits
    <3> QED BY <2>2, <3>1, <3>2, <3>3
  <2> QED BY <2>1, <2>2
<1> QED BY <1>3, <1>4

\* The operations are those of the cursor.
LEMMA IterMoves ==
  ASSUME IterInv, \/ SeekToFirst \/ SeekToLast \/ NextEntry \/ PrevEntry
                  \/ \E t \in SeekTargets : SeekTarget(t)
  PROVE  IterInv' /\ CursorStep
<1>1. call # <<>>
  BY DEF SeekToFirst, SeekToLast, NextEntry, PrevEntry, SeekTarget, MoveAll
<1>2. PICK P, k : On(P, k)
  BY <1>1 DEF IterInv
<1>3. \A t \in SeekTargets : Splits(entries, t)
  BY <1>1 DEF IterInv
<1>4. Len(entries) \in Nat /\ Len(entries) # 0 /\ k \in Nat /\ entries # <<>>
  <2>1. Len(entries) \in Nat /\ Len(entries) # 0 /\ k \in Nat
    BY <1>2, OnFacts
  <2> QED BY <2>1
<1>5. CASE SeekToFirst
  <2>1. call' = <<"SeekToFirst">> /\ To(P, 1)
    BY <1>2, <1>5, SeekToFirstLands
  <2>2. IterInv' /\ entries' = entries /\ Position' = 1
    BY <1>2, <1>3, <2>1, Moved
  <2>3. Abstract!Move
    BY <1>4, <2>1, <2>2 DEF Abstract!Move, Abstract!SeekToFirst
  <2> QED BY <2>2, <2>3 DEF CursorStep
<1>6. CASE SeekToLast
  <2>1. call' = <<"SeekToLast">> /\ To(P, Len(entries))
    BY <1>2, <1>6, SeekToLastLands
  <2>2. IterInv' /\ entries' = entries /\ Position' = Len(entries)
    BY <1>2, <1>3, <2>1, Moved
  <2>3. Abstract!Move
    BY <2>1, <2>2 DEF Abstract!Move, Abstract!SeekToLast
  <2> QED BY <2>2, <2>3 DEF CursorStep
<1>7. CASE NextEntry
  <2>1. k # 0 /\ call' = <<"Next">> /\ To(P, IF k = Len(entries) THEN 0 ELSE k + 1)
    BY <1>2, <1>7, NextLands
  <2>2. /\ IterInv' /\ entries' = entries /\ Position = k
        /\ Position' = IF k = Len(entries) THEN 0 ELSE k + 1
    BY <1>2, <1>3, <2>1, Moved
  <2>3. Abstract!Move
    BY <2>1, <2>2 DEF Abstract!Move, Abstract!Next, Abstract!Valid
  <2> QED BY <2>2, <2>3 DEF CursorStep
<1>8. CASE PrevEntry
  <2>1. k # 0 /\ call' = <<"Prev">> /\ To(P, k - 1)
    BY <1>2, <1>8, PrevLands
  <2>2. IterInv' /\ entries' = entries /\ Position = k /\ Position' = k - 1
    BY <1>2, <1>3, <2>1, Moved
  <2>3. Abstract!Move
    BY <2>1, <2>2 DEF Abstract!Move, Abstract!Prev, Abstract!Valid
  <2> QED BY <2>2, <2>3 DEF CursorStep
<1>9. ASSUME NEW t \in SeekTargets, SeekTarget(t) PROVE IterInv' /\ CursorStep
  <2>1. PICK m \in 1 .. Len(entries) + 1 : \A i \in 1 .. Len(entries) : KeyBefore(entries[i][1], t) <=> i < m
    BY <1>3, <1>4, TargetCut
  <2>2. call' = <<"Seek", t>> /\ To(P, IF m > Len(entries) THEN 0 ELSE m)
    BY <1>2, <1>9, <2>1, SeekLands
  <2>3. IterInv' /\ entries' = entries /\ Position' = IF m > Len(entries) THEN 0 ELSE m
    BY <1>2, <1>3, <2>2, Moved
  <2> DEFINE at == {i \in 1 .. Len(entries) : ~KeyBefore(entries[i][1], t)}
  <2>4. at = {i \in 1 .. Len(entries) : ~(i < m)}
    BY <2>1
  <2>5. (IF m > Len(entries) THEN 0 ELSE m) = IF at = {} THEN 0 ELSE CHOOSE i \in at : \A j \in at : i <= j
    <3> HIDE DEF at
    <3>1. CASE m > Len(entries)
      <4>1. at = {}
        BY <1>4, <2>4, <3>1
      <4> QED BY <3>1, <4>1
    <3>2. CASE ~(m > Len(entries))
      <4>1. m \in at /\ \A j \in at : m <= j /\ j \in Nat
        BY <1>4, <2>4, <3>2
      <4>2. \A i \in at : (\A j \in at : i <= j) => i = m
        BY <4>1
      <4>3. (CHOOSE i \in at : \A j \in at : i <= j) = m
        BY <4>1, <4>2
      <4> QED BY <3>2, <4>1, <4>3
    <3> QED BY <3>1, <3>2
  <2>6. Abstract!Seek(t)
    BY <2>2, <2>3, <2>5 DEF Abstract!Seek, AtOrAfterTarget
  <2>7. Abstract!Move
    BY <2>3, <2>6 DEF Abstract!Move
  <2> QED BY <2>3, <2>7 DEF CursorStep
<1> QED BY <1>5, <1>6, <1>7, <1>8, <1>9

\* Every step keeps the invariant and is a step of the cursor.
LEMMA IterStep == ReadInv /\ IterInv /\ [NextM]_vars => IterInv' /\ CursorStep
<1> SUFFICES ASSUME ReadInv, IterInv, [NextM]_vars PROVE IterInv' /\ CursorStep
  OBVIOUS
<1>1. CASE call = <<>> /\ Next /\ UNCHANGED iterVars
  BY <1>1, IterIdle
<1>2. CASE UNCHANGED vars
  BY <1>2, IterIdle DEF vars
<1> QED BY <1>1, <1>2, IterFlush, IterOpen, IterMoves DEF NextM

\* Initially there is no iterator.
LEMMA IterInitially == InitM => IterInv /\ entries = <<>> /\ Position = 0 /\ call = <<>>
<1> SUFFICES ASSUME InitM PROVE IterInv /\ entries = <<>> /\ Position = 0 /\ call = <<>>
  OBVIOUS
<1>1. /\ entries = <<>> /\ call = <<>> /\ blocks = <<>> /\ current_ = 0 /\ born = 0
  BY DEF InitM, Init
<1>2. Position = 0
  BY <1>1 DEF Position
<1>3. Len(blocks) = 0 /\ blocks \in Seq(BlockRecord) /\ 1 .. 0 = {}
  BY <1>1
<1>4. Shelf(<<>>, blocks, adds, born)
  BY <1>1, <1>3 DEF Shelf
<1> QED BY <1>1, <1>2, <1>3, <1>4 DEF IterInv

\* The iterator that NewMergingIterator makes over the blocks of any number of flushed
\* memtables (a Merageitor, or the only Block::Iter) implements the cursor over all that
\* was added to them: every SeekToFirst, SeekToLast, Seek, Next and Prev, in any order
\* and with any changes of direction, takes the step that the cursor takes.
THEOREM MergeImplementsCursor == SpecM => IteratorIsCursor
<1>1. InitM => IterInv /\ entries = <<>> /\ Position = 0 /\ call = <<>>
  BY IterInitially
<1>2. ReadInv /\ IterInv /\ [NextM]_vars =>
        IterInv' /\ [Abstract!Open \/ Abstract!Move]_<<entries, Position, call>>
  BY IterStep DEF CursorStep
<1> HIDE DEF Position
<1> QED BY <1>1, <1>2, ReadAlways, PTL DEF SpecM, IteratorIsCursor, Abstract!Spec
=============================================================================
